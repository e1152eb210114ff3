\* Deployments to a device behind a gateway and to a gateway.
SPECIFICATION Spec
CONSTANTS
  d1 = d1
  g1 = g1
  v1 = v1
  v2 = v2
  w1 = w1
  l1 = l1
  l2 = l2
  h1 = h1
  h2 = h2
  Device <- MCDevice
  Gateway <- MCGateway
  Routed <- MCDevice
  Firmware <- MCFirmware
  ForGateway <- MCForGateway
  Administered <- MCAdministered
  Asking <- MCAsking
  LogId <- MCLogId
  Handler <- MCHandler
  MaxReports = 2
  MaxOthers = 1
  None = None
SYMMETRY Symmetry
CHECK_DEADLOCK FALSE
INVARIANTS
  TypeOK
  OwnOutcome
  EveryReportRecorded
  VersionFollows
  RightFirmware
PROPERTY
  KeepsHistory
