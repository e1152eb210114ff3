\* A device, its gateway and its zone; three requests, two at a time.
SPECIFICATION MCSpec
CONSTANTS
  d1 = d1
  g1 = g1
  z1 = z1
  m1 = m1
  m2 = m2
  r1 = r1
  r2 = r2
  Device <- MCDevice
  Gateway <- MCGateway
  Zone <- MCZone
  Mode <- MCMode
  Normal = m1
  RuleSet <- MCRuleSet
  ZoneUpdate <- MCZoneUpdate
  DeviceUpdate <- MCDeviceUpdate
  Request <- MCRequest
  Scopes <- MCScopes
  MaxRequests = 3
  MaxFailures = 1
  TTL = 1
  MaxTime = 3
  Keep = Keep
  None = None
SYMMETRY Symmetry
CHECK_DEADLOCK FALSE
INVARIANTS
  TypeOK
  UsedRecently
  UpdateSeen
  ZoneKept
  PumpFeedback
