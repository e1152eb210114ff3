\* A controller, two gateways and two farms; two requests at a time.
SPECIFICATION MCSpec
CONSTANTS
  d1 = d1
  g1 = g1
  g2 = g2
  f1 = f1
  f2 = f2
  r1 = r1
  r2 = r2
  Serial <- MCSerial
  Farm <- MCFarm
  Gateway <- MCGateway
  Request <- MCRequest
  MaxRequests = 3
  MaxFailures = 1
  None = None
SYMMETRY Symmetry
CHECK_DEADLOCK FALSE
INVARIANTS
  TypeOK
  PairedHasCredential
  RevokedStaysOut
  TokenOnce
  ControllerMatches
  GatewayOfFarm
