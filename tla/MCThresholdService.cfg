\* Concurrent telemetry, one failure or restart.
SPECIFICATION Spec
CONSTANTS
  d1 = d1
  moisture = moisture
  current = current
  pumpOn = pumpOn
  pumpOff = pumpOff
  h1 = h1
  h2 = h2
  Device <- MCDevice
  Sensor <- MCSensor
  Action <- MCAction
  AlertOnly = AlertOnly
  Payload <- MCPayload
  Handler <- MCHandler
  MaxTime = 3
  MaxFailures = 1
  Cooldown = 2
  None = None
SYMMETRY Symmetry
CHECK_DEADLOCK FALSE
INVARIANTS
  TypeOK
  OncePerEpisode
  HeldWasSent
PROPERTY
  CooldownKept
