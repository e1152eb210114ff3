\* Two sensors that share an action.
SPECIFICATION Spec
CONSTANTS
  d1 = d1
  moisture = moisture
  current = current
  pumpOn = pumpOn
  pumpOff = pumpOff
  h1 = h1
  h2 = h2
  Device <- MCDevice
  Sensor <- MCSensor
  Action <- MCAction
  AlertOnly = AlertOnly
  Payload <- MCPayload
  Handler <- MCHandler
  MaxTime = 3
  MaxFailures = 0
  Cooldown = 2
  None = None
SYMMETRY Symmetry
CHECK_DEADLOCK FALSE
PROPERTY
  CooldownPerAction
