\* Starts of a device do not overlap.
SPECIFICATION Spec
CONSTANTS
  d1 = d1
  s1 = s1
  s2 = s2
  h1 = h1
  h2 = h2
  Device <- MCDevice
  SessionId <- TwoSessions
  Handler <- TwoHandlers
  MaxTime = 1
  MaxFailures = 1
  StaleAfter = 0
  OverlappingStarts = FALSE
  Cron = Cron
  None = None
SYMMETRY Symmetry
CHECK_DEADLOCK FALSE
INVARIANTS
  OneActive
  Numbered
PROPERTY
  KeepsRegister
