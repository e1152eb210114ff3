\* A last will received before a start and handled after it.
SPECIFICATION Spec
CONSTANTS
  d1 = d1
  s1 = s1
  s2 = s2
  h1 = h1
  h2 = h2
  Device <- MCDevice
  SessionId <- OneSession
  Handler <- TwoHandlers
  MaxTime = 3
  MaxFailures = 0
  StaleAfter = 1
  OverlappingStarts = TRUE
  Cron = Cron
  None = None
CHECK_DEADLOCK FALSE
INVARIANT
  EndNotBeforeStart
