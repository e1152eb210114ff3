\* Overlapping handlers, failures and crashes.
SPECIFICATION Spec
CONSTANTS
  d1 = d1
  s1 = s1
  s2 = s2
  h1 = h1
  h2 = h2
  Device <- MCDevice
  SessionId <- OneSession
  Handler <- TwoHandlers
  MaxTime = 3
  MaxFailures = 1
  StaleAfter = 1
  OverlappingStarts = TRUE
  Cron = Cron
  None = None
SYMMETRY Symmetry
CHECK_DEADLOCK FALSE
INVARIANTS
  TypeOK
  SessionCredit
  DeviceHours
  CompletedSpan
