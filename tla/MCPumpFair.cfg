\* Fair scheduling.
SPECIFICATION FairSpec
CONSTANTS
  d1 = d1
  s1 = s1
  s2 = s2
  h1 = h1
  h2 = h2
  Device <- MCDevice
  SessionId <- OneSession
  Handler <- OneHandler
  MaxTime = 3
  MaxFailures = 1
  StaleAfter = 1
  OverlappingStarts = TRUE
  Cron = Cron
  None = None
CHECK_DEADLOCK FALSE
PROPERTY
  SilentSessionsEnd
