\* Overlapping closes of one session, alerts and a report.
SPECIFICATION Spec
CONSTANTS
  d1 = d1
  s1 = s1
  s2 = s2
  h1 = h1
  h2 = h2
  Device <- MCDevice
  SessionId <- TwoSessions
  Handler <- TwoHandlers
  MaxTime = 3
  MaxFailures = 1
  StaleAfter = 0
  OverlappingStarts = FALSE
  Cron = Cron
  None = None
  MaxReadings = 1
  MaxAlerts = 1
  Scopes <- MCScopes
  Query <- MCQuery
SYMMETRY Symmetry
CHECK_DEADLOCK FALSE
INVARIANTS
  TypeOK
  SpanSummed
  FlagsAgree
  ReportAgrees
PROPERTY
  KeepsRegister
