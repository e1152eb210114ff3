\* The engine under edits, failures and a clock that is set back.
SPECIFICATION FairSpec
CONSTANTS
  s1 = s1
  s2 = s2
  d1 = d1
  d2 = d2
  Schedule <- MCSchedule
  Device <- MCDevice
  Dto <- MCDto
  Edit <- MCEdit
  Local <- MCLocal
  Interval = 2
  Jitter = 1
  MaxTime = 5
  MaxFailures = 1
  MaxRequests = 1
  None = None
CHECK_DEADLOCK FALSE
INVARIANTS
  TypeOK
  FiresOnce
  DueWasSent
PROPERTY
  OneTimeFires
