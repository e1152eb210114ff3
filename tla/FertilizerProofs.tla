--------------------------- MODULE FertilizerProofs ---------------------------
(***************************************************************************)
(* Theorems about FertilizerSession, for every value of its constants. The  *)
(* steps it shares with the pump tracker keep what PumpSessionProofs says   *)
(* of them, so those lemmas are taken over by INSTANCE and only the longer  *)
(* closes and the report are proved here.                                   *)
(***************************************************************************)
EXTENDS FertilizerSession, SumTheorems, TLAPS

Pump == INSTANCE PumpSessionProofs WITH lastData <- LastData, hours <- [d \in Device |-> 0]

-----------------------------------------------------------------------------
(* Tracker and Pump are the same module with the same substitution: what    *)
(* follows says so for the operators the proofs meet.                       *)

LEMMA SameValues ==
  /\ Tracker!Time = Pump!Time /\ Tracker!NoTime = Pump!NoTime
  /\ Tracker!Actor = Pump!Actor /\ Tracker!Rows = Pump!Rows
  /\ Tracker!OpenColumns = Pump!OpenColumns /\ Tracker!Idle = Pump!Idle
  /\ Tracker!Columns = Pump!Columns /\ Tracker!Row = Pump!Row /\ Tracker!Job = Pump!Job
  /\ Tracker!ActiveRows = Pump!ActiveRows
  BY DEF Tracker!Time, Pump!Time, Tracker!NoTime, Pump!NoTime, Tracker!Actor, Pump!Actor,
         Tracker!Rows, Pump!Rows, Tracker!OpenColumns, Pump!OpenColumns,
         Tracker!NoDuration, Pump!NoDuration, Tracker!Idle, Pump!Idle,
         Tracker!Columns, Pump!Columns, Tracker!Closed, Pump!Closed, Tracker!Row, Pump!Row,
         Tracker!Job, Pump!Job, Tracker!HandlerSteps, Pump!HandlerSteps,
         Tracker!CronSteps, Pump!CronSteps, Tracker!ActiveRows, Pump!ActiveRows,
         Tracker!Status, Pump!Status

LEMMA SameTypes == Tracker!TypeOK <=> Pump!TypeOK
  BY SameValues DEF Tracker!TypeOK, Pump!TypeOK

\* The steps of both are the same.
LEMMA SameJobs ==
  ASSUME NEW a, NEW j
  PROVE  /\ Tracker!Become(a, j) <=> Pump!Become(a, j)
         /\ Tracker!Finish(a) <=> Pump!Finish(a)
         /\ Tracker!Goto(a, j) <=> Pump!Goto(a, j)
  BY SameValues
     DEF Tracker!Become, Pump!Become, Tracker!Finish, Pump!Finish, Tracker!Goto, Pump!Goto

LEMMA SameClosing ==
  ASSUME NEW a, NEW s, NEW end, NEW status, NEW reason
  PROVE  Tracker!BeginClose(a, s, end, status, reason)
           = Pump!BeginClose(a, s, end, status, reason)
  BY DEF Tracker!BeginClose, Pump!BeginClose, Tracker!Closing, Pump!Closing

LEMMA SameStarts ==
  /\ \A h : Tracker!StartedFind(h) <=> Pump!StartedFind(h)
  /\ \A h : Tracker!StartedMax(h) <=> Pump!StartedMax(h)
  /\ \A h : Tracker!StartedInsert(h) <=> Pump!StartedInsert(h)
  /\ \A h : Tracker!PublishSessionId(h) <=> Pump!PublishSessionId(h)
  /\ \A h, d : Tracker!PumpOnReported(h, d) <=> Pump!PumpOnReported(h, d)
  /\ \A h, d : Tracker!PumpOffReported(h, d) <=> Pump!PumpOffReported(h, d)
  /\ \A h, d : Tracker!LastWillReceived(h, d) <=> Pump!LastWillReceived(h, d)
<1>1. \A d : Tracker!ActiveOf(d) = Pump!ActiveOf(d) /\ Tracker!RowsOf(d) = Pump!RowsOf(d)
  BY SameValues DEF Tracker!ActiveOf, Pump!ActiveOf, Tracker!RowsOf, Pump!RowsOf
<1>2. \A h : Tracker!StartedFind(h) <=> Pump!StartedFind(h)
  BY <1>1, SameJobs DEF Tracker!StartedFind, Pump!StartedFind
<1>3. \A h : Tracker!StartedMax(h) <=> Pump!StartedMax(h)
  BY <1>1, SameJobs DEF Tracker!StartedMax, Pump!StartedMax, Tracker!IsMaxNumber, Pump!IsMaxNumber
<1>4. \A h : Tracker!StartedInsert(h) <=> Pump!StartedInsert(h)
  BY SameValues, SameJobs DEF Tracker!StartedInsert, Pump!StartedInsert
<1>5. \A h : Tracker!PublishSessionId(h) <=> Pump!PublishSessionId(h)
  BY SameJobs DEF Tracker!PublishSessionId, Pump!PublishSessionId
<1>6. \A h, d, step, sid : Tracker!Receive(h, d, step, sid) <=> Pump!Receive(h, d, step, sid)
  BY SameValues, SameJobs DEF Tracker!Receive, Pump!Receive
<1>7. \A h, d : Tracker!PumpOnReported(h, d) <=> Pump!PumpOnReported(h, d)
  BY <1>6 DEF Tracker!PumpOnReported, Pump!PumpOnReported, Tracker!Starting, Pump!Starting
<1>8. \A h, d : Tracker!PumpOffReported(h, d) <=> Pump!PumpOffReported(h, d)
  BY <1>6 DEF Tracker!PumpOffReported, Pump!PumpOffReported
<1>9. \A h, d : Tracker!LastWillReceived(h, d) <=> Pump!LastWillReceived(h, d)
  BY <1>6 DEF Tracker!LastWillReceived, Pump!LastWillReceived
<1>. QED
  BY <1>2, <1>3, <1>4, <1>5, <1>7, <1>8, <1>9

LEMMA SameEnds ==
  /\ \A h : Tracker!StoppedFind(h) <=> Pump!StoppedFind(h)
  /\ \A h : Tracker!DisconnectedFind(h) <=> Pump!DisconnectedFind(h)
  /\ \A h : Tracker!DisconnectedLast(h) <=> Pump!DisconnectedLast(h)
  /\ \A a : Tracker!Load(a) <=> Pump!Load(a)
  /\ \A h : Tracker!HandlerFails(h) <=> Pump!HandlerFails(h)
  /\ Tracker!Crash <=> Pump!Crash
  /\ Tracker!Tick <=> Pump!Tick
<1>1. \A d : Tracker!ActiveOf(d) = Pump!ActiveOf(d)
  BY SameValues DEF Tracker!ActiveOf, Pump!ActiveOf
<1>2. \A h : Tracker!StoppedFind(h) <=> Pump!StoppedFind(h)
  BY <1>1, SameValues, SameJobs, SameClosing DEF Tracker!StoppedFind, Pump!StoppedFind
<1>3. \A h : Tracker!DisconnectedFind(h) <=> Pump!DisconnectedFind(h)
  BY <1>1, SameJobs DEF Tracker!DisconnectedFind, Pump!DisconnectedFind
<1>4. \A h : Tracker!DisconnectedLast(h) <=> Pump!DisconnectedLast(h)
  BY SameJobs, SameClosing DEF Tracker!DisconnectedLast, Pump!DisconnectedLast
<1>5. \A a : Tracker!Load(a) <=> Pump!Load(a)
  BY SameJobs DEF Tracker!Load, Pump!Load
<1>6. \A J : Tracker!Dropped(J) = Pump!Dropped(J)
  BY DEF Tracker!Dropped, Pump!Dropped
<1>7. \A h : Tracker!HandlerFails(h) <=> Pump!HandlerFails(h)
  BY <1>6, SameJobs DEF Tracker!HandlerFails, Pump!HandlerFails
<1>8. Tracker!Crash <=> Pump!Crash
  BY <1>6, SameValues DEF Tracker!Crash, Pump!Crash
<1>9. Tracker!Tick <=> Pump!Tick
  BY DEF Tracker!Tick, Pump!Tick
<1>. QED
  BY <1>2, <1>3, <1>4, <1>5, <1>7, <1>8, <1>9

LEMMA SameCron ==
  /\ Tracker!CronTick <=> Pump!CronTick
  /\ Tracker!CronScan <=> Pump!CronScan
  /\ Tracker!CronCheck <=> Pump!CronCheck
  /\ Tracker!CronFails <=> Pump!CronFails
<1>1. Tracker!CronTick <=> Pump!CronTick
  BY SameJobs DEF Tracker!CronTick, Pump!CronTick
<1>2. Tracker!CronScan <=> Pump!CronScan
  BY SameValues, SameJobs DEF Tracker!CronScan, Pump!CronScan
<1>3. \A d, t : Tracker!Silent(d, t) <=> Pump!Silent(d, t)
  BY SameValues DEF Tracker!Silent, Pump!Silent
<1>4. Tracker!CronCheck <=> Pump!CronCheck
  BY <1>3, SameJobs, SameClosing DEF Tracker!CronCheck, Pump!CronCheck
<1>5. Tracker!CronFails <=> Pump!CronFails
  BY SameValues, SameJobs DEF Tracker!CronFails, Pump!CronFails
<1>. QED
  BY <1>1, <1>2, <1>4, <1>5

\* So are the registers they keep.
LEMMA SameRegister == Tracker!Register = Pump!Register
  BY DEF Tracker!Register, Pump!Register, Tracker!Rows, Pump!Rows, Tracker!Status, Pump!Status

LEMMA SameSpec == Tracker!Abstract!Spec <=> Pump!Abstract!Spec
<1>1. Tracker!Abstract!Init <=> Pump!Abstract!Init
  BY SameRegister
     DEF Tracker!Abstract!Init, Pump!Abstract!Init, Tracker!Abstract!Blank, Pump!Abstract!Blank
<1>2. Tracker!Register' = Pump!Register'
  BY DEF Tracker!Register, Pump!Register, Tracker!Rows, Pump!Rows, Tracker!Status, Pump!Status
<1>3. [Tracker!Abstract!Next]_Tracker!Register <=> [Pump!Abstract!Next]_Pump!Register
  BY <1>2, SameRegister
     DEF Tracker!Abstract!Next, Pump!Abstract!Next, Tracker!Abstract!Close, Pump!Abstract!Close,
         Tracker!Abstract!Open, Pump!Abstract!Open, Tracker!Abstract!NumbersOf,
         Pump!Abstract!NumbersOf, Tracker!Abstract!Blank, Pump!Abstract!Blank
<1>. QED
  BY <1>1, <1>3, PTL DEF Tracker!Abstract!Spec, Pump!Abstract!Spec

-----------------------------------------------------------------------------
(* What a close knows. Until the first save of a session nothing has been   *)
(* written to its row or its marks, so the first save writes all it holds;  *)
(* a second one compared with the first, or with nothing.                   *)

Work == [next : {"aggregates", "overcurrent", "alerts", "save"}, held : Marks, loaded : Marks]

Closing(a) == job[a].pc \in {"load", "update"}
Writing(a, s) == job[a].pc = "update" /\ job[a].sid = s

\* The last reading of a device, and no reading or alert of the future.
ReadingsOK(d) ==
  /\ readings[d] \subseteq 1..now
  /\ \E m \in readings[d] \cup {0} : \A t \in readings[d] : t <= m
  /\ alerts[d] \subseteq Alert /\ IsFiniteSet(alerts[d])

\* The flags of one close agree with the overcurrents it counted.
Agree(m) == (m.detected <=> m.overcurrents > 0) /\ (m.detected => m.alert)

WorkOK(a) ==
  /\ ~Closing(a) => work[a] = NoWork
  /\ job[a].pc = "update" => work[a].next = "save"
  /\ Agree(work[a].held)
  /\ work[a].next # "save" => work[a].held.overcurrents = 0

FTypes ==
  /\ DOMAIN readings = Device /\ DOMAIN alerts = Device
  /\ marks \in [SessionId -> Marks]
  /\ work \in [Pump!Actor -> Work]
  /\ \A d \in Device : ReadingsOK(d)
  /\ \A a \in Pump!Actor : WorkOK(a)

\* What the closes so far have made of a session.
HistoryOK(s) ==
  /\ s \notin Pump!Rows => ledger[s].closes = 0
  /\ ledger[s].closes = 0 =>
       /\ marks[s] = NoMarks
       /\ s \in Pump!Rows => sessions[s].cols = Pump!OpenColumns
       /\ \A a \in Pump!Actor : Writing(a, s) =>
            job[a].loaded = Pump!OpenColumns /\ work[a].loaded = NoMarks
  /\ s \in Pump!Rows /\ ledger[s].closes # 0 => sessions[s].cols.status # "active"
  /\ ledger[s].closes = 1 =>
       \A a \in Pump!Actor : Writing(a, s) => work[a].loaded \in {NoMarks, marks[s]}
  /\ ledger[s].closes \in {1, 2} => Agree(marks[s])

FInv == FTypes /\ \A s \in SessionId : HistoryOK(s)

-----------------------------------------------------------------------------
(* The span of a close. Its end is not ahead of the clock, so what is       *)
(* logged after the queries is not earlier than the end.                    *)

\* How many of the readings R, or of the overcurrents of the alerts A, a span
\* holds, give or take those of its last instant.
Measured(n, R, start, end) ==
  /\ n <= Cardinality({t \in R : start <= t /\ t <= end})
  /\ n >= Cardinality({t \in R : start <= t /\ t < end})

Counted(n, A, start, end) ==
  /\ n <= Cardinality({x \in A : x.overcurrent /\ start <= x.at /\ x.at <= end})
  /\ n >= Cardinality({x \in A : x.overcurrent /\ start <= x.at /\ x.at < end})

CloseOK(a) ==
  LET row == sessions[job[a].sid]
      end == job[a].held.endedAt
  IN
  /\ end <= now
  /\ work[a].next # "aggregates" =>
       Measured(work[a].held.measured, readings[row.device], row.startedAt, end)
  /\ work[a].next \in {"alerts", "save"} =>
       Counted(work[a].held.overcurrents, alerts[row.device], row.startedAt, end)

SummedOK(s) ==
  LET row == sessions[s]
      end == row.cols.endedAt
  IN
  /\ end <= now
  /\ Measured(marks[s].measured, readings[row.device], row.startedAt, end)
  /\ Counted(marks[s].overcurrents, alerts[row.device], row.startedAt, end)

SpanInv ==
  /\ \A a \in Pump!Actor : job[a].at <= now
  /\ \A s \in Pump!Rows : sessions[s].startedAt <= now
  /\ \A a \in Pump!Actor : Closing(a) => CloseOK(a)
  /\ \A s \in Pump!Rows : ledger[s].closes = 1 => SummedOK(s)

-----------------------------------------------------------------------------
(* The shared steps.                                                        *)

\* The maximum of a set that has one.
LEMMA MaxOf ==
  ASSUME NEW S \in SUBSET Nat, NEW m \in S, \A t \in S : t <= m
  PROVE  Max(S) = m
<1>1. \A t \in S : (\A u \in S : t >= u) => t = m
  BY Z3
<1>2. \A u \in S : m >= u
  OBVIOUS
<1>. QED
  BY <1>1, <1>2, Zenon DEF Max

\* The last reading of a device.
LEMMA LastReading ==
  ASSUME Pump!TInv, NEW d \in Device, ReadingsOK(d)
  PROVE  /\ LastData[d] \in readings[d] \cup {0}
         /\ LastData[d] <= now
         /\ \A t \in readings[d] : t <= LastData[d]
<1>1. PICK m \in readings[d] \cup {0} : \A t \in readings[d] : t <= m
  BY DEF ReadingsOK
<1>2. now \in Nat
  BY TrackerAssumption DEF Pump!TInv, Pump!TypeOK, Pump!Time
<1>3. readings[d] \subseteq Nat /\ m \in Nat /\ m <= now
  BY <1>1, <1>2 DEF ReadingsOK
<1>4. Max(readings[d] \cup {0}) = m
  BY <1>1, <1>3, MaxOf
<1>. QED
  BY <1>1, <1>3, <1>4 DEF LastData

\* A stored reading is the last one.
LEMMA StoreIsPump ==
  ASSUME Pump!TInv, FTypes, NEW d \in Device, StoreReadings(d)
  PROVE  Pump!StoreReadings(d)
<1>1. now \in Nat /\ readings[d] \subseteq 1..now
  BY TrackerAssumption DEF Pump!TInv, Pump!TypeOK, Pump!Time, FTypes, ReadingsOK
<1>2. readings' = [readings EXCEPT ![d] = @ \cup {now}] /\ DOMAIN readings = Device
  BY DEF StoreReadings, FTypes
<1>3. readings'[d] = readings[d] \cup {now}
  BY <1>2
<1>4. Max(readings'[d] \cup {0}) = now
  <2>1. readings'[d] \cup {0} \in SUBSET Nat /\ now \in readings'[d] \cup {0}
    BY <1>1, <1>3
  <2>2. \A t \in readings'[d] \cup {0} : t <= now
    BY <1>1, <1>3
  <2>. QED
    BY <1>1, <2>1, <2>2, MaxOf
<1>5. \A e \in Device : e # d => Max(readings'[e] \cup {0}) = Max(readings[e] \cup {0})
  BY <1>2
<1>6. LastData' = [LastData EXCEPT ![d] = now]
  BY <1>4, <1>5 DEF LastData
<1>. QED
  BY <1>6 DEF Pump!StoreReadings, StoreReadings, tracker

\* Every step but the end of a close is one of the pump tracker, or none.
LEMMA PumpSteps ==
  ASSUME Pump!TInv, FTypes, [Next]_vars
  PROVE  [Pump!Next]_Pump!vars \/ \E a \in Pump!Actor : Update(a)
<1>1. Actor = Pump!Actor
  BY SameValues DEF Actor
<1>2. ASSUME UNCHANGED <<tracker, readings>> PROVE UNCHANGED Pump!vars
  <2>1. LastData' = LastData
    BY <1>2 DEF LastData
  <2>. QED
    BY <1>2, <2>1 DEF tracker, Pump!vars
<1>3. CASE UNCHANGED vars
  BY <1>2, <1>3 DEF vars
<1>4. ASSUME NEW d \in Device, StoreReadings(d) \/ LogAlert(d) PROVE [Pump!Next]_Pump!vars
  BY <1>2, <1>4, StoreIsPump DEF LogAlert, Pump!Next
<1>5. ASSUME NEW h \in Handler, NEW d \in Device,
             FertilizerReported(h, d) \/ LastWillReceived(h, d)
      PROVE  Pump!Next
  BY <1>5, SameStarts DEF FertilizerReported, LastWillReceived, Pump!Next, Pump!Environment
<1>6. ASSUME NEW h \in Handler, Handle(h) \/ HandlerFails(h) PROVE Pump!Next
  BY <1>6, SameStarts, SameEnds
     DEF Handle, StartedFind, StartedMax, StartedInsert, PublishSessionId, StoppedFind,
         DisconnectedFind, DisconnectedLast, HandlerFails, Pump!Next, Pump!Handle
<1>7. ASSUME NEW a \in Pump!Actor, Aggregates(a) \/ Overcurrent(a) \/ AnyAlert(a)
      PROVE  UNCHANGED Pump!vars
  BY <1>2, <1>7 DEF Aggregates, Overcurrent, AnyAlert
<1>8. ASSUME NEW a \in Pump!Actor, Load(a) PROVE Pump!Next
  BY <1>8, SameEnds DEF Load, Pump!Next, Pump!Handle, Pump!CronRun, Pump!Actor
<1>9. CASE Tick \/ CronTick \/ CronScan \/ CronCheck \/ CronFails \/ Crash
  BY <1>9, SameEnds, SameCron
     DEF Tick, CronTick, CronScan, CronCheck, CronFails, Crash, Pump!Next, Pump!CronRun
<1>. QED
  BY <1>1, <1>3, <1>4, <1>5, <1>6, <1>7, <1>8, <1>9 DEF Next, Close

\* What the end of a close does to the tables and the jobs.
LEMMA UpdateIsSave ==
  ASSUME Pump!TInv, NEW a \in Pump!Actor, Update(a)
  PROVE  /\ Pump!Saves(a)
         /\ \A b \in Pump!Actor : b # a => job'[b] = job[b]
         /\ \/ job'[a] = Pump!Idle
            \/ /\ a = Cron
               /\ job'[a] = [Pump!Idle EXCEPT !.pc = "check", !.at = job[a].at]
<1>1. Pump!Saves(a)
  BY DEF Update, Pump!Saves, Tracker!Merge, Pump!Merge
<1>2. job \in [Pump!Actor -> Pump!Job]
  BY DEF Pump!TInv, Pump!TypeOK
<1>3. PICK k : /\ job' = [job EXCEPT ![a] = k]
               /\ \/ k = Pump!Idle
                  \/ /\ a = Cron
                     /\ k = [Pump!Idle EXCEPT !.pc = "check", !.at = job[a].at]
  BY SameValues DEF Update, Tracker!AfterClose, Tracker!Become
<1>. QED
  BY <1>1, <1>2, <1>3

\* The end of a close leaves everything typed.
LEMMA UpdateKeepsTypes ==
  ASSUME Pump!TInv, NEW a \in Pump!Actor, Update(a)
  PROVE  Pump!TInv'
<1>1. /\ Pump!Rows' = Pump!Rows /\ sessions' \in [Pump!Rows -> Pump!Row]
      /\ ledger' \in Pump!Ledger
  BY UpdateIsSave, Pump!SaveType, TrackerAssumption
<1>2. /\ UNCHANGED <<now, told, queue, failures, readings>> /\ LastData' = LastData
      /\ job[a].pc = "update"
  BY DEF Update, LastData
<1> DEFINE k == job'[a]
<1>3. Pump!JobOK(a)
  BY DEF Pump!TInv
<1>4. k \in Pump!Job
  <2>1. Pump!Idle \in Pump!Job
    BY Pump!IdleType, TrackerAssumption
  <2>2. a = Cron => job[a].at \in Pump!Time
    BY <1>2, <1>3 DEF Pump!JobOK
  <2>3. a = Cron => [Pump!Idle EXCEPT !.pc = "check", !.at = job[a].at] \in Pump!Job
    BY <2>1, <2>2 DEF Pump!Job, Pump!CronSteps
  <2>. QED
    BY <2>1, <2>3, UpdateIsSave
<1>5. job' \in [Pump!Actor -> Pump!Job]
  <2>1. PICK v : job' = [job EXCEPT ![a] = v]
    BY DEF Update, Tracker!Become
  <2>. QED
    BY <1>4, <2>1 DEF Pump!TInv, Pump!TypeOK
<1>6. Pump!JobOK(a)'
  <2>1. CASE job'[a] = Pump!Idle
    BY <2>1 DEF Pump!JobOK, Pump!Idle, Pump!Saving
  <2>2. CASE a = Cron /\ job'[a] = [Pump!Idle EXCEPT !.pc = "check", !.at = job[a].at]
    BY <1>2, <1>3, <2>2 DEF Pump!JobOK, Pump!Idle, Pump!Saving, Pump!CronSteps
  <2>. QED
    BY <2>1, <2>2, UpdateIsSave
<1>7. ASSUME NEW b \in Pump!Actor, b # a PROVE Pump!JobOK(b)'
  <2>1. Pump!JobOK(b) /\ job'[b] = job[b]
    BY <1>7, UpdateIsSave DEF Pump!TInv
  <2>. QED
    BY <1>1, <2>1 DEF Pump!JobOK
<1>. QED
  BY <1>1, <1>2, <1>5, <1>6, <1>7 DEF Pump!TInv, Pump!TypeOK, Pump!Ledger

\* The end of a close keeps the register, and closes a session of it.
LEMMA UpdateKeepsRegister ==
  ASSUME Pump!TInv, NEW a \in Pump!Actor, Update(a)
  PROVE  /\ Pump!RegInv => Pump!RegInv'
         /\ [Pump!Abstract!Next]_Pump!Register
<1>1. \A h \in Handler : h \in Pump!Actor /\ h # Cron
  BY TrackerAssumption DEF Pump!Actor
<1>2. \A h \in Handler : job'[h].pc \in Pump!StartSteps => job'[h] = job[h]
  <2>1. Pump!Idle.pc \notin Pump!StartSteps
    BY DEF Pump!StartSteps, Pump!Idle
  <2>2. \A h \in Handler : h = a => job'[h] = Pump!Idle
    BY <1>1, UpdateIsSave
  <2>3. \A h \in Handler : h # a => job'[h] = job[h]
    BY <1>1, UpdateIsSave
  <2>. QED
    BY <2>1, <2>2, <2>3
<1>3. Pump!RegInv => Pump!RegInv'
  BY <1>2, UpdateIsSave, Pump!SaveReg, TrackerAssumption
<1>4. Pump!Register' = Pump!Register \/ \E s \in SessionId : Pump!Abstract!Close(s)
  BY UpdateIsSave, Pump!SaveRefines, TrackerAssumption
<1>. QED
  BY <1>3, <1>4 DEF Pump!Abstract!Next

\* Every step keeps the tracker typed and, with one start of a device at a
\* time, its register.
LEMMA TrackerTyped ==
  ASSUME Pump!TInv, FTypes, [Next]_vars PROVE Pump!TInv'
  BY PumpSteps, UpdateKeepsTypes, Pump!NextType, TrackerAssumption

LEMMA TrackerRegister ==
  ASSUME Pump!TInv, FTypes, Pump!RegInv, ~OverlappingStarts, [Next]_vars
  PROVE  Pump!RegInv' /\ [Pump!Abstract!Next]_Pump!Register
  BY PumpSteps, UpdateKeepsRegister, Pump!NextReg, Pump!NextRefines, TrackerAssumption

\* An actor that is not closing moves on, or begins a close that ends at the
\* time of its message, at the last reading or at the start of the session.
Ends(a) ==
  {job[a].at} \cup {LastData[d] : d \in Device} \cup {sessions[s].startedAt : s \in Pump!Rows}

GoodMove(a, k) ==
  /\ k.pc # "update"
  /\ k.at \in {job[a].at, now, 0}
  /\ k.pc = "load" => k.held.endedAt \in Ends(a)

MovesOn(a) ==
  /\ \A b \in Pump!Actor : b # a => job'[b] = job[b]
  /\ ~Closing(a)
  /\ GoodMove(a, job'[a])

LEMMA MovesOnTo ==
  ASSUME Pump!TInv, NEW a \in Pump!Actor, NEW k, Pump!Become(a, k), ~Closing(a), GoodMove(a, k)
  PROVE  MovesOn(a)
<1>1. job' = [job EXCEPT ![a] = k] /\ DOMAIN job = Pump!Actor
  BY DEF Pump!Become, Pump!TInv, Pump!TypeOK
<1>2. job'[a] = k /\ \A b \in Pump!Actor : b # a => job'[b] = job[b]
  BY <1>1
<1>. QED
  BY <1>2 DEF MovesOn

\* The jobs the actions give.
LEMMA GoodMoves ==
  ASSUME Pump!TInv, NEW a \in Pump!Actor
  PROVE  /\ GoodMove(a, Pump!Idle)
         /\ GoodMove(a, [Pump!Idle EXCEPT !.pc = "check", !.at = now])
         /\ \A step \in {"started_max", "scan"} : GoodMove(a, [job[a] EXCEPT !.pc = step])
         /\ \A step \in {"publish", "disconnected_last"} : \A s :
              GoodMove(a, [job[a] EXCEPT !.pc = step, !.sid = s])
         /\ \A n : GoodMove(a, [job[a] EXCEPT !.pc = "started_insert", !.number = n])
         /\ \A s, end, status, reason :
              end \in Ends(a) => GoodMove(a, Pump!BeginClose(a, s, end, status, reason))
<1>1. job[a] \in Pump!Job
  BY DEF Pump!TInv, Pump!TypeOK
<1>2. GoodMove(a, Pump!Idle) /\ GoodMove(a, [Pump!Idle EXCEPT !.pc = "check", !.at = now])
  BY DEF GoodMove, Pump!Idle, Pump!NoTime
<1>3. \A step \in {"started_max", "scan"} : GoodMove(a, [job[a] EXCEPT !.pc = step])
  BY <1>1 DEF GoodMove, Pump!Job
<1>4. \A step \in {"publish", "disconnected_last"} : \A s :
        GoodMove(a, [job[a] EXCEPT !.pc = step, !.sid = s])
  BY <1>1 DEF GoodMove, Pump!Job
<1>5. \A n : GoodMove(a, [job[a] EXCEPT !.pc = "started_insert", !.number = n])
  BY <1>1 DEF GoodMove, Pump!Job
<1>6. ASSUME NEW s, NEW end \in Ends(a), NEW status, NEW reason
      PROVE  GoodMove(a, Pump!BeginClose(a, s, end, status, reason))
  <2> DEFINE k == Pump!BeginClose(a, s, end, status, reason)
  <2>1. k.pc = "load" /\ k.at = job[a].at /\ k.held.endedAt = end
    BY <1>1 DEF Pump!Job, Pump!BeginClose, Pump!Closing
  <2>. QED
    BY <2>1 DEF GoodMove
<1>. QED
  BY <1>2, <1>3, <1>4, <1>5, <1>6

\* Handlers at work before they close.
LEMMA HandlerMovesOn ==
  ASSUME Pump!TInv, NEW h \in Handler,
         \/ Pump!StartedFind(h) \/ Pump!StartedMax(h) \/ Pump!StartedInsert(h)
         \/ Pump!PublishSessionId(h) \/ Pump!StoppedFind(h) \/ Pump!DisconnectedFind(h)
         \/ Pump!DisconnectedLast(h)
  PROVE  MovesOn(h)
<1>1. h \in Pump!Actor /\ Pump!JobOK(h)
  BY DEF Pump!Actor, Pump!TInv
<1>2. ~Closing(h)
  BY DEF Closing, Pump!StartedFind, Pump!StartedMax, Pump!StartedInsert, Pump!PublishSessionId,
         Pump!StoppedFind, Pump!DisconnectedFind, Pump!DisconnectedLast
<1> SUFFICES \E k : Pump!Become(h, k) /\ GoodMove(h, k)
  BY <1>1, <1>2, MovesOnTo
<1>3. CASE Pump!StartedFind(h)
  BY <1>1, <1>3, GoodMoves DEF Pump!StartedFind, Pump!Goto
<1>4. CASE Pump!StartedMax(h)
  BY <1>1, <1>4, GoodMoves DEF Pump!StartedMax
<1>5. CASE Pump!StartedInsert(h)
  BY <1>1, <1>5, GoodMoves DEF Pump!StartedInsert
<1>6. CASE Pump!PublishSessionId(h)
  BY <1>1, <1>6, GoodMoves DEF Pump!PublishSessionId, Pump!Finish
<1>7. CASE Pump!StoppedFind(h)
  <2>1. job[h].at \in Ends(h)
    BY DEF Ends
  <2>2. \/ Pump!Become(h, Pump!Idle)
        \/ \E s, status, reason :
             Pump!Become(h, Pump!BeginClose(h, s, job[h].at, status, reason))
    BY <1>7, Zenon DEF Pump!StoppedFind, Pump!Finish
  <2>. QED
    BY <1>1, <2>1, <2>2, GoodMoves
<1>8. CASE Pump!DisconnectedFind(h)
  BY <1>1, <1>8, GoodMoves DEF Pump!DisconnectedFind, Pump!Finish
<1>9. CASE Pump!DisconnectedLast(h)
  <2> DEFINE end == IF LastData[job[h].device] > sessions[job[h].sid].startedAt
                      THEN LastData[job[h].device] ELSE job[h].at
  <2>1. job[h].device \in Device
    BY <1>1, <1>9, TrackerAssumption DEF Pump!JobOK, Pump!DisconnectedLast
  <2>2. end \in Ends(h)
    BY <2>1 DEF Ends
  <2>3. Pump!Become(h, Pump!BeginClose(h, job[h].sid, end, "interrupted", "lwt"))
    BY <1>9 DEF Pump!DisconnectedLast
  <2>. QED
    BY <1>1, <2>2, <2>3, GoodMoves
<1>. QED
  BY <1>3, <1>4, <1>5, <1>6, <1>7, <1>8, <1>9

\* Messages that arrive, and the cron.
LEMMA ReceiveMovesOn ==
  ASSUME Pump!TInv, NEW h \in Handler, NEW d \in Device,
         \/ Pump!PumpOnReported(h, d) \/ Pump!PumpOffReported(h, d) \/ Pump!LastWillReceived(h, d)
  PROVE  MovesOn(h)
<1>1. PICK step \in {"started_find", "stopped_find", "disconnected_find"} : \E sid :
        Pump!Receive(h, d, step, sid)
  BY DEF Pump!PumpOnReported, Pump!PumpOffReported, Pump!LastWillReceived
<1>2. PICK sid : Pump!Receive(h, d, step, sid)
  BY <1>1
<1> DEFINE k == [Pump!Idle EXCEPT !.pc = step, !.device = d, !.at = now, !.sid = sid]
<1>3. k.pc = step /\ k.at = now
  BY DEF Pump!Idle
<1>4. GoodMove(h, k)
  BY <1>3 DEF GoodMove
<1>. QED
  BY <1>2, <1>4, MovesOnTo DEF Pump!Receive, Closing, Pump!Actor

LEMMA CronMovesOn ==
  ASSUME Pump!TInv, Pump!CronTick \/ Pump!CronScan \/ Pump!CronCheck
  PROVE  MovesOn(Cron) \/ UNCHANGED job
<1>1. Cron \in Pump!Actor /\ ~Closing(Cron)
  BY DEF Pump!Actor, Closing, Pump!CronTick, Pump!CronScan, Pump!CronCheck
<1> SUFFICES (\E k : Pump!Become(Cron, k) /\ GoodMove(Cron, k)) \/ UNCHANGED job
  BY <1>1, MovesOnTo
<1>2. CASE Pump!CronTick
  BY <1>1, <1>2, GoodMoves DEF Pump!CronTick, Pump!Goto
<1>3. CASE Pump!CronScan
  BY <1>1, <1>3, GoodMoves DEF Pump!CronScan
<1>4. CASE Pump!CronCheck
  <2>1. PICK s \in queue :
          LET start == sessions[s].startedAt
              last == LastData[sessions[s].device]
              end == IF last > start THEN last ELSE start
          IN
          \/ Pump!Become(Cron, Pump!BeginClose(Cron, s, end, "interrupted", "timeout"))
          \/ Pump!Become(Cron, Pump!Idle)
          \/ UNCHANGED job
    BY <1>4, Zenon DEF Pump!CronCheck, Pump!Finish
  <2>2. s \in Pump!Rows /\ sessions[s].device \in Device
    BY DEF Pump!TInv, Pump!TypeOK, Pump!Row
  <2>3. {sessions[s].startedAt, LastData[sessions[s].device]} \subseteq Ends(Cron)
    BY <2>2 DEF Ends
  <2>. QED
    BY <1>1, <2>1, <2>3, GoodMoves
<1>. QED
  BY <1>2, <1>3, <1>4

\* What failures and restarts leave.
LEMMA FailuresSettle ==
  ASSUME Pump!TInv
  PROVE  /\ \A h \in Handler : Pump!HandlerFails(h) =>
              /\ \A b \in Pump!Actor : b # h => job'[b] = job[b]
              /\ GoodMove(h, job'[h])
         /\ Pump!CronFails =>
              /\ \A b \in Pump!Actor : b # Cron => job'[b] = job[b]
              /\ GoodMove(Cron, job'[Cron])
         /\ Pump!Crash => \A a \in Pump!Actor : GoodMove(a, job'[a])
<1>1. job \in [Pump!Actor -> Pump!Job] /\ Handler \subseteq Pump!Actor /\ Cron \in Pump!Actor
  BY DEF Pump!TInv, Pump!TypeOK, Pump!Actor
<1>2. \A a \in Pump!Actor : GoodMove(a, Pump!Idle)
  BY GoodMoves
<1>3. GoodMove(Cron, [Pump!Idle EXCEPT !.pc = "check", !.at = job[Cron].at])
  BY DEF GoodMove, Pump!Idle
<1>4. ASSUME NEW h \in Handler, Pump!HandlerFails(h)
      PROVE  /\ \A b \in Pump!Actor : b # h => job'[b] = job[b]
             /\ GoodMove(h, job'[h])
  BY <1>1, <1>2, <1>4 DEF Pump!HandlerFails, Pump!Finish, Pump!Become
<1>5. ASSUME Pump!CronFails
      PROVE  /\ \A b \in Pump!Actor : b # Cron => job'[b] = job[b]
             /\ GoodMove(Cron, job'[Cron])
  <2>1. PICK k \in {Pump!Idle, [Pump!Idle EXCEPT !.pc = "check", !.at = job[Cron].at]} :
          job' = [job EXCEPT ![Cron] = k]
    BY <1>5 DEF Pump!CronFails, Pump!Become
  <2>. QED
    BY <1>1, <1>2, <1>3, <2>1
<1>6. Pump!Crash => \A a \in Pump!Actor : GoodMove(a, job'[a])
  BY <1>2 DEF Pump!Crash
<1>. QED
  BY <1>4, <1>5, <1>6

-----------------------------------------------------------------------------
(* Steps that compute and save nothing: every actor stays, or moves on with *)
(* nothing computed.                                                        *)

Quiet(a) ==
  \/ job'[a] = job[a] /\ work'[a] = work[a]
  \/ work'[a] = NoWork /\ GoodMove(a, job'[a])

QuietStep ==
  /\ work' \in [Pump!Actor -> Work]
  /\ marks' = marks
  /\ \A s \in SessionId : ledger'[s].closes = ledger[s].closes
  /\ \A a \in Pump!Actor : Quiet(a)

\* Sessions are added at most.
RowsKept ==
  /\ Pump!Rows \subseteq Pump!Rows'
  /\ \A s \in Pump!Rows : sessions'[s] = sessions[s]
  /\ \A s \in Pump!Rows' \ Pump!Rows :
       /\ sessions'[s].cols = Pump!OpenColumns
       /\ \E h \in Handler : sessions'[s].startedAt = job[h].at

LEMMA OneMovesQuiet ==
  ASSUME Pump!TInv, FTypes, NEW a \in Pump!Actor, MovesOn(a) \/ UNCHANGED job,
         UNCHANGED <<work, marks, ledger>>
  PROVE  QuietStep
<1>1. work' \in [Pump!Actor -> Work]
  BY DEF FTypes
<1>2. MovesOn(a) => work'[a] = NoWork
  BY DEF MovesOn, FTypes, WorkOK
<1>. QED
  BY <1>1, <1>2 DEF QuietStep, Quiet, MovesOn

LEMMA FailureQuiet ==
  ASSUME Pump!TInv, FTypes, CronFails \/ Crash \/ \E h \in Handler : HandlerFails(h)
  PROVE  QuietStep /\ sessions' = sessions
<1>1. /\ Handler \subseteq Pump!Actor /\ Cron \in Pump!Actor /\ Actor = Pump!Actor
      /\ work \in [Pump!Actor -> Work] /\ NoWork \in Work
  BY SameValues DEF Pump!Actor, Actor, FTypes, Work, NoWork, NoMarks, Marks
<1>2. \A J : \A s \in SessionId : Pump!Dropped(J)[s].closes = ledger[s].closes
  BY DEF Pump!Dropped, Pump!TInv, Pump!TypeOK
<1>3. marks' = marks /\ sessions' = sessions
  BY SameEnds, SameCron
     DEF CronFails, Crash, HandlerFails, Pump!CronFails, Pump!Crash, Pump!HandlerFails
<1>4. \A s \in SessionId : ledger'[s].closes = ledger[s].closes
  <2>1. CASE CronFails
    BY <2>1, SameCron DEF CronFails, Pump!CronFails
  <2>2. CASE Crash
    BY <1>2, <2>2, SameEnds DEF Crash, Pump!Crash
  <2>3. ASSUME NEW h \in Handler, HandlerFails(h)
        PROVE  \A s \in SessionId : ledger'[s].closes = ledger[s].closes
    <3>1. ledger' = Pump!Dropped({h})
      BY <2>3, SameEnds DEF HandlerFails, Pump!HandlerFails
    <3>. QED
      BY <1>2, <3>1
  <2>. QED
    BY <2>1, <2>2, <2>3
<1>5. ASSUME NEW h \in Handler, HandlerFails(h)
      PROVE  work' \in [Pump!Actor -> Work] /\ \A a \in Pump!Actor : Quiet(a)
  <2>1. work' = [work EXCEPT ![h] = NoWork] /\ Pump!HandlerFails(h)
    BY <1>5, SameEnds DEF HandlerFails
  <2>2. work' \in [Pump!Actor -> Work]
    BY <1>1, <2>1
  <2>3. work'[h] = NoWork /\ \A a \in Pump!Actor : a # h => work'[a] = work[a]
    BY <1>1, <2>1
  <2>. QED
    BY <2>1, <2>2, <2>3, FailuresSettle DEF Quiet
<1>6. ASSUME CronFails
      PROVE  work' \in [Pump!Actor -> Work] /\ \A a \in Pump!Actor : Quiet(a)
  <2>1. work' = [work EXCEPT ![Cron] = NoWork] /\ Pump!CronFails
    BY <1>6, SameCron DEF CronFails
  <2>2. work' \in [Pump!Actor -> Work]
    BY <1>1, <2>1
  <2>3. work'[Cron] = NoWork /\ \A a \in Pump!Actor : a # Cron => work'[a] = work[a]
    BY <1>1, <2>1
  <2>. QED
    BY <2>1, <2>2, <2>3, FailuresSettle DEF Quiet
<1>7. ASSUME Crash
      PROVE  work' \in [Pump!Actor -> Work] /\ \A a \in Pump!Actor : Quiet(a)
  <2>1. work' = [a \in Pump!Actor |-> NoWork] /\ Pump!Crash
    BY <1>1, <1>7, SameEnds DEF Crash
  <2>. QED
    BY <1>1, <2>1, FailuresSettle DEF Quiet
<1>. QED
  BY <1>3, <1>4, <1>5, <1>6, <1>7 DEF QuietStep

\* Steps of closes stand apart; every other step is quiet.
CloseStep == \E a \in Pump!Actor : Close(a)

LEMMA QuietSteps ==
  ASSUME Pump!TInv, FTypes, [Next]_vars, ~CloseStep
  PROVE  QuietStep /\ RowsKept
<1>1. Actor = Pump!Actor /\ Handler \subseteq Pump!Actor /\ Cron \in Pump!Actor
  BY SameValues DEF Actor, Pump!Actor
<1>2. sessions' = sessions => RowsKept
  BY DEF RowsKept, Pump!Rows
<1>3. CASE UNCHANGED vars \/ Tick \/ \E d \in Device : StoreReadings(d) \/ LogAlert(d)
  <2>1. UNCHANGED <<job, work, marks, ledger, sessions>>
    BY <1>3, SameEnds DEF vars, tracker, Tick, StoreReadings, LogAlert, Pump!Tick
  <2>. QED
    BY <1>1, <1>2, <2>1, OneMovesQuiet
<1>4. ASSUME NEW h \in Handler, NEW d \in Device,
             FertilizerReported(h, d) \/ LastWillReceived(h, d)
      PROVE  QuietStep /\ RowsKept
  <2>1. \/ Pump!PumpOnReported(h, d) \/ Pump!PumpOffReported(h, d)
        \/ Pump!LastWillReceived(h, d)
    BY <1>4, SameStarts DEF FertilizerReported, LastWillReceived
  <2>2. UNCHANGED <<work, marks, ledger, sessions>>
    BY <1>4, <2>1 DEF FertilizerReported, LastWillReceived, Pump!PumpOnReported,
                      Pump!PumpOffReported, Pump!LastWillReceived, Pump!Receive
  <2>. QED
    BY <1>1, <1>2, <2>1, <2>2, ReceiveMovesOn, OneMovesQuiet
<1>5. ASSUME NEW h \in Handler, Handle(h) PROVE QuietStep
  <2>1. /\ \/ Pump!StartedFind(h) \/ Pump!StartedMax(h) \/ Pump!StartedInsert(h)
           \/ Pump!PublishSessionId(h) \/ Pump!StoppedFind(h) \/ Pump!DisconnectedFind(h)
           \/ Pump!DisconnectedLast(h)
        /\ UNCHANGED <<work, marks>>
    BY <1>5, SameStarts, SameEnds
       DEF Handle, StartedFind, StartedMax, StartedInsert, PublishSessionId, StoppedFind,
           DisconnectedFind, DisconnectedLast
  <2>2. ledger' = ledger
    BY <2>1 DEF Pump!StartedFind, Pump!StartedMax, Pump!StartedInsert, Pump!PublishSessionId,
                Pump!StoppedFind, Pump!DisconnectedFind, Pump!DisconnectedLast
  <2>. QED
    BY <1>1, <2>1, <2>2, HandlerMovesOn, OneMovesQuiet
<1>6. ASSUME NEW h \in Handler, Handle(h) PROVE RowsKept
  <2>1. CASE StartedInsert(h)
    <3>1. Pump!StartedInsert(h)
      BY <2>1, SameStarts DEF StartedInsert
    <3>2. job[h].device \in Device
      BY <1>1, <3>1, TrackerAssumption DEF Pump!StartedInsert, Pump!TInv, Pump!JobOK
    <3>3. PICK s \in SessionId \ Pump!Rows :
             /\ Pump!Rows' = Pump!Rows \cup {s}
             /\ sessions'[s] = [device |-> job[h].device, number |-> job[h].number,
                                startedAt |-> job[h].at, cols |-> Pump!OpenColumns]
             /\ \A r \in Pump!Rows : sessions'[r] = sessions[r]
      BY <3>1, <3>2, Pump!InsertEffect, TrackerAssumption
    <3>. QED
      BY <3>3 DEF RowsKept
  <2>2. CASE ~StartedInsert(h)
    <3>1. sessions' = sessions
      BY <1>6, <2>2, SameStarts, SameEnds
         DEF Handle, StartedFind, StartedMax, PublishSessionId, StoppedFind, DisconnectedFind,
             DisconnectedLast, Pump!StartedFind, Pump!StartedMax, Pump!PublishSessionId,
             Pump!StoppedFind, Pump!DisconnectedFind, Pump!DisconnectedLast
    <3>. QED
      BY <1>2, <3>1
  <2>. QED
    BY <2>1, <2>2
<1>7. CASE CronTick \/ CronScan \/ CronCheck
  <2>1. (Pump!CronTick \/ Pump!CronScan \/ Pump!CronCheck) /\ UNCHANGED <<work, marks>>
    BY <1>7, SameCron DEF CronTick, CronScan, CronCheck
  <2>2. UNCHANGED <<ledger, sessions>>
    BY <2>1 DEF Pump!CronTick, Pump!CronScan, Pump!CronCheck
  <2>. QED
    BY <1>1, <1>2, <2>1, <2>2, CronMovesOn, OneMovesQuiet
<1>. QED
  BY <1>1, <1>2, <1>3, <1>4, <1>5, <1>6, <1>7, FailureQuiet DEF Next, CloseStep

\* What is computed stays typed over quiet steps.
LEMMA QuietTypes ==
  ASSUME Pump!TInv, FTypes, QuietStep
  PROVE  /\ marks' \in [SessionId -> Marks] /\ work' \in [Pump!Actor -> Work]
         /\ \A a \in Pump!Actor : WorkOK(a)'
<1>1. /\ Agree(NoMarks) /\ NoMarks.overcurrents = 0
      /\ NoWork.held = NoMarks /\ NoWork.next = "aggregates"
  BY DEF Agree, NoMarks, NoWork
<1>2. ASSUME NEW a \in Pump!Actor PROVE WorkOK(a)'
  <2>1. WorkOK(a) /\ Quiet(a)
    BY DEF FTypes, QuietStep
  <2>2. CASE job'[a] = job[a] /\ work'[a] = work[a]
    BY <2>1, <2>2 DEF WorkOK, Closing, Agree
  <2>3. CASE work'[a] = NoWork /\ GoodMove(a, job'[a])
    BY <1>1, <2>3 DEF WorkOK, Closing, GoodMove
  <2>. QED
    BY <2>1, <2>2, <2>3 DEF Quiet
<1>. QED
  BY <1>2 DEF QuietStep, FTypes

\* The clock moves by one at most.
LEMMA Clock ==
  ASSUME Pump!TInv, FTypes, [Next]_vars
  PROVE  now \in Nat /\ now' \in {now, now + 1}
<1>1. now \in Nat
  BY TrackerAssumption DEF Pump!TInv, Pump!TypeOK, Pump!Time
<1>2. ASSUME Pump!Next PROVE now' \in {now, now + 1}
  BY <1>2 DEF Pump!Next, Pump!Tick, Pump!StoreReadings, Pump!Environment, Pump!PumpOnReported,
       Pump!PumpOffReported, Pump!LastWillReceived, Pump!Receive, Pump!Handle,
       Pump!StartedFind, Pump!StartedMax, Pump!StartedInsert, Pump!PublishSessionId,
       Pump!StoppedFind, Pump!DisconnectedFind, Pump!DisconnectedLast, Pump!Load,
       Pump!Update, Pump!AddHours, Pump!HandlerFails, Pump!CronRun, Pump!CronTick,
       Pump!CronScan, Pump!CronCheck, Pump!CronFails, Pump!Crash
<1>3. (\E a \in Pump!Actor : Update(a)) \/ UNCHANGED Pump!vars => now' = now
  BY DEF Update, Pump!vars
<1>. QED
  BY <1>1, <1>2, <1>3, PumpSteps

\* Readings and alerts change by one that is logged now.
LEMMA LogSteps ==
  ASSUME [Next]_vars
  PROVE  \/ UNCHANGED <<readings, alerts>>
         \/ \E d \in Device : StoreReadings(d) \/ LogAlert(d)
<1>1. CASE UNCHANGED vars
  BY <1>1 DEF vars
<1>2. ASSUME NEW h \in Handler, NEW d \in Device,
             FertilizerReported(h, d) \/ LastWillReceived(h, d)
      PROVE  UNCHANGED <<readings, alerts>>
  BY <1>2 DEF FertilizerReported, LastWillReceived
<1>3. ASSUME NEW h \in Handler, Handle(h) \/ HandlerFails(h)
      PROVE  UNCHANGED <<readings, alerts>>
  BY <1>3 DEF Handle, StartedFind, StartedMax, StartedInsert, PublishSessionId, StoppedFind,
              DisconnectedFind, DisconnectedLast, HandlerFails
<1>4. ASSUME NEW a \in Actor, Close(a) PROVE UNCHANGED <<readings, alerts>>
  BY <1>4 DEF Close, Aggregates, Overcurrent, AnyAlert, Load, Update
<1>5. CASE Tick \/ CronTick \/ CronScan \/ CronCheck \/ CronFails \/ Crash
  BY <1>5 DEF Tick, CronTick, CronScan, CronCheck, CronFails, Crash
<1>. QED
  BY <1>1, <1>2, <1>3, <1>4, <1>5 DEF Next

LEMMA LogTypes ==
  ASSUME Pump!TInv, FTypes, [Next]_vars
  PROVE  /\ DOMAIN readings' = Device /\ DOMAIN alerts' = Device
         /\ \A d \in Device : ReadingsOK(d)'
<1>1. now \in Nat /\ now \in Time /\ now' \in Nat /\ 1..now \subseteq 1..now' /\ now >= 1
  <2>1. now \in Nat /\ now' \in {now, now + 1}
    BY Clock
  <2>2. now \in Time /\ now >= 1
    BY SameValues, TrackerAssumption DEF Time, Pump!Time, Pump!TInv, Pump!TypeOK
  <2>. QED
    BY <2>1, <2>2
<1>2. /\ DOMAIN readings = Device /\ DOMAIN alerts = Device /\ \A d \in Device : ReadingsOK(d)
  BY DEF FTypes
<1>3. CASE UNCHANGED <<readings, alerts>>
  BY <1>1, <1>2, <1>3 DEF ReadingsOK
<1>4. ASSUME NEW e \in Device, StoreReadings(e)
      PROVE  DOMAIN readings' = Device /\ DOMAIN alerts' = Device /\ \A d \in Device : ReadingsOK(d)'
  <2>1. readings' = [readings EXCEPT ![e] = @ \cup {now}] /\ alerts' = alerts /\ now' = now
    BY <1>4 DEF StoreReadings, tracker
  <2>2. readings'[e] = readings[e] \cup {now} /\ \A d \in Device : d # e => readings'[d] = readings[d]
    BY <1>2, <2>1
  <2>3. ReadingsOK(e)'
    <3>1. readings[e] \subseteq 1..now
      BY <1>2 DEF ReadingsOK
    <3>2. \A t \in readings'[e] : t <= now
      BY <1>1, <2>2, <3>1
    <3>. QED
      BY <1>1, <1>2, <2>1, <2>2, <3>1, <3>2 DEF ReadingsOK
  <2>4. ASSUME NEW d \in Device, d # e PROVE ReadingsOK(d)'
    BY <1>2, <2>1, <2>2, <2>4 DEF ReadingsOK
  <2>. QED
    BY <1>2, <2>1, <2>3, <2>4
<1>5. ASSUME NEW e \in Device, LogAlert(e)
      PROVE  DOMAIN readings' = Device /\ DOMAIN alerts' = Device /\ \A d \in Device : ReadingsOK(d)'
  <2>1. PICK critical \in BOOLEAN :
          alerts' = [alerts EXCEPT ![e] = @ \cup {[at |-> now, overcurrent |-> critical]}]
    BY <1>5 DEF LogAlert
  <2> DEFINE x == [at |-> now, overcurrent |-> critical]
  <2>2. readings' = readings /\ now' = now
    BY <1>5 DEF LogAlert, tracker
  <2>3. alerts'[e] = alerts[e] \cup {x} /\ \A d \in Device : d # e => alerts'[d] = alerts[d]
    BY <1>2, <2>1
  <2>4. x \in Alert
    BY <1>1 DEF Alert
  <2>5. IsFiniteSet(alerts[e] \cup {x}) /\ alerts[e] \cup {x} \subseteq Alert
    BY <1>2, <2>4, FS_AddElement DEF ReadingsOK
  <2>6. ReadingsOK(e)'
    BY <1>2, <2>2, <2>3, <2>5 DEF ReadingsOK
  <2>7. ASSUME NEW d \in Device, d # e PROVE ReadingsOK(d)'
    BY <1>2, <2>2, <2>3, <2>7 DEF ReadingsOK
  <2>. QED
    BY <1>2, <2>1, <2>2, <2>6, <2>7
<1>. QED
  BY <1>3, <1>4, <1>5, LogSteps

-----------------------------------------------------------------------------
(* The steps of a close.                                                    *)

\* A close works on a row of a device.
LEMMA CloseRow ==
  ASSUME Pump!TInv, NEW a \in Pump!Actor, Closing(a)
  PROVE  /\ job[a].sid \in Pump!Rows /\ job[a].sid \in SessionId
         /\ DeviceOf(a) \in Device
         /\ sessions[job[a].sid].startedAt \in Nat /\ job[a].held.endedAt \in Nat
<1>1. Pump!JobOK(a) /\ job[a].pc \in Pump!Saving
  BY DEF Pump!TInv, Closing, Pump!Saving
<1>2. /\ job[a].sid \in Pump!Rows /\ Pump!Rows \subseteq SessionId
      /\ job[a].held.endedAt \in Pump!Time
  BY <1>1 DEF Pump!JobOK, Pump!TInv, Pump!TypeOK
<1>3. sessions[job[a].sid] \in Pump!Row
  BY <1>2 DEF Pump!TInv, Pump!TypeOK
<1>. QED
  BY <1>2, <1>3, TrackerAssumption DEF DeviceOf, Pump!Row, Pump!Time

\* The sets a close counts are finite.
LEMMA FiniteCounts ==
  ASSUME Pump!TInv, FTypes, NEW d \in Device
  PROVE  /\ \A S \in SUBSET readings[d] : IsFiniteSet(S) /\ Cardinality(S) \in Nat
         /\ \A S \in SUBSET alerts[d] :
              /\ IsFiniteSet(S) /\ Cardinality(S) \in Nat
              /\ Cardinality(S) = 0 <=> S = {}
<1>1. now \in Nat
  BY TrackerAssumption DEF Pump!TInv, Pump!TypeOK, Pump!Time
<1>2. IsFiniteSet(1..now)
  BY <1>1, FS_Interval
<1>3. readings[d] \subseteq 1..now /\ IsFiniteSet(alerts[d])
  BY DEF FTypes, ReadingsOK
<1>4. IsFiniteSet(readings[d])
  BY <1>2, <1>3, FS_Subset
<1>5. \A S \in SUBSET readings[d] : IsFiniteSet(S)
  BY <1>4, FS_Subset
<1>6. \A S \in SUBSET alerts[d] : IsFiniteSet(S)
  BY <1>3, FS_Subset
<1>. QED
  BY <1>5, <1>6, FS_CardinalityType, FS_EmptySet

Computes(a) == Aggregates(a) \/ Overcurrent(a) \/ AnyAlert(a)

\* A query of a close changes what its actor has computed.
LEMMA ComputeEffect ==
  ASSUME Pump!TInv, FTypes, NEW a \in Pump!Actor, Computes(a)
  PROVE  /\ UNCHANGED <<tracker, readings, alerts, marks>>
         /\ job[a].pc = "load"
         /\ work' \in [Pump!Actor -> Work]
         /\ \A b \in Pump!Actor : b # a => work'[b] = work[b]
         /\ WorkOK(a)'
<1>1. UNCHANGED <<tracker, readings, alerts, marks>> /\ job[a].pc = "load" /\ Closing(a)
  BY DEF Computes, Aggregates, Overcurrent, AnyAlert, Computing, Closing
<1>2. work \in [Pump!Actor -> Work] /\ WorkOK(a)
  BY DEF FTypes
<1>3. work[a].held \in Marks /\ work[a].loaded \in Marks
  BY <1>2 DEF Work
<1>4. DeviceOf(a) \in Device
  BY <1>1, CloseRow
<1> SUFFICES \E next \in {"aggregates", "overcurrent", "alerts", "save"}, held \in Marks :
               /\ work' = [work EXCEPT ![a] = [work[a] EXCEPT !.next = next, !.held = held]]
               /\ Agree(held)
               /\ next # "save" => held.overcurrents = 0
  <2>1. PICK next \in {"aggregates", "overcurrent", "alerts", "save"}, held \in Marks :
               /\ work' = [work EXCEPT ![a] = [work[a] EXCEPT !.next = next, !.held = held]]
               /\ Agree(held)
               /\ next # "save" => held.overcurrents = 0
    OBVIOUS
  <2> DEFINE w == [work[a] EXCEPT !.next = next, !.held = held]
  <2>2. w \in Work /\ w.next = next /\ w.held = held
    BY <1>2 DEF Work
  <2>3. work'[a] = w /\ work' \in [Pump!Actor -> Work]
    BY <1>2, <2>1, <2>2
  <2>4. job' = job /\ Closing(a)'
    BY <1>1 DEF tracker, Closing
  <2>5. WorkOK(a)'
    BY <1>1, <2>1, <2>2, <2>3, <2>4 DEF WorkOK, Agree
  <2>. QED
    BY <1>1, <1>2, <2>1, <2>3, <2>5
<1>5. CASE Aggregates(a)
  <2> DEFINE n == Cardinality({t \in readings[DeviceOf(a)] : Within(t, a)})
             held == [work[a].held EXCEPT !.measured = n]
  <2>1. n \in Nat
    BY <1>4, FiniteCounts
  <2>2. /\ held \in Marks /\ held.overcurrents = work[a].held.overcurrents
        /\ held.detected = work[a].held.detected /\ held.alert = work[a].held.alert
    BY <1>3, <2>1 DEF Marks
  <2>3. work' = [work EXCEPT ![a] = [work[a] EXCEPT !.next = "overcurrent", !.held = held]]
    BY <1>2, <1>5 DEF Aggregates, Work
  <2>4. work[a].held.overcurrents = 0 /\ Agree(held)
    BY <1>2, <1>5, <2>2 DEF WorkOK, Agree, Aggregates, Computing
  <2>. QED
    BY <2>2, <2>3, <2>4
<1>6. CASE Overcurrent(a)
  <2> DEFINE found == {x \in AlertsWithin(a) : x.overcurrent}
             held == [work[a].held EXCEPT !.overcurrents = Cardinality(found), !.detected = TRUE, !.alert = TRUE]
  <2>1. Cardinality(found) \in Nat /\ (Cardinality(found) = 0 <=> found = {})
    BY <1>4, FiniteCounts DEF AlertsWithin
  <2>2. CASE found = {}
    <3>1. work' = [work EXCEPT ![a] = [work[a] EXCEPT !.next = "alerts", !.held = work[a].held]]
      <4>1. [work[a] EXCEPT !.next = "alerts"]
              = [work[a] EXCEPT !.next = "alerts", !.held = work[a].held]
        BY <1>2 DEF Work
      <4>. QED
        BY <1>6, <2>2, <4>1 DEF Overcurrent
    <3>2. work[a].held.overcurrents = 0 /\ Agree(work[a].held)
      BY <1>2, <1>6 DEF WorkOK, Overcurrent, Computing
    <3>. QED
      BY <1>3, <3>1, <3>2
  <2>3. CASE found # {}
    <3>1. /\ held \in Marks /\ held.overcurrents = Cardinality(found)
          /\ held.detected = TRUE /\ held.alert = TRUE
      BY <1>3, <2>1 DEF Marks
    <3>2. work' = [work EXCEPT ![a] = [work[a] EXCEPT !.next = "save", !.held = held]]
      BY <1>2, <1>6, <2>3 DEF Overcurrent, Work, Marks
    <3>3. Agree(held)
      BY <2>1, <2>3, <3>1 DEF Agree
    <3>. QED
      BY <3>1, <3>2, <3>3
  <2>. QED
    BY <2>2, <2>3
<1>7. CASE AnyAlert(a)
  <2> DEFINE held == [work[a].held EXCEPT !.alert = AlertsWithin(a) # {}]
  <2>1. work[a].next = "alerts"
    BY <1>7 DEF AnyAlert, Computing
  <2>2. /\ held \in Marks /\ held.overcurrents = work[a].held.overcurrents
        /\ held.detected = work[a].held.detected
    BY <1>3 DEF Marks
  <2>3. work[a].held.overcurrents = 0 /\ ~work[a].held.detected
    BY <1>2, <2>1 DEF WorkOK, Agree
  <2>4. Agree(held)
    BY <2>2, <2>3 DEF Agree
  <2>5. work' = [work EXCEPT ![a] = [work[a] EXCEPT !.next = "save", !.held = held]]
    BY <1>2, <1>7 DEF AnyAlert, Work
  <2>. QED
    BY <2>2, <2>4, <2>5
<1>. QED
  BY <1>5, <1>6, <1>7 DEF Computes

\* The save begins with what the row is compared with.
LEMMA LoadEffect ==
  ASSUME Pump!TInv, FTypes, NEW a \in Pump!Actor, Load(a)
  PROVE  /\ UNCHANGED <<sessions, ledger, now, readings, alerts, marks>>
         /\ job[a].pc = "load" /\ work[a].next = "save"
         /\ job'[a] = [job[a] EXCEPT !.pc = "update", !.loaded = sessions[job[a].sid].cols]
         /\ work' \in [Pump!Actor -> Work]
         /\ work'[a] = [work[a] EXCEPT !.loaded = marks[job[a].sid]]
         /\ \A b \in Pump!Actor : b # a => work'[b] = work[b] /\ job'[b] = job[b]
         /\ WorkOK(a)'
<1>1. Pump!Load(a) /\ Computing(a, "save")
  BY SameEnds DEF Load
<1>2. /\ UNCHANGED <<sessions, ledger, now, readings, alerts, marks>>
      /\ job[a].pc = "load" /\ work[a].next = "save" /\ Closing(a)
  BY <1>1 DEF Load, Pump!Load, Computing, Closing
<1>3. job \in [Pump!Actor -> Pump!Job] /\ work \in [Pump!Actor -> Work] /\ WorkOK(a)
  BY DEF Pump!TInv, Pump!TypeOK, FTypes
<1> DEFINE j == [job[a] EXCEPT !.pc = "update", !.loaded = sessions[job[a].sid].cols]
           w == [work[a] EXCEPT !.loaded = marks[job[a].sid]]
<1>4. job' = [job EXCEPT ![a] = j] /\ work' = [work EXCEPT ![a] = w]
  BY <1>1 DEF Pump!Load, Pump!Become, Load
<1>5. marks[job[a].sid] \in Marks
  BY <1>2, CloseRow DEF FTypes
<1>6. w \in Work /\ w.next = "save" /\ w.held = work[a].held
  BY <1>2, <1>3, <1>5 DEF Work
<1>7. j.pc = "update"
  BY <1>3 DEF Pump!Job
<1>8. work' \in [Pump!Actor -> Work]
  BY <1>3, <1>4, <1>6
<1>9. job'[a] = j /\ work'[a] = w /\ \A b \in Pump!Actor : b # a => work'[b] = work[b] /\ job'[b] = job[b]
  BY <1>3, <1>4
<1>10. WorkOK(a)'
  BY <1>3, <1>6, <1>7, <1>9 DEF WorkOK, Closing, Agree
<1>. QED
  BY <1>2, <1>8, <1>9, <1>10

LEMMA LoadKeeps ==
  ASSUME Pump!TInv, FTypes, NEW a \in Pump!Actor, Load(a)
  PROVE  /\ job'[a].sid = job[a].sid /\ job'[a].at = job[a].at /\ job'[a].held = job[a].held
         /\ work'[a].next = work[a].next /\ work'[a].held = work[a].held
<1>1. /\ job'[a] = [job[a] EXCEPT !.pc = "update", !.loaded = sessions[job[a].sid].cols]
      /\ work'[a] = [work[a] EXCEPT !.loaded = marks[job[a].sid]]
  BY LoadEffect
<1>2. job[a] \in Pump!Job /\ work[a] \in Work
  BY DEF Pump!TInv, Pump!TypeOK, FTypes
<1>. QED
  BY <1>1, <1>2 DEF Pump!Job, Work

\* What a save leaves of the marks.
LEMMA MergedMarks ==
  ASSUME NEW row \in Marks, NEW held \in Marks, NEW loaded \in Marks
  PROVE  LET m == MergeMarks(row, held, loaded) IN
         /\ m \in Marks
         /\ m.measured = IF held.measured # loaded.measured THEN held.measured ELSE row.measured
         /\ m.overcurrents = IF held.overcurrents # loaded.overcurrents
                               THEN held.overcurrents ELSE row.overcurrents
         /\ m.detected = IF held.detected # loaded.detected THEN held.detected ELSE row.detected
         /\ m.alert = IF held.alert # loaded.alert THEN held.alert ELSE row.alert
         /\ loaded = row => m = held
<1> DEFINE m == MergeMarks(row, held, loaded)
           Fields == {"measured", "overcurrents", "detected", "alert"}
<1>1. /\ DOMAIN row = Fields
      /\ row.measured \in Nat /\ row.overcurrents \in Nat
      /\ row.detected \in BOOLEAN /\ row.alert \in BOOLEAN
      /\ held.measured \in Nat /\ held.overcurrents \in Nat
      /\ held.detected \in BOOLEAN /\ held.alert \in BOOLEAN
  BY DEF Marks
<1>2. m = [c \in Fields |-> IF held[c] # loaded[c] THEN held[c] ELSE row[c]]
  BY <1>1 DEF MergeMarks
<1>3. /\ m["measured"] = IF held.measured # loaded.measured THEN held.measured ELSE row.measured
      /\ m["overcurrents"] = IF held.overcurrents # loaded.overcurrents
                               THEN held.overcurrents ELSE row.overcurrents
      /\ m["detected"] = IF held.detected # loaded.detected THEN held.detected ELSE row.detected
      /\ m["alert"] = IF held.alert # loaded.alert THEN held.alert ELSE row.alert
  BY <1>2
<1>4. m = [measured |-> m["measured"], overcurrents |-> m["overcurrents"],
           detected |-> m["detected"], alert |-> m["alert"]]
  BY <1>2
<1>5. m \in Marks
  BY <1>1, <1>3, <1>4 DEF Marks
<1>6. ASSUME loaded = row PROVE m = held
  <2>1. \A c \in Fields : m[c] = held[c]
    BY <1>2, <1>6
  <2>2. held = [measured |-> held["measured"], overcurrents |-> held["overcurrents"],
                detected |-> held["detected"], alert |-> held["alert"]]
    BY DEF Marks
  <2>. QED
    BY <1>4, <2>1, <2>2
<1>. QED
  BY <1>3, <1>5, <1>6

\* The flags of two closes agree also when the row has columns of both.
LEMMA MergeAgrees ==
  ASSUME NEW row \in Marks, NEW held \in Marks, NEW loaded \in {NoMarks, row},
         Agree(row), Agree(held)
  PROVE  Agree(MergeMarks(row, held, loaded))
<1>1. NoMarks \in Marks
  BY DEF NoMarks, Marks
<1>2. CASE loaded = row
  BY <1>2, MergedMarks
<1>3. CASE loaded = NoMarks
  <2>1. /\ NoMarks.overcurrents = 0 /\ NoMarks.detected = FALSE /\ NoMarks.alert = FALSE
        /\ row.detected \in BOOLEAN /\ held.detected \in BOOLEAN
        /\ row.alert \in BOOLEAN /\ held.alert \in BOOLEAN
        /\ row.overcurrents \in Nat /\ held.overcurrents \in Nat
    BY DEF NoMarks, Marks
  <2> DEFINE m == MergeMarks(row, held, loaded)
  <2>2. /\ m.overcurrents = IF held.overcurrents # 0 THEN held.overcurrents ELSE row.overcurrents
        /\ m.detected = IF held.detected # FALSE THEN held.detected ELSE row.detected
        /\ m.alert = IF held.alert # FALSE THEN held.alert ELSE row.alert
    <3>1. loaded \in Marks
      BY <1>1, <1>3
    <3>2. /\ m.overcurrents = IF held.overcurrents # loaded.overcurrents
                                THEN held.overcurrents ELSE row.overcurrents
          /\ m.detected = IF held.detected # loaded.detected THEN held.detected ELSE row.detected
          /\ m.alert = IF held.alert # loaded.alert THEN held.alert ELSE row.alert
      BY <3>1, MergedMarks, Zenon
    <3>3. loaded.overcurrents = 0 /\ loaded.detected = FALSE /\ loaded.alert = FALSE
      BY <1>3, <2>1, Zenon
    <3>. QED
      BY <3>2, <3>3, Zenon
  <2>5. (m.detected <=> held.detected \/ row.detected) /\ (m.alert <=> held.alert \/ row.alert)
    BY <2>1, <2>2, Zenon
  <2>3. m.overcurrents > 0 <=> held.overcurrents > 0 \/ row.overcurrents > 0
    BY <2>1, <2>2
  <2> HIDE DEF m
  <2>4. Agree(m)
    BY <2>3, <2>5 DEF Agree
  <2>. QED
    BY <2>4 DEF m
<1>. QED
  BY <1>2, <1>3

\* The end of a close.
LEMMA UpdateEffect ==
  ASSUME Pump!TInv, FTypes, NEW a \in Pump!Actor, Update(a)
  PROVE  LET s == job[a].sid IN
         /\ UNCHANGED <<now, readings, alerts>>
         /\ job[a].pc = "update" /\ ~Closing(a)' /\ s \in SessionId
         /\ marks' \in [SessionId -> Marks]
         /\ marks'[s] = MergeMarks(marks[s], work[a].held, work[a].loaded)
         /\ \A r \in SessionId : r # s => marks'[r] = marks[r] /\ ledger'[r] = ledger[r]
         /\ ledger'[s].closes = ledger[s].closes + 1
         /\ work' \in [Pump!Actor -> Work]
         /\ \A b \in Pump!Actor : b # a => work'[b] = work[b]
         /\ \A b \in Pump!Actor : WorkOK(b)'
<1> DEFINE s == job[a].sid
<1>1. UNCHANGED <<now, readings, alerts>> /\ job[a].pc = "update" /\ Closing(a)
  BY DEF Update, Closing
<1>2. s \in SessionId
  BY <1>1, CloseRow
<1>3. /\ marks \in [SessionId -> Marks] /\ work \in [Pump!Actor -> Work]
      /\ ledger \in [SessionId -> [closes : Nat, credited : Nat, lost : BOOLEAN]]
  BY DEF FTypes, Pump!TInv, Pump!TypeOK
<1>4. marks' = [marks EXCEPT ![s] = MergeMarks(marks[s], work[a].held, work[a].loaded)]
  BY DEF Update
<1>5. MergeMarks(marks[s], work[a].held, work[a].loaded) \in Marks
  BY <1>2, <1>3, MergedMarks DEF Work
<1>6. /\ marks' \in [SessionId -> Marks]
      /\ marks'[s] = MergeMarks(marks[s], work[a].held, work[a].loaded)
      /\ \A r \in SessionId : r # s => marks'[r] = marks[r]
  BY <1>2, <1>3, <1>4, <1>5
<1>7. ledger' = [ledger EXCEPT ![s].closes = @ + 1]
  BY DEF Update
<1>8. ledger'[s].closes = ledger[s].closes + 1 /\ \A r \in SessionId : r # s => ledger'[r] = ledger[r]
  BY <1>2, <1>3, <1>7
<1>9. work' = [work EXCEPT ![a] = NoWork]
  BY DEF Update
<1>10. NoWork \in Work /\ NoWork.next = "aggregates" /\ NoWork.held = NoMarks
  BY DEF NoWork, Work, NoMarks, Marks
<1>11. /\ work' \in [Pump!Actor -> Work] /\ work'[a] = NoWork
       /\ \A b \in Pump!Actor : b # a => work'[b] = work[b]
  BY <1>3, <1>9, <1>10
<1>12. ~Closing(a)'
  <2>1. \A t : [Pump!Idle EXCEPT !.pc = "check", !.at = t].pc = "check" /\ Pump!Idle.pc = "idle"
    BY DEF Pump!Idle
  <2>. QED
    BY <2>1, UpdateIsSave DEF Closing
<1>13. WorkOK(a)'
  <2>1. Agree(NoMarks) /\ NoMarks.overcurrents = 0
    BY DEF Agree, NoMarks
  <2>. QED
    BY <1>10, <1>11, <1>12, <2>1 DEF WorkOK, Closing
<1>14. ASSUME NEW b \in Pump!Actor, b # a PROVE WorkOK(b)'
  <2>1. WorkOK(b) /\ work'[b] = work[b] /\ job'[b] = job[b]
    BY <1>11, <1>14, UpdateIsSave DEF FTypes
  <2>. QED
    BY <2>1 DEF WorkOK, Closing, Agree
<1>. QED
  BY <1>1, <1>2, <1>6, <1>8, <1>11, <1>12, <1>13, <1>14

\* Every step keeps what is computed typed.
LEMMA NextFTypes ==
  ASSUME Pump!TInv, FTypes, [Next]_vars PROVE FTypes'
<1> SUFFICES /\ marks' \in [SessionId -> Marks] /\ work' \in [Pump!Actor -> Work]
             /\ \A a \in Pump!Actor : WorkOK(a)'
  BY LogTypes DEF FTypes, Pump!Actor
<1>1. CASE ~CloseStep
  BY <1>1, QuietSteps, QuietTypes
<1>2. ASSUME NEW a \in Pump!Actor, Computes(a) \/ Load(a)
      PROVE  /\ marks' \in [SessionId -> Marks] /\ work' \in [Pump!Actor -> Work]
             /\ \A b \in Pump!Actor : WorkOK(b)'
  <2>1. /\ marks' = marks /\ work' \in [Pump!Actor -> Work] /\ WorkOK(a)'
        /\ \A b \in Pump!Actor : b # a => work'[b] = work[b] /\ job'[b] = job[b]
    BY <1>2, ComputeEffect, LoadEffect DEF tracker
  <2>2. ASSUME NEW b \in Pump!Actor, b # a PROVE WorkOK(b)'
    BY <2>1, <2>2 DEF FTypes, WorkOK, Closing, Agree
  <2>. QED
    BY <2>1, <2>2 DEF FTypes
<1>3. ASSUME NEW a \in Pump!Actor, Update(a)
      PROVE  /\ marks' \in [SessionId -> Marks] /\ work' \in [Pump!Actor -> Work]
             /\ \A b \in Pump!Actor : WorkOK(b)'
  BY <1>3, UpdateEffect
<1>. QED
  BY <1>1, <1>2, <1>3 DEF CloseStep, Close, Computes

-----------------------------------------------------------------------------
(* What the closes have made of a session.                                  *)

LEMMA QuietHistory ==
  ASSUME QuietStep, RowsKept, NEW s \in SessionId, HistoryOK(s)
  PROVE  HistoryOK(s)'
<1>1. ledger'[s].closes = ledger[s].closes /\ marks'[s] = marks[s]
  BY DEF QuietStep
<1>2. \A a \in Pump!Actor : Writing(a, s)' =>
        Writing(a, s) /\ job'[a] = job[a] /\ work'[a] = work[a]
  BY DEF QuietStep, Quiet, Writing, GoodMove
<1>3. s \in Pump!Rows => s \in Pump!Rows' /\ sessions'[s] = sessions[s]
  BY DEF RowsKept
<1>4. s \in Pump!Rows' \ Pump!Rows => sessions'[s].cols = Pump!OpenColumns
  BY DEF RowsKept
<1>. QED
  BY <1>1, <1>2, <1>3, <1>4 DEF HistoryOK, Agree

\* A close that has not saved compares with the row as it is, or was.
LEMMA SameHistory ==
  ASSUME Pump!TInv, UNCHANGED <<sessions, ledger, marks>>,
         NEW s \in SessionId, HistoryOK(s),
         \A a \in Pump!Actor : Writing(a, s)' =>
           \/ Writing(a, s) /\ job'[a] = job[a] /\ work'[a] = work[a]
           \/ /\ s \in Pump!Rows
              /\ job'[a].loaded = sessions[s].cols /\ work'[a].loaded = marks[s]
  PROVE  HistoryOK(s)'
<1>1. Pump!Rows' = Pump!Rows
  BY DEF Pump!Rows
<1>. QED
  BY <1>1 DEF HistoryOK, Agree

\* The first save of a session writes all it holds.
LEMMA FirstSave ==
  ASSUME Pump!TInv, FInv, NEW a \in Pump!Actor, Update(a), ledger[job[a].sid].closes = 0
  PROVE  /\ marks'[job[a].sid] = work[a].held
         /\ sessions'[job[a].sid].cols = job[a].held
<1> DEFINE s == job[a].sid
<1>1. FTypes /\ s \in SessionId /\ HistoryOK(s) /\ Writing(a, s)
  BY UpdateEffect DEF FInv, Writing
<1>2. s \in Pump!Rows /\ sessions'[s].cols = Pump!Merge(sessions[s].cols, job[a].held, job[a].loaded)
  BY <1>1, UpdateIsSave, Pump!SaveEffect, TrackerAssumption
<1>3. /\ marks[s] = NoMarks /\ work[a].loaded = NoMarks
      /\ sessions[s].cols = Pump!OpenColumns /\ job[a].loaded = Pump!OpenColumns
  BY <1>1, <1>2 DEF HistoryOK
<1>4. marks[s] \in Marks /\ work[a].held \in Marks
  BY <1>1 DEF FTypes, Work
<1>5. marks'[s] = work[a].held
  BY <1>1, <1>3, <1>4, MergedMarks, UpdateEffect
<1>6. job[a].held \in Pump!Columns /\ Pump!JobOK(a) /\ job[a].pc \in Pump!Saving
  BY <1>1 DEF Writing, Pump!TInv, Pump!TypeOK, Pump!Job, Pump!Saving
<1>7. Pump!Merge(Pump!OpenColumns, job[a].held, Pump!OpenColumns) = job[a].held
  BY <1>6, Pump!FirstMerge, TrackerAssumption DEF Pump!JobOK
<1>. QED
  BY <1>2, <1>3, <1>5, <1>7

\* The first save closes the session, the second agrees with the first.
LEMMA UpdateHistory ==
  ASSUME Pump!TInv, FInv, NEW a \in Pump!Actor, Update(a), NEW s \in SessionId
  PROVE  HistoryOK(s)'
<1>1. FTypes /\ HistoryOK(s)
  BY DEF FInv
<1> DEFINE j == job[a]
<1>2. job[a].pc = "update" /\ ~Closing(a)' /\ Pump!Saves(a)
  BY <1>1, UpdateEffect, UpdateIsSave
<1>3. \A b \in Pump!Actor : b # a => job'[b] = job[b] /\ work'[b] = work[b]
  BY <1>1, UpdateIsSave, UpdateEffect
<1>4. \A b \in Pump!Actor : Writing(b, s)' => Writing(b, s) /\ job'[b] = job[b] /\ work'[b] = work[b]
  BY <1>2, <1>3 DEF Writing, Closing
<1>5. /\ Pump!Rows' = Pump!Rows /\ j.sid \in Pump!Rows
      /\ s \in Pump!Rows => (Pump!Status(s)' = "active" => Pump!Status(s) = "active")
      /\ s \in Pump!Rows /\ s # j.sid => sessions'[s] = sessions[s]
      /\ sessions'[j.sid].cols = Pump!Merge(sessions[j.sid].cols, j.held, j.loaded)
  BY <1>2, Pump!SaveEffect, TrackerAssumption
<1>6. CASE s # j.sid
  <2>1. ledger'[s] = ledger[s] /\ marks'[s] = marks[s]
    BY <1>1, <1>6, UpdateEffect
  <2>. QED
    BY <1>1, <1>4, <1>5, <1>6, <2>1 DEF HistoryOK, Agree
<1>7. CASE s = j.sid
  <2>1. /\ s \in Pump!Rows /\ Writing(a, s)
        /\ ledger'[s].closes = ledger[s].closes + 1 /\ ledger[s].closes \in Nat
        /\ marks'[s] = MergeMarks(marks[s], work[a].held, work[a].loaded)
    BY <1>1, <1>2, <1>5, <1>7, UpdateEffect DEF Writing, Pump!TInv, Pump!TypeOK
  <2>2. /\ marks[s] \in Marks /\ work[a].held \in Marks /\ work[a].loaded \in Marks
        /\ Agree(work[a].held)
    BY <1>1 DEF FTypes, Work, WorkOK
  <2>3. sessions'[s].cols.status # "active"
    <3>1. CASE ledger[s].closes = 0
      <4>1. Pump!JobOK(a) /\ j.pc \in Pump!Saving
        BY <1>2 DEF Pump!TInv, Pump!Saving
      <4>. QED
        BY <1>7, <3>1, <4>1, FirstSave DEF Pump!JobOK, Pump!Closed
    <3>2. CASE ledger[s].closes # 0
      BY <1>1, <1>5, <2>1, <3>2 DEF HistoryOK, Pump!Status
    <3>. QED
      BY <3>1, <3>2
  <2>4. CASE ledger[s].closes = 0
    <3>2. marks'[s] = work[a].held
      BY <1>7, <2>4, FirstSave
    <3>3. Agree(marks'[s])
      BY <2>2, <3>2
    <3>4. \A b \in Pump!Actor : Writing(b, s)' => work'[b].loaded = NoMarks
      BY <1>1, <1>4, <2>4 DEF HistoryOK
    <3>. QED
      BY <1>5, <2>1, <2>3, <2>4, <3>3, <3>4 DEF HistoryOK, Agree
  <2>5. CASE ledger[s].closes = 1
    <3>1. Agree(marks[s]) /\ work[a].loaded \in {NoMarks, marks[s]}
      BY <1>1, <2>1, <2>5 DEF HistoryOK
    <3>2. Agree(marks'[s])
      BY <2>1, <2>2, <3>1, MergeAgrees
    <3>. QED
      BY <1>5, <2>1, <2>3, <2>5, <3>2 DEF HistoryOK, Agree
  <2>6. CASE ledger[s].closes > 1
    BY <1>5, <2>1, <2>3, <2>6 DEF HistoryOK
  <2>. QED
    BY <2>1, <2>4, <2>5, <2>6
<1>. QED
  BY <1>6, <1>7

LEMMA NextFInv ==
  ASSUME Pump!TInv, FInv, [Next]_vars PROVE FInv'
<1>1. FTypes /\ FTypes' /\ \A s \in SessionId : HistoryOK(s)
  BY NextFTypes DEF FInv
<1> SUFFICES ASSUME NEW s \in SessionId PROVE HistoryOK(s)'
  BY <1>1 DEF FInv
<1>2. CASE ~CloseStep
  BY <1>1, <1>2, QuietSteps, QuietHistory
<1>3. ASSUME NEW a \in Pump!Actor, Computes(a) PROVE HistoryOK(s)'
  <2>1. UNCHANGED <<sessions, ledger, marks, job>> /\ job[a].pc = "load"
    BY <1>1, <1>3, ComputeEffect DEF tracker
  <2>2. \A b \in Pump!Actor : b # a => work'[b] = work[b]
    BY <1>1, <1>3, ComputeEffect
  <2>3. \A b \in Pump!Actor : Writing(b, s)' => Writing(b, s) /\ job'[b] = job[b] /\ work'[b] = work[b]
    BY <2>1, <2>2 DEF Writing
  <2>. QED
    BY <1>1, <2>1, <2>3, SameHistory
<1>4. ASSUME NEW a \in Pump!Actor, Load(a) PROVE HistoryOK(s)'
  <2>1. /\ UNCHANGED <<sessions, ledger, marks>>
        /\ job'[a] = [job[a] EXCEPT !.pc = "update", !.loaded = sessions[job[a].sid].cols]
        /\ work'[a] = [work[a] EXCEPT !.loaded = marks[job[a].sid]]
        /\ \A b \in Pump!Actor : b # a => work'[b] = work[b] /\ job'[b] = job[b]
    BY <1>1, <1>4, LoadEffect
  <2>2. job[a].sid \in Pump!Rows
    BY <1>1, <1>4, LoadEffect, CloseRow DEF Closing
  <2>3. /\ job'[a].sid = job[a].sid /\ job'[a].loaded = sessions[job[a].sid].cols
        /\ work'[a].loaded = marks[job[a].sid]
    BY <1>1, <2>1 DEF FTypes, Work, Pump!TInv, Pump!TypeOK, Pump!Job
  <2>4. Writing(a, s)' => /\ s \in Pump!Rows /\ job'[a].loaded = sessions[s].cols
                          /\ work'[a].loaded = marks[s]
    BY <2>2, <2>3 DEF Writing
  <2>5. \A b \in Pump!Actor : b # a /\ Writing(b, s)' =>
          Writing(b, s) /\ job'[b] = job[b] /\ work'[b] = work[b]
    BY <2>1 DEF Writing
  <2>. QED
    BY <1>1, <2>1, <2>4, <2>5, SameHistory
<1>5. ASSUME NEW a \in Pump!Actor, Update(a) PROVE HistoryOK(s)'
  BY <1>5, UpdateHistory
<1>. QED
  BY <1>2, <1>3, <1>4, <1>5 DEF CloseStep, Close, Computes

-----------------------------------------------------------------------------
(* The theorems.                                                            *)

LEMMA InitTracker == Init => Pump!Init
<1> SUFFICES ASSUME Init PROVE Pump!Init
  OBVIOUS
<1>1. Max({0}) = 0
  BY MaxOf
<1>2. LastData = [d \in Device |-> Pump!NoTime]
  BY <1>1 DEF Init, LastData, Pump!NoTime
<1>3. sessions = [s \in {} |-> Pump!OpenColumns]
  BY DEF Init
<1>. QED
  BY <1>2, <1>3, SameValues DEF Init, Pump!Init, Actor

LEMMA InitFInv == Init => FInv
<1> SUFFICES ASSUME Init PROVE FInv
  OBVIOUS
<1>1. Actor = Pump!Actor /\ \A a \in Pump!Actor : job[a] = Pump!Idle /\ work[a] = NoWork
  BY SameValues DEF Init, Actor
<1>2. NoMarks \in Marks /\ NoWork \in Work /\ Agree(NoMarks)
  BY DEF NoMarks, Marks, NoWork, Work, Agree
<1>3. marks \in [SessionId -> Marks] /\ work \in [Pump!Actor -> Work]
  BY <1>1, <1>2 DEF Init
<1>4. \A d \in Device : ReadingsOK(d)
  BY FS_EmptySet DEF Init, ReadingsOK
<1>5. \A a \in Pump!Actor : WorkOK(a) /\ \A s \in SessionId : ~Writing(a, s)
  <2>1. NoWork.held = NoMarks /\ NoMarks.overcurrents = 0
    BY DEF NoWork, NoMarks
  <2>. QED
    BY <1>1, <1>2, <2>1 DEF WorkOK, Closing, Writing, Pump!Idle
<1>6. ASSUME NEW s \in SessionId PROVE HistoryOK(s)
  <2>1. s \notin Pump!Rows /\ ledger[s].closes = 0 /\ marks[s] = NoMarks
    BY DEF Init, Pump!Rows
  <2>. QED
    BY <1>5, <2>1 DEF HistoryOK
<1>. QED
  BY <1>3, <1>4, <1>5, <1>6 DEF FInv, FTypes, Init

LEMMA InitBoth == Init => Pump!TInv /\ FInv
  BY InitTracker, InitFInv, Pump!InitType, TrackerAssumption

LEMMA NextBoth == Pump!TInv /\ FInv /\ [Next]_vars => (Pump!TInv /\ FInv)'
  BY TrackerTyped, NextFInv DEF FInv

LEMMA TrackerInvariant == Spec => [](Pump!TInv /\ FInv)
  BY InitBoth, NextBoth, PTL DEF Spec

\* The variables of the tracker keep their types, and a close has an entity
\* of its own.
THEOREM FertilizerTypes == Spec => []TypeOK
<1>1. ASSUME Pump!TInv, FInv PROVE TypeOK
  <2>1. FTypes /\ \A s \in SessionId : HistoryOK(s)
    BY <1>1 DEF FInv
  <2>2. Tracker!TypeOK
    BY <1>1, SameTypes DEF Pump!TInv
  <2>3. ASSUME NEW a \in Actor
        PROVE  /\ work[a].next \in {"aggregates", "overcurrent", "alerts", "save"}
               /\ work[a].held \in Marks /\ work[a].loaded \in Marks
               /\ job[a].pc # "load" /\ job[a].pc # "update" => work[a] = NoWork
    BY <2>1, SameValues DEF FTypes, Work, WorkOK, Closing, Actor
  <2>4. ASSUME NEW s \in Rows, Tracker!Status(s) = "active" PROVE marks[s] = NoMarks
    <3>1. s \in Pump!Rows /\ s \in SessionId /\ sessions[s].cols.status = "active"
      BY <1>1, <2>4, SameValues DEF Rows, Tracker!Status, Pump!TInv, Pump!TypeOK
    <3>. QED
      BY <2>1, <3>1 DEF HistoryOK
  <2>. QED
    BY <2>1, <2>2, <2>3, <2>4 DEF TypeOK, FTypes, ReadingsOK
<1>. QED
  BY <1>1, TrackerInvariant, PTL

\* The flags of a session agree with its overcurrents, also after two closes.
THEOREM FlagsFollowCounts == Spec => []FlagsAgree
<1>1. ASSUME Pump!TInv, FInv PROVE FlagsAgree
  <2> SUFFICES ASSUME NEW s \in Rows, ledger[s].closes <= 2
               PROVE  /\ marks[s].detected = (marks[s].overcurrents > 0)
                      /\ marks[s].detected => marks[s].alert
    BY DEF FlagsAgree
  <2>1. s \in SessionId /\ ledger[s].closes \in Nat
    BY <1>1, SameValues DEF Rows, Pump!TInv, Pump!TypeOK
  <2>2. HistoryOK(s) /\ marks[s] \in Marks
    BY <1>1, <2>1 DEF FInv, FTypes
  <2>3. Agree(NoMarks)
    BY DEF Agree, NoMarks
  <2>4. Agree(marks[s])
    BY <2>1, <2>2, <2>3 DEF HistoryOK
  <2>5. marks[s].detected \in BOOLEAN /\ (marks[s].overcurrents > 0) \in BOOLEAN
    BY <2>2 DEF Marks
  <2>. QED
    BY <2>4, <2>5, Zenon DEF Agree
<1>. QED
  BY <1>1, TrackerInvariant, PTL

\* With its longer closes the tracker keeps the promise of SessionRegister.
THEOREM FertilizerRegister == ASSUME ~OverlappingStarts PROVE Spec => KeepsRegister
<1>1. Init => Pump!TInv /\ FInv /\ Pump!RegInv /\ Pump!Abstract!Init
  BY InitBoth, InitTracker, Pump!InitReg, Pump!InitRefines, TrackerAssumption
<1>2. Pump!TInv /\ FInv /\ Pump!RegInv /\ [Next]_vars => Pump!RegInv' /\ [Pump!Abstract!Next]_Pump!Register
  BY TrackerRegister DEF FInv
<1>3. Spec => Pump!Abstract!Spec
  BY <1>1, <1>2, NextBoth, PTL DEF Spec, Pump!Abstract!Spec
<1>. QED
  BY <1>3, SameSpec DEF KeepsRegister

-----------------------------------------------------------------------------
(* The spans.                                                               *)

\* Sets of readings and alerts have a size, larger sets a larger one.
LEMMA Sizes ==
  ASSUME NEW S, IsFiniteSet(S), NEW T \in SUBSET S
  PROVE  Cardinality(S) \in Nat /\ Cardinality(T) \in Nat /\ Cardinality(T) <= Cardinality(S)
  BY FS_Subset, FS_CardinalityType

\* What is logged at the end of a span or later leaves its counts.
LEMMA LoggedLater ==
  ASSUME NEW m \in Nat, NEW start \in Nat, NEW end \in Nat, end <= m, NEW n \in Nat
  PROVE  /\ \A R \in SUBSET Nat : IsFiniteSet(R) /\ Measured(n, R, start, end) =>
              Measured(n, R \cup {m}, start, end)
         /\ \A A \in SUBSET [at : Nat, overcurrent : BOOLEAN] : \A c \in BOOLEAN :
              IsFiniteSet(A) /\ Counted(n, A, start, end) =>
                Counted(n, A \cup {[at |-> m, overcurrent |-> c]}, start, end)
<1>1. ASSUME NEW R \in SUBSET Nat, IsFiniteSet(R), Measured(n, R, start, end)
      PROVE  Measured(n, R \cup {m}, start, end)
  <2> DEFINE Upto(S) == {t \in S : start <= t /\ t <= end}
             Before(S) == {t \in S : start <= t /\ t < end}
  <2>1. IsFiniteSet(R \cup {m})
    BY <1>1, FS_AddElement
  <2>2. IsFiniteSet(Upto(R \cup {m})) /\ IsFiniteSet(Upto(R))
    BY <1>1, <2>1, FS_Subset
  <2>3. Upto(R) \in SUBSET Upto(R \cup {m})
    OBVIOUS
  <2>4. Before(R \cup {m}) = Before(R)
    OBVIOUS
  <2>5. /\ Cardinality(Upto(R)) \in Nat /\ Cardinality(Upto(R \cup {m})) \in Nat
        /\ Cardinality(Upto(R)) <= Cardinality(Upto(R \cup {m}))
    BY <2>2, <2>3, Sizes
  <2>6. n <= Cardinality(Upto(R)) /\ n >= Cardinality(Before(R))
    BY <1>1 DEF Measured
  <2>7. n <= Cardinality(Upto(R \cup {m})) /\ n >= Cardinality(Before(R \cup {m}))
    <3> HIDE DEF Upto, Before
    <3>. QED
      BY <2>4, <2>5, <2>6
  <2>. QED
    BY <2>7 DEF Measured
<1>2. ASSUME NEW A \in SUBSET [at : Nat, overcurrent : BOOLEAN], NEW c \in BOOLEAN,
             IsFiniteSet(A), Counted(n, A, start, end)
      PROVE  Counted(n, A \cup {[at |-> m, overcurrent |-> c]}, start, end)
  <2> DEFINE B == A \cup {[at |-> m, overcurrent |-> c]}
             Upto(S) == {x \in S : x.overcurrent /\ start <= x.at /\ x.at <= end}
             Before(S) == {x \in S : x.overcurrent /\ start <= x.at /\ x.at < end}
  <2>1. IsFiniteSet(B)
    BY <1>2, FS_AddElement
  <2>2. IsFiniteSet(Upto(B)) /\ IsFiniteSet(Upto(A))
    BY <1>2, <2>1, FS_Subset
  <2>3. Upto(A) \in SUBSET Upto(B)
    OBVIOUS
  <2>4. Before(B) = Before(A)
    OBVIOUS
  <2>5. /\ Cardinality(Upto(A)) \in Nat /\ Cardinality(Upto(B)) \in Nat
        /\ Cardinality(Upto(A)) <= Cardinality(Upto(B))
    BY <2>2, <2>3, Sizes
  <2>6. n <= Cardinality(Upto(A)) /\ n >= Cardinality(Before(A))
    BY <1>2 DEF Counted
  <2>7. n <= Cardinality(Upto(B)) /\ n >= Cardinality(Before(B))
    <3> HIDE DEF Upto, Before
    <3>. QED
      BY <2>4, <2>5, <2>6
  <2>. QED
    BY <2>7 DEF Counted
<1>. QED
  BY <1>1, <1>2

\* A step keeps the counts of a span that is not ahead of the clock.
LEMMA SpanStays ==
  ASSUME Pump!TInv, FTypes, [Next]_vars, NEW d \in Device,
         NEW start \in Nat, NEW end \in Nat, end <= now, NEW n \in Nat
  PROVE  /\ end <= now'
         /\ Measured(n, readings[d], start, end) => Measured(n, readings'[d], start, end)
         /\ Counted(n, alerts[d], start, end) => Counted(n, alerts'[d], start, end)
<1>1. now \in Nat /\ now' \in {now, now + 1}
  BY Clock
<1>2. DOMAIN readings = Device /\ DOMAIN alerts = Device
  BY DEF FTypes
<1>3. readings'[d] = readings[d] \/ readings'[d] = readings[d] \cup {now}
  BY <1>2, LogSteps DEF StoreReadings, LogAlert
<1>4. \/ alerts'[d] = alerts[d]
      \/ \E c \in BOOLEAN : alerts'[d] = alerts[d] \cup {[at |-> now, overcurrent |-> c]}
  <2>1. CASE alerts' = alerts
    BY <2>1
  <2>2. ASSUME NEW e \in Device, LogAlert(e)
        PROVE  \/ alerts'[d] = alerts[d]
               \/ \E c \in BOOLEAN : alerts'[d] = alerts[d] \cup {[at |-> now, overcurrent |-> c]}
    <3>1. PICK c \in BOOLEAN :
            alerts' = [alerts EXCEPT ![e] = @ \cup {[at |-> now, overcurrent |-> c]}]
      BY <2>2 DEF LogAlert
    <3>. QED
      BY <1>2, <3>1
  <2>. QED
    BY <2>1, <2>2, LogSteps DEF StoreReadings
<1>5. readings[d] \in SUBSET Nat /\ IsFiniteSet(readings[d])
  <2>1. readings[d] \subseteq 1..now
    BY DEF FTypes, ReadingsOK
  <2>. QED
    BY <2>1, FiniteCounts
<1>6. alerts[d] \in SUBSET [at : Nat, overcurrent : BOOLEAN] /\ IsFiniteSet(alerts[d])
  <2>1. Alert \subseteq [at : Nat, overcurrent : BOOLEAN]
    BY SameValues, TrackerAssumption DEF Alert, Time, Pump!Time
  <2>. QED
    BY <2>1 DEF FTypes, ReadingsOK
<1>7. ASSUME Measured(n, readings[d], start, end)
      PROVE  Measured(n, readings'[d], start, end)
  <2>1. Measured(n, readings[d] \cup {now}, start, end)
    BY <1>1, <1>5, <1>7, LoggedLater
  <2>. QED
    BY <1>3, <1>7, <2>1, Zenon
<1>8. ASSUME Counted(n, alerts[d], start, end)
      PROVE  Counted(n, alerts'[d], start, end)
  <2>1. \A c \in BOOLEAN : Counted(n, alerts[d] \cup {[at |-> now, overcurrent |-> c]}, start, end)
    BY <1>1, <1>6, <1>8, LoggedLater
  <2>. QED
    BY <1>4, <1>8, <2>1, Zenon
<1>. QED
  BY <1>1, <1>7, <1>8

\* Rows keep their device and their start, and a row with one close its end.
LEMMA RowsStay ==
  ASSUME Pump!TInv, FTypes, [Next]_vars, NEW s \in Pump!Rows
  PROVE  /\ s \in Pump!Rows'
         /\ sessions'[s].device = sessions[s].device
         /\ sessions'[s].startedAt = sessions[s].startedAt
<1>1. CASE ~CloseStep
  BY <1>1, QuietSteps DEF RowsKept
<1>2. ASSUME NEW a \in Pump!Actor, Computes(a) \/ Load(a)
      PROVE  /\ s \in Pump!Rows'
             /\ sessions'[s].device = sessions[s].device
             /\ sessions'[s].startedAt = sessions[s].startedAt
  <2>1. sessions' = sessions
    BY <1>2, ComputeEffect, LoadEffect DEF tracker
  <2>. QED
    BY <2>1 DEF Pump!Rows
<1>3. ASSUME NEW a \in Pump!Actor, Update(a)
      PROVE  /\ s \in Pump!Rows'
             /\ sessions'[s].device = sessions[s].device
             /\ sessions'[s].startedAt = sessions[s].startedAt
  BY <1>3, UpdateIsSave, Pump!SaveEffect, TrackerAssumption
<1>. QED
  BY <1>1, <1>2, <1>3 DEF CloseStep, Close, Computes

\* A close that another actor's step does not touch keeps its counts.
LEMMA CloseStays ==
  ASSUME Pump!TInv, FTypes, [Next]_vars, NEW a \in Pump!Actor, Closing(a), CloseOK(a),
         job'[a].sid = job[a].sid, job'[a].held = job[a].held,
         work'[a].next = work[a].next, work'[a].held = work[a].held
  PROVE  CloseOK(a)'
<1> DEFINE s == job[a].sid
<1>1. /\ s \in Pump!Rows /\ sessions[s].device \in Device
      /\ sessions[s].startedAt \in Nat /\ job[a].held.endedAt \in Nat
  BY CloseRow DEF DeviceOf
<1>2. /\ sessions'[s].device = sessions[s].device
      /\ sessions'[s].startedAt = sessions[s].startedAt
  BY <1>1, RowsStay
<1>3. work[a].held.measured \in Nat /\ work[a].held.overcurrents \in Nat
  BY DEF FTypes, Work, Marks
<1>4. PICK d \in Device, start \in Nat, end \in Nat, n \in Nat, m \in Nat :
        /\ d = sessions[s].device /\ start = sessions[s].startedAt /\ end = job[a].held.endedAt
        /\ n = work[a].held.measured /\ m = work[a].held.overcurrents
  BY <1>1, <1>3
<1>5. /\ end <= now
      /\ work[a].next # "aggregates" => Measured(n, readings[d], start, end)
      /\ work[a].next \in {"alerts", "save"} => Counted(m, alerts[d], start, end)
  BY <1>4 DEF CloseOK
<1>6. /\ end <= now'
      /\ work[a].next # "aggregates" => Measured(n, readings'[d], start, end)
      /\ work[a].next \in {"alerts", "save"} => Counted(m, alerts'[d], start, end)
  BY <1>5, SpanStays
<1>. QED
  BY <1>2, <1>4, <1>6 DEF CloseOK, Measured, Counted

\* So does a session that is not saved.
LEMMA SummedStays ==
  ASSUME Pump!TInv, FTypes, [Next]_vars, NEW s \in Pump!Rows, SummedOK(s),
         sessions[s].cols.endedAt \in Nat,
         sessions'[s].cols = sessions[s].cols, marks'[s] = marks[s]
  PROVE  SummedOK(s)'
<1>1. s \in SessionId /\ sessions[s].device \in Device /\ sessions[s].startedAt \in Nat
  BY TrackerAssumption DEF Pump!TInv, Pump!TypeOK, Pump!Row, Pump!Time
<1>2. /\ sessions'[s].device = sessions[s].device
      /\ sessions'[s].startedAt = sessions[s].startedAt
  BY RowsStay
<1>3. marks[s].measured \in Nat /\ marks[s].overcurrents \in Nat
  BY <1>1 DEF FTypes, Marks
<1>4. PICK d \in Device, start \in Nat, end \in Nat, n \in Nat, m \in Nat :
        /\ d = sessions[s].device /\ start = sessions[s].startedAt
        /\ end = sessions[s].cols.endedAt
        /\ n = marks[s].measured /\ m = marks[s].overcurrents
  BY <1>1, <1>3
<1>5. end <= now /\ Measured(n, readings[d], start, end) /\ Counted(m, alerts[d], start, end)
  BY <1>4 DEF SummedOK
<1>6. end <= now' /\ Measured(n, readings'[d], start, end) /\ Counted(m, alerts'[d], start, end)
  BY <1>5, SpanStays
<1>. QED
  BY <1>2, <1>4, <1>6 DEF SummedOK, Measured, Counted

\* A close that begins ends now or earlier.
LEMMA QuietClose ==
  ASSUME Pump!TInv, FTypes, SpanInv, [Next]_vars, QuietStep, NEW a \in Pump!Actor, Closing(a)'
  PROVE  CloseOK(a)'
<1>1. CASE job'[a] = job[a] /\ work'[a] = work[a]
  <2>1. Closing(a) /\ CloseOK(a)
    BY <1>1 DEF Closing, SpanInv
  <2>. QED
    BY <1>1, <2>1, CloseStays
<1>2. CASE work'[a] = NoWork /\ GoodMove(a, job'[a])
  <2>1. now \in Nat /\ now' \in Nat /\ now <= now'
    BY Clock
  <2>2. job'[a].held.endedAt \in Ends(a)
    BY <1>2 DEF Closing, GoodMove
  <2>3. \A d \in Device : LastData[d] \in Nat /\ LastData[d] <= now
    <3>1. \A d \in Device : ReadingsOK(d) /\ readings[d] \subseteq 1..now
      BY DEF FTypes, ReadingsOK
    <3>. QED
      BY <2>1, <3>1, LastReading
  <2>4. job[a].at \in Nat /\ \A s \in Pump!Rows : sessions[s].startedAt \in Nat
    BY TrackerAssumption DEF Pump!TInv, Pump!TypeOK, Pump!Job, Pump!Row, Pump!Time, Pump!NoTime
  <2>5. job'[a].held.endedAt \in Nat /\ job'[a].held.endedAt <= now
    BY <2>2, <2>3, <2>4 DEF Ends, SpanInv
  <2>6. work'[a].next = "aggregates"
    BY <1>2 DEF NoWork
  <2>. QED
    BY <2>1, <2>5, <2>6 DEF CloseOK
<1>. QED
  BY <1>1, <1>2 DEF QuietStep, Quiet

\* What the queries of a close count.
LEMMA ComputeSpan ==
  ASSUME Pump!TInv, FTypes, SpanInv, [Next]_vars, NEW a \in Pump!Actor, Computes(a)
  PROVE  CloseOK(a)'
<1> DEFINE s == job[a].sid
           d == DeviceOf(a)
           start == sessions[s].startedAt
           end == job[a].held.endedAt
<1>1. /\ UNCHANGED <<now, sessions, job, readings, alerts>>
      /\ job[a].pc = "load" /\ Closing(a) /\ WorkOK(a) /\ CloseOK(a)
  BY ComputeEffect DEF Closing, tracker, SpanInv, FTypes
<1>2. d \in Device /\ start \in Nat /\ end \in Nat /\ d = sessions[s].device
  BY <1>1, CloseRow DEF DeviceOf
<1>3. work[a] \in Work /\ work[a].held \in Marks /\ work \in [Pump!Actor -> Work]
  BY DEF FTypes, Work
<1>4. /\ readings[d] \subseteq Nat /\ IsFiniteSet(readings[d])
      /\ \A x \in alerts[d] : x.at \in Nat
      /\ IsFiniteSet(alerts[d])
  <2>1. now \in Nat /\ readings[d] \subseteq 1..now /\ alerts[d] \subseteq Alert
    BY <1>2, Clock DEF FTypes, ReadingsOK
  <2>2. \A x \in Alert : x.at \in Nat
    BY SameValues, TrackerAssumption DEF Alert, Time, Pump!Time
  <2>. QED
    BY <1>2, <2>1, <2>2, FiniteCounts
<1> SUFFICES /\ work'[a].next # "aggregates" =>
                  Measured(work'[a].held.measured, readings[d], start, end)
             /\ work'[a].next \in {"alerts", "save"} =>
                  Counted(work'[a].held.overcurrents, alerts[d], start, end)
  BY <1>1, <1>2 DEF CloseOK, Measured, Counted
<1>5. CASE Aggregates(a)
  <2> DEFINE S == {t \in readings[d] : Within(t, a)}
  <2>1. S = {t \in readings[d] : start <= t /\ t <= end}
    BY DEF Within
  <2>2. /\ work'[a].next = "overcurrent" /\ work'[a].held.measured = Cardinality(S)
    BY <1>3, <1>5 DEF Aggregates, Work, Marks
  <2>3. {t \in readings[d] : start <= t /\ t < end} \in SUBSET S
    BY <1>2, <1>4, <2>1
  <2>4. IsFiniteSet(S)
    BY <1>4, FS_Subset
  <2>5. /\ Cardinality(S) \in Nat
        /\ Cardinality({t \in readings[d] : start <= t /\ t < end}) <= Cardinality(S)
    BY <2>3, <2>4, Sizes
  <2>6. Measured(Cardinality(S), readings[d], start, end)
    BY <2>1, <2>5 DEF Measured
  <2>. QED
    BY <2>2, <2>6
<1>6. CASE Overcurrent(a)
  <2> DEFINE S == {x \in AlertsWithin(a) : x.overcurrent}
             B == {x \in alerts[d] : x.overcurrent /\ start <= x.at /\ x.at < end}
  <2>1. S = {x \in alerts[d] : x.overcurrent /\ start <= x.at /\ x.at <= end}
    BY DEF AlertsWithin, Within
  <2>2. work[a].next = "overcurrent" /\ work[a].held.overcurrents = 0
    BY <1>1, <1>6 DEF Overcurrent, Computing, WorkOK
  <2>3. /\ work'[a].held.measured = work[a].held.measured
        /\ work'[a].held.overcurrents = Cardinality(S)
    <3>1. CASE S = {}
      <4>1. work' = [work EXCEPT ![a].next = "alerts"]
        BY <1>6, <3>1 DEF Overcurrent
      <4>2. work'[a].held = work[a].held
        BY <1>3, <4>1 DEF Work
      <4>3. Cardinality(S) = 0
        BY <3>1, FS_EmptySet
      <4>. QED
        BY <2>2, <4>2, <4>3
    <3>2. CASE S # {}
      <4> DEFINE held == [work[a].held EXCEPT !.overcurrents = Cardinality(S),
                                              !.detected = TRUE, !.alert = TRUE]
      <4>1. work' = [work EXCEPT ![a].next = "save", ![a].held = held]
        BY <1>6, <3>2 DEF Overcurrent
      <4>2. work'[a].held = held
        BY <1>3, <4>1 DEF Work
      <4>3. held.measured = work[a].held.measured /\ held.overcurrents = Cardinality(S)
        BY <1>3 DEF Marks
      <4>. QED
        BY <4>2, <4>3
    <3>. QED
      BY <3>1, <3>2
  <2>4. B \in SUBSET S
    BY <1>2, <1>4, <2>1
  <2>5. IsFiniteSet(S)
    BY <1>4, <2>1, FS_Subset
  <2>6. Cardinality(S) \in Nat /\ Cardinality(B) <= Cardinality(S)
    BY <2>4, <2>5, Sizes
  <2>7. Counted(Cardinality(S), alerts[d], start, end)
    <3>1. PICK n \in Nat : n = Cardinality(S)
      BY <2>6
    <3>2. Cardinality(B) <= n
      BY <2>6, <3>1
    <3>3. n <= Cardinality({x \in alerts[d] : x.overcurrent /\ start <= x.at /\ x.at <= end})
      <4> DEFINE U == {x \in alerts[d] : x.overcurrent /\ start <= x.at /\ x.at <= end}
      <4>1. n = Cardinality(U)
        BY <2>1, <3>1, Zenon
      <4> HIDE DEF U
      <4>2. n <= Cardinality(U)
        BY <4>1
      <4>. QED
        BY <4>2 DEF U
    <3>4. n >= Cardinality(B)
      <4>1. Cardinality(B) \in Nat
        BY <2>4, <2>5, Sizes
      <4>. QED
        BY <3>2, <4>1
    <3>5. Counted(n, alerts[d], start, end)
      BY <3>3, <3>4 DEF Counted
    <3>. QED
      BY <3>1, <3>5, Zenon
  <2>8. Measured(work[a].held.measured, readings[d], start, end)
    BY <1>1, <1>2, <2>2 DEF CloseOK
  <2>. QED
    BY <2>3, <2>7, <2>8
<1>7. CASE AnyAlert(a)
  <2>1. work[a].next = "alerts"
    BY <1>7 DEF AnyAlert, Computing
  <2>2. /\ work'[a].held.measured = work[a].held.measured
        /\ work'[a].held.overcurrents = work[a].held.overcurrents
    <3> DEFINE held == [work[a].held EXCEPT !.alert = AlertsWithin(a) # {}]
    <3>1. work' = [work EXCEPT ![a] = [work[a] EXCEPT !.next = "save", !.held = held]]
      BY <1>3, <1>7 DEF AnyAlert, Work
    <3>2. work'[a].held = held
      BY <1>3, <3>1 DEF Work
    <3>3. /\ held.measured = work[a].held.measured
          /\ held.overcurrents = work[a].held.overcurrents
      BY <1>3 DEF Marks
    <3>. QED
      BY <3>2, <3>3
  <2>3. /\ Measured(work[a].held.measured, readings[d], start, end)
        /\ Counted(work[a].held.overcurrents, alerts[d], start, end)
    BY <1>1, <1>2, <2>1 DEF CloseOK
  <2>. QED
    BY <2>2, <2>3
<1>. QED
  BY <1>5, <1>6, <1>7 DEF Computes

\* The first save hands what the close counted to the session.
LEMMA UpdateSpan ==
  ASSUME Pump!TInv, FInv, SpanInv, [Next]_vars, NEW a \in Pump!Actor, Update(a),
         NEW s \in Pump!Rows, ledger'[s].closes = 1
  PROVE  SummedOK(s)'
<1>1. FTypes /\ s \in SessionId /\ ledger[s].closes \in Nat
  BY DEF FInv, Pump!TInv, Pump!TypeOK
<1>2. CASE s # job[a].sid
  <2>1. ledger[s].closes = 1 /\ marks'[s] = marks[s]
    BY <1>1, <1>2, UpdateEffect
  <2>2. sessions'[s] = sessions[s]
    BY <1>2, UpdateIsSave, Pump!SaveEffect, TrackerAssumption
  <2>3. SummedOK(s) /\ sessions[s].cols.endedAt \in Nat
    BY <2>1, TrackerAssumption
       DEF SpanInv, Pump!TInv, Pump!TypeOK, Pump!Row, Pump!Columns, Pump!Time, Pump!NoTime
  <2>. QED
    BY <1>1, <2>1, <2>2, <2>3, SummedStays
<1>3. CASE s = job[a].sid
  <2>1. /\ ledger[s].closes = 0 /\ job[a].pc = "update" /\ Closing(a)
        /\ UNCHANGED <<now, readings, alerts>>
    BY <1>1, <1>3, UpdateEffect DEF Closing
  <2>2. marks'[s] = work[a].held /\ sessions'[s].cols = job[a].held
    BY <1>3, <2>1, FirstSave
  <2>3. /\ sessions'[s].device = sessions[s].device
        /\ sessions'[s].startedAt = sessions[s].startedAt
    BY <1>1, RowsStay
  <2>4. CloseOK(a) /\ work[a].next = "save"
    BY <1>1, <2>1 DEF SpanInv, FTypes, WorkOK
  <2>. QED
    BY <1>3, <2>1, <2>2, <2>3, <2>4 DEF CloseOK, SummedOK, Measured, Counted
<1>. QED
  BY <1>2, <1>3

LEMMA NextSpan ==
  ASSUME Pump!TInv, FInv, SpanInv, [Next]_vars PROVE SpanInv'
<1>1. FTypes /\ \A s \in SessionId : HistoryOK(s)
  BY DEF FInv
<1>2. now \in Nat /\ now' \in Nat /\ now <= now' /\ Pump!Rows \subseteq SessionId
  BY <1>1, Clock DEF Pump!TInv, Pump!TypeOK
<1>3. /\ \A a \in Pump!Actor : job[a].at \in Nat
      /\ \A s \in Pump!Rows : sessions[s].startedAt \in Nat /\ sessions[s].cols.endedAt \in Nat
  BY TrackerAssumption
     DEF Pump!TInv, Pump!TypeOK, Pump!Job, Pump!Row, Pump!Columns, Pump!Time, Pump!NoTime
<1>4. \A s \in Pump!Rows : sessions'[s].startedAt <= now'
  BY <1>1, <1>2, <1>3, RowsStay DEF SpanInv
<1>5. CASE ~CloseStep
  <2>1. QuietStep /\ RowsKept
    BY <1>1, <1>5, QuietSteps
  <2>2. ASSUME NEW a \in Pump!Actor PROVE job'[a].at <= now'
    <3>1. job'[a].at \in {job[a].at, now, 0}
      BY <2>1 DEF QuietStep, Quiet, GoodMove
    <3>. QED
      BY <1>2, <1>3, <3>1 DEF SpanInv
  <2>3. ASSUME NEW s \in Pump!Rows' PROVE sessions'[s].startedAt <= now'
    <3>1. CASE s \notin Pump!Rows
      <4>1. PICK h \in Handler : sessions'[s].startedAt = job[h].at
        BY <2>1, <3>1 DEF RowsKept
      <4>. QED
        BY <1>2, <1>3, <4>1 DEF SpanInv, Pump!Actor
    <3>. QED
      BY <1>4, <3>1
  <2>4. ASSUME NEW s \in Pump!Rows', ledger'[s].closes = 1 PROVE SummedOK(s)'
    <3>1. s \in SessionId
      BY <1>1, TrackerTyped DEF Pump!TInv, Pump!TypeOK
    <3>2. ledger[s].closes = 1 /\ marks'[s] = marks[s]
      BY <2>1, <2>4, <3>1 DEF QuietStep
    <3>3. s \in Pump!Rows
      BY <1>1, <3>1, <3>2 DEF HistoryOK
    <3>4. sessions'[s] = sessions[s]
      BY <2>1, <3>3 DEF RowsKept
    <3>. QED
      BY <1>1, <1>3, <3>2, <3>3, <3>4, SummedStays DEF SpanInv
  <2>. QED
    BY <1>1, <2>1, <2>2, <2>3, <2>4, QuietClose DEF SpanInv
<1>6. ASSUME NEW a \in Pump!Actor, Computes(a) \/ Load(a) PROVE SpanInv'
  <2>1. /\ UNCHANGED <<sessions, ledger, marks, now>>
        /\ \A b \in Pump!Actor : b # a => work'[b] = work[b] /\ job'[b] = job[b]
        /\ Closing(a)
    BY <1>1, <1>6, ComputeEffect, LoadEffect DEF tracker, Closing
  <2>2. job'[a].at = job[a].at
    <3>1. CASE Computes(a)
      BY <1>1, <3>1, ComputeEffect DEF tracker
    <3>. QED
      BY <1>1, <1>6, <3>1, LoadKeeps
  <2>3. Pump!Rows' = Pump!Rows
    BY <2>1 DEF Pump!Rows
  <2>4. ASSUME NEW b \in Pump!Actor, b # a, Closing(b)' PROVE CloseOK(b)'
    <3>1. Closing(b) /\ CloseOK(b)
      BY <2>1, <2>4 DEF Closing, SpanInv
    <3>. QED
      BY <1>1, <2>1, <2>4, <3>1, CloseStays
  <2>6. CloseOK(a)'
    <3>1. CASE Load(a)
      BY <1>1, <2>1, <3>1, LoadKeeps, CloseStays DEF SpanInv
    <3>. QED
      BY <1>1, <1>6, <3>1, ComputeSpan
  <2>7. ASSUME NEW s \in Pump!Rows', ledger'[s].closes = 1 PROVE SummedOK(s)'
    BY <1>1, <1>2, <1>3, <2>1, <2>3, <2>7, SummedStays DEF SpanInv
  <2>8. \A b \in Pump!Actor : job'[b].at <= now'
    BY <2>1, <2>2 DEF SpanInv
  <2>. QED
    BY <1>4, <2>3, <2>4, <2>6, <2>7, <2>8 DEF SpanInv
<1>7. ASSUME NEW a \in Pump!Actor, Update(a) PROVE SpanInv'
  <2>1. /\ now' = now /\ ~Closing(a)'
        /\ \A b \in Pump!Actor : b # a => work'[b] = work[b] /\ job'[b] = job[b]
    BY <1>1, <1>7, UpdateEffect, UpdateIsSave
  <2>2. job'[a].at \in {0, job[a].at}
    <3>1. Pump!Idle.at = 0 /\ \A t : [Pump!Idle EXCEPT !.pc = "check", !.at = t].at = t
      BY DEF Pump!Idle, Pump!NoTime
    <3>. QED
      BY <1>7, <3>1, UpdateIsSave
  <2>3. Pump!Rows' = Pump!Rows
    BY <1>7, UpdateIsSave, Pump!SaveEffect, TrackerAssumption
  <2>4. \A b \in Pump!Actor : job'[b].at <= now'
    BY <1>2, <1>3, <2>1, <2>2 DEF SpanInv
  <2>5. ASSUME NEW b \in Pump!Actor, Closing(b)' PROVE CloseOK(b)'
    <3>1. b # a /\ Closing(b) /\ CloseOK(b)
      BY <2>1, <2>5 DEF Closing, SpanInv
    <3>. QED
      BY <1>1, <2>1, <3>1, CloseStays
  <2>6. ASSUME NEW s \in Pump!Rows', ledger'[s].closes = 1 PROVE SummedOK(s)'
    BY <1>7, <2>3, <2>6, UpdateSpan
  <2>. QED
    BY <1>4, <2>3, <2>4, <2>5, <2>6 DEF SpanInv
<1>. QED
  BY <1>5, <1>6, <1>7 DEF CloseStep, Close, Computes

LEMMA InitSpan == Init => SpanInv
<1> SUFFICES ASSUME Init PROVE SpanInv
  OBVIOUS
<1>1. now = 1 /\ Pump!Rows = {} /\ \A a \in Pump!Actor : job[a] = Pump!Idle
  BY SameValues DEF Init, Pump!Rows, Actor
<1>2. Pump!Idle.at = 0 /\ Pump!Idle.pc = "idle"
  BY DEF Pump!Idle, Pump!NoTime
<1>. QED
  BY <1>1, <1>2 DEF SpanInv, Closing

\* A session one close reached has the readings and the overcurrents of its
\* span, whatever was logged while it closed and since.
THEOREM SpansAreSummed == Spec => []SpanSummed
<1>1. ASSUME Pump!TInv, FInv, SpanInv PROVE SpanSummed
  <2> SUFFICES ASSUME NEW s \in Rows, ledger[s].closes = 1
               PROVE  LET d == sessions[s].device IN
                      /\ Counts(marks[s].measured, s, LAMBDA span : readings[d] \cap span)
                      /\ Counts(marks[s].overcurrents, s,
                                LAMBDA span : {x \in alerts[d] : x.overcurrent /\ x.at \in span})
    BY DEF SpanSummed
  <2> DEFINE d == sessions[s].device
             start == sessions[s].startedAt
             end == sessions[s].cols.endedAt
  <2>1. s \in Pump!Rows /\ SummedOK(s)
    BY <1>1, SameValues DEF Rows, SpanInv
  <2>2. d \in Device /\ start \in Nat /\ end \in Nat
    BY <1>1, <2>1, TrackerAssumption
       DEF Pump!TInv, Pump!TypeOK, Pump!Row, Pump!Columns, Pump!Time, Pump!NoTime
  <2>3. readings[d] \subseteq Nat /\ \A x \in alerts[d] : x.at \in Nat
    <3>1. now \in Nat
      BY <1>1, TrackerAssumption DEF Pump!TInv, Pump!TypeOK, Pump!Time
    <3>2. readings[d] \subseteq 1..now /\ alerts[d] \subseteq Alert
      BY <1>1, <2>2 DEF FInv, FTypes, ReadingsOK
    <3>3. \A x \in Alert : x.at \in Nat
      BY SameValues, TrackerAssumption DEF Alert, Time, Pump!Time
    <3>. QED
      BY <3>1, <3>2, <3>3
  <2>4. /\ readings[d] \cap (start..end) = {t \in readings[d] : start <= t /\ t <= end}
        /\ readings[d] \cap ((start..end) \ {end}) = {t \in readings[d] : start <= t /\ t < end}
    BY <2>2, <2>3
  <2>5. /\ {x \in alerts[d] : x.overcurrent /\ x.at \in start..end}
             = {x \in alerts[d] : x.overcurrent /\ start <= x.at /\ x.at <= end}
        /\ {x \in alerts[d] : x.overcurrent /\ x.at \in (start..end) \ {end}}
             = {x \in alerts[d] : x.overcurrent /\ start <= x.at /\ x.at < end}
    BY <2>2, <2>3
  <2>. QED
    BY <2>1, <2>4, <2>5 DEF Counts, SummedOK, Measured, Counted
<1>2. Spec => []SpanInv
  BY InitSpan, NextSpan, InitBoth, TrackerInvariant, PTL DEF Spec
<1>. QED
  BY <1>1, <1>2, TrackerInvariant, PTL

-----------------------------------------------------------------------------
(* The report. Its sums are SumFunctionOnSet of a column, over sets of rows  *)
(* that are finite, and the buckets of the timeline are a partition.        *)

\* A greatest element of two.
LEMMA MaxOfTwo ==
  ASSUME NEW n \in Int PROVE Max({0, n}) \in Int
<1>1. PICK m \in {0, n} : \A t \in {0, n} : m >= t
  OBVIOUS
<1>2. \E top \in {0, n} : \A t \in {0, n} : top >= t
  BY <1>1
<1>3. Max({0, n}) \in {0, n}
  BY <1>2, Zenon DEF Max
<1>. QED
  BY <1>3

SecondsOf == [s \in SessionId |-> Max({0, sessions[s].cols.duration})]
OvercurrentsOf == [s \in SessionId |-> marks[s].overcurrents]

\* What is summed is a number for every row.
LEMMA ColumnTypes ==
  ASSUME Pump!TInv, FTypes, NEW s \in Pump!Rows
  PROVE  /\ s \in SessionId
         /\ SecondsOf[s] \in Int
         /\ OvercurrentsOf[s] = marks[s].overcurrents /\ marks[s].overcurrents \in Nat
<1>1. s \in SessionId /\ sessions[s].cols.duration \in Int
  BY DEF Pump!TInv, Pump!TypeOK, Pump!Row, Pump!Columns, Pump!NoDuration
<1>2. SecondsOf[s] \in Int
  BY <1>1, MaxOfTwo DEF SecondsOf
<1>3. OvercurrentsOf[s] = marks[s].overcurrents /\ marks[s].overcurrents \in Nat
  BY <1>1 DEF OvercurrentsOf, FTypes, Marks
<1>. QED
  BY <1>1, <1>2, <1>3

\* The seconds of a summary or a bucket.
LEMMA SecondsAdd ==
  ASSUME Pump!TInv, FTypes, NEW S \in SUBSET Pump!Rows, IsFiniteSet(S)
  PROVE  Seconds(S) = SumFunctionOnSet(SecondsOf, S)
<1> DEFINE Sums(k) == k = [T \in SUBSET S |->
              IF T = {} THEN 0
              ELSE Max({0, sessions[CHOOSE s \in T : TRUE].cols.duration})
                     + k[T \ {CHOOSE s \in T : TRUE}]]
           h == CHOOSE k : Sums(k)
<1>1. Seconds(S) = h[S]
  BY DEF Seconds, MapThenSumSet, MapThenFoldSet
<1>2. \A s \in S : s \in SessionId /\ SecondsOf[s] \in Int
  BY ColumnTypes
<1>3. \A T \in SUBSET S : T # {} =>
        SecondsOf[CHOOSE s \in T : TRUE]
          = Max({0, sessions[CHOOSE s \in T : TRUE].cols.duration})
  BY <1>2 DEF SecondsOf
<1>4. PICK k : Unfolds(k, SecondsOf, S)
  BY <1>2, SumUnfolds
<1>5. Sums(k)
  BY <1>3, <1>4 DEF Unfolds
<1>6. Sums(h)
  BY <1>5
<1>7. Unfolds(h, SecondsOf, S)
  <2>. HIDE DEF h
  <2>. QED
    BY <1>3, <1>6 DEF Unfolds
<1>. HIDE DEF h
<1>. QED
  BY <1>1, <1>2, <1>7, SumUnfolds

\* The overcurrents of a summary.
LEMMA OvercurrentsAdd ==
  ASSUME Pump!TInv, FTypes, NEW S \in SUBSET Pump!Rows, IsFiniteSet(S)
  PROVE  MapThenSumSet(LAMBDA s : marks[s].overcurrents, S)
           = SumFunctionOnSet(OvercurrentsOf, S)
<1> DEFINE Sums(k) == k = [T \in SUBSET S |->
              IF T = {} THEN 0
              ELSE marks[CHOOSE s \in T : TRUE].overcurrents
                     + k[T \ {CHOOSE s \in T : TRUE}]]
           h == CHOOSE k : Sums(k)
<1>1. MapThenSumSet(LAMBDA s : marks[s].overcurrents, S) = h[S]
  BY DEF MapThenSumSet, MapThenFoldSet
<1>2. \A s \in S : s \in SessionId /\ OvercurrentsOf[s] \in Int
  BY ColumnTypes
<1>3. \A T \in SUBSET S : T # {} =>
        OvercurrentsOf[CHOOSE s \in T : TRUE] = marks[CHOOSE s \in T : TRUE].overcurrents
  BY <1>2 DEF OvercurrentsOf
<1>4. PICK k : Unfolds(k, OvercurrentsOf, S)
  BY <1>2, SumUnfolds
<1>5. Sums(k)
  BY <1>3, <1>4 DEF Unfolds
<1>6. Sums(h)
  BY <1>5
<1>7. Unfolds(h, OvercurrentsOf, S)
  <2>. HIDE DEF h
  <2>. QED
    BY <1>3, <1>6 DEF Unfolds
<1>. HIDE DEF h
<1>. QED
  BY <1>1, <1>2, <1>7, SumUnfolds

\* The totals of a timeline.
CountsOf(t, B) == MapThenSumSet(LAMBDA b : t[b].count, B)
BucketSecondsOf(t, B) == MapThenSumSet(LAMBDA b : t[b].seconds, B)

\* The counts of a timeline t.
LEMMA CountsAdd ==
  ASSUME NEW t, NEW B, B = DOMAIN t, IsFiniteSet(B), NEW f, f = [b \in B |-> t[b].count],
         \A b \in B : f[b] \in Int
  PROVE  CountsOf(t, B) = SumFunctionOnSet(f, B)
<1> DEFINE Sums(k) == k = [T \in SUBSET B |->
              IF T = {} THEN 0
              ELSE t[CHOOSE b \in T : TRUE].count + k[T \ {CHOOSE b \in T : TRUE}]]
           h == CHOOSE k : Sums(k)
<1>1. CountsOf(t, B) = h[B]
  BY DEF CountsOf, MapThenSumSet, MapThenFoldSet
<1>2. \A T \in SUBSET B : T # {} =>
        f[CHOOSE b \in T : TRUE] = t[CHOOSE b \in T : TRUE].count
  OBVIOUS
<1>3. PICK k : Unfolds(k, f, B)
  BY SumUnfolds
<1>4. Sums(k)
  BY <1>2, <1>3 DEF Unfolds
<1>5. Sums(h)
  <2>. HIDE DEF Sums
  <2>. QED
    BY <1>4
<1>6. Unfolds(h, f, B)
  <2>. HIDE DEF h
  <2>. QED
    BY <1>2, <1>5 DEF Unfolds
<1>. HIDE DEF h
<1>. QED
  BY <1>1, <1>6, SumUnfolds

\* The seconds of a timeline t.
LEMMA BucketSecondsAdd ==
  ASSUME NEW t, NEW B, B = DOMAIN t, IsFiniteSet(B), NEW f, f = [b \in B |-> t[b].seconds],
         \A b \in B : f[b] \in Int
  PROVE  BucketSecondsOf(t, B) = SumFunctionOnSet(f, B)
<1> DEFINE Sums(k) == k = [T \in SUBSET B |->
              IF T = {} THEN 0
              ELSE t[CHOOSE b \in T : TRUE].seconds + k[T \ {CHOOSE b \in T : TRUE}]]
           h == CHOOSE k : Sums(k)
<1>1. BucketSecondsOf(t, B) = h[B]
  BY DEF BucketSecondsOf, MapThenSumSet, MapThenFoldSet
<1>2. \A T \in SUBSET B : T # {} =>
        f[CHOOSE b \in T : TRUE] = t[CHOOSE b \in T : TRUE].seconds
  OBVIOUS
<1>3. PICK k : Unfolds(k, f, B)
  BY SumUnfolds
<1>4. Sums(k)
  BY <1>2, <1>3 DEF Unfolds
<1>5. Sums(h)
  <2>. HIDE DEF Sums
  <2>. QED
    BY <1>4
<1>6. Unfolds(h, f, B)
  <2>. HIDE DEF h
  <2>. QED
    BY <1>2, <1>5 DEF Unfolds
<1>. HIDE DEF h
<1>. QED
  BY <1>1, <1>6, SumUnfolds

InBucket(S, b) == {s \in S : Bucket(s) = b}

\* Every session is in one bucket, and there are finitely many.
LEMMA BucketsPartition ==
  ASSUME NEW S, IsFiniteSet(S), NEW B, B = {Bucket(s) : s \in S},
         NEW P, P = [b \in B |-> InBucket(S, b)]
  PROVE  /\ IsFiniteSet(B) /\ P \in [B -> SUBSET S]
         /\ UNION {P[b] : b \in B} = S
         /\ \A b, c \in B : b # c => P[b] \cap P[c] = {}
<1> DEFINE k == [s \in S |-> Bucket(s)]
<1>1. k \in Surjection(S, B)
  BY DEF Surjection
<1>2. IsFiniteSet(B)
  BY <1>1, FS_Surjection
<1>. QED
  BY <1>2 DEF InBucket

\* The timeline adds up to the summary.
LEMMA TimelineSums ==
  ASSUME Pump!TInv, FTypes, NEW S \in SUBSET Pump!Rows, IsFiniteSet(S),
         NEW t, t = InBuckets(S)
  PROVE  /\ Cardinality(S) = CountsOf(t, DOMAIN t)
         /\ Seconds(S) = BucketSecondsOf(t, DOMAIN t)
<1> DEFINE B == {Bucket(s) : s \in S}
           P == [b \in B |-> InBucket(S, b)]
           counts == [b \in DOMAIN t |-> t[b].count]
           seconds == [b \in DOMAIN t |-> t[b].seconds]
           ones == [s \in S |-> 1]
<1>1. /\ IsFiniteSet(B) /\ P \in [B -> SUBSET S]
      /\ UNION {P[b] : b \in B} = S
      /\ \A b, c \in B : b # c => P[b] \cap P[c] = {}
  BY BucketsPartition
<1>2. DOMAIN t = B /\ \A b \in B : t[b] = Totals(P[b])
  BY DEF InBuckets, InBucket
<1>3. ASSUME NEW b \in B
      PROVE  /\ counts[b] = SumFunctionOnSet(ones, P[b]) /\ counts[b] \in Int
             /\ seconds[b] = SumFunctionOnSet(SecondsOf, P[b]) /\ seconds[b] \in Int
  <2>1. P[b] \in SUBSET S /\ P[b] \in SUBSET Pump!Rows
    BY <1>1
  <2>2. IsFiniteSet(P[b])
    BY <2>1, FS_Subset
  <2>3. counts[b] = Cardinality(P[b]) /\ seconds[b] = Seconds(P[b])
    <3>1. b \in DOMAIN t /\ t[b] = Totals(P[b])
      BY <1>2
    <3>2. counts[b] = t[b].count /\ seconds[b] = t[b].seconds
      BY <3>1
    <3>. HIDE DEF P, counts, seconds
    <3>. QED
      BY <3>1, <3>2 DEF Totals
  <2>. HIDE DEF P, counts, seconds
  <2>4. SumFunctionOnSet(ones, P[b]) = Cardinality(P[b])
    <3>1. \A s \in P[b] : ones[s] = 1
      BY <2>1
    <3>. HIDE DEF ones
    <3>. QED
      BY <2>2, <3>1, SumOnes
  <2>5. Cardinality(P[b]) \in Int
    BY <2>2, FS_CardinalityType
  <2>6. Seconds(P[b]) = SumFunctionOnSet(SecondsOf, P[b])
    BY <2>1, <2>2, SecondsAdd
  <2>7. SumFunctionOnSet(SecondsOf, P[b]) \in Int
    <3>1. \A s \in P[b] : SecondsOf[s] \in Int
      BY <2>1, ColumnTypes
    <3>. QED
      BY <2>2, <3>1, SumInt
  <2>. QED
    BY <2>3, <2>4, <2>5, <2>6, <2>7
<1>4. /\ \A s \in S : SecondsOf[s] \in Int
      /\ \A s \in S : ones[s] = 1 /\ ones[s] \in Int
  BY ColumnTypes
<1>5. /\ CountsOf(t, B) = SumFunctionOnSet(counts, B)
      /\ BucketSecondsOf(t, B) = SumFunctionOnSet(seconds, B)
  <2>1. /\ B = DOMAIN t
        /\ counts = [b \in B |-> t[b].count] /\ seconds = [b \in B |-> t[b].seconds]
    BY <1>2
  <2>. HIDE DEF B, P, counts, seconds
  <2>2. /\ IsFiniteSet(B)
        /\ \A b \in B : counts[b] \in Int
        /\ \A b \in B : seconds[b] \in Int
    BY <1>1, <1>3
  <2>3. CountsOf(t, B) = SumFunctionOnSet(counts, B)
    BY <2>1, <2>2, CountsAdd
  <2>4. BucketSecondsOf(t, B) = SumFunctionOnSet(seconds, B)
    BY <2>1, <2>2, BucketSecondsAdd
  <2>. QED
    BY <2>3, <2>4
<1>. HIDE DEF B, P, counts, seconds, ones
<1>6. SumFunctionOnSet(counts, B) = SumFunctionOnSet(ones, S)
  BY <1>1, <1>3, <1>4, SumOfParts
<1>7. SumFunctionOnSet(seconds, B) = SumFunctionOnSet(SecondsOf, S)
  BY <1>1, <1>3, <1>4, SumOfParts
<1>8. SumFunctionOnSet(ones, S) = Cardinality(S) /\ SumFunctionOnSet(SecondsOf, S) = Seconds(S)
  BY <1>4, SumOnes, SecondsAdd
<1>. QED
  BY <1>2, <1>5, <1>6, <1>7, <1>8

\* Every session with the flag has one overcurrent at least.
LEMMA FlaggedAreCounted ==
  ASSUME Pump!TInv, FTypes, NEW S \in SUBSET Pump!Rows, IsFiniteSet(S),
         \A s \in S : marks[s].detected => marks[s].overcurrents > 0
  PROVE  Cardinality({s \in S : marks[s].detected})
           <= MapThenSumSet(LAMBDA s : marks[s].overcurrents, S)
<1> DEFINE flags == [s \in S |-> IF marks[s].detected THEN 1 ELSE 0]
           T == {s \in S : marks[s].detected}
<1>1. \A s \in S :
        /\ flags[s] \in Int /\ OvercurrentsOf[s] \in Int /\ flags[s] <= OvercurrentsOf[s]
        /\ s \in T => flags[s] = 1
        /\ s \notin T => flags[s] = 0
  BY ColumnTypes
<1>2. T \in SUBSET S /\ IsFiniteSet(T)
  BY FS_Subset
<1>. HIDE DEF flags, T
<1>3. SumFunctionOnSet(flags, S) = SumFunctionOnSet(flags, T)
  BY <1>1, <1>2, SumZeros
<1>4. SumFunctionOnSet(flags, T) = Cardinality(T)
  BY <1>1, <1>2, SumOnes
<1>5. SumFunctionOnSet(flags, S) <= SumFunctionOnSet(OvercurrentsOf, S)
  BY <1>1, SumMonotonic
<1>. QED
  BY <1>3, <1>4, <1>5, OvercurrentsAdd DEF T

\* The rows are finitely many.
LEMMA SameFinite == Pump!FiniteRows <=> IsFiniteSet(Pump!Rows)
  BY DEF Pump!FiniteRows, Pump!IsFiniteSet, IsFiniteSet

LEMMA FiniteTable == Spec => []Pump!FiniteRows
<1>1. Init => Pump!FiniteRows
  BY InitTracker, Pump!InitHours, TrackerAssumption
<1>2. Pump!TInv /\ FInv /\ Pump!FiniteRows /\ [Next]_vars => Pump!FiniteRows'
  <2>1. ASSUME NEW a, Update(a) PROVE Pump!Rows' = Pump!Rows
    BY <2>1 DEF Update, Pump!Rows
  <2>. QED
    BY <2>1, PumpSteps, Pump!NextFinite, TrackerAssumption DEF FInv, Pump!FiniteRows
<1>. QED
  BY <1>1, <1>2, TrackerInvariant, PTL DEF Spec

\* The parts of a report agree: the summary is over the sessions listed, and
\* each of these is in one bucket of the timeline.
THEOREM ReportsAgree == Spec => []ReportAgrees
<1>1. ASSUME Pump!TInv, FInv, Pump!FiniteRows, FlagsAgree PROVE ReportAgrees
  <2> SUFFICES ASSUME NEW d \in Device, NEW q \in Query
               PROVE  LET summary == Summary(d, q)
                          timeline == Timeline(d, q)
                          listed == {s \in Sessions(d, q) : sessions[s].startedAt <= End(q)}
                      IN
                      /\ summary.totals.count = Cardinality(listed)
                      /\ summary.totals.seconds = Seconds(listed)
                      /\ summary.totals.count
                           = MapThenSumSet(LAMBDA b : timeline[b].count, DOMAIN timeline)
                      /\ summary.totals.seconds
                           = MapThenSumSet(LAMBDA b : timeline[b].seconds, DOMAIN timeline)
                      /\ (\A s \in listed : ledger[s].closes <= 2) =>
                           summary.overcurrentSessions <= summary.overcurrentTotalCount
    BY DEF ReportAgrees
  <2> DEFINE S == Asked(d, q)
  <2>1. {s \in Sessions(d, q) : sessions[s].startedAt <= End(q)} = S
    BY DEF Sessions, Asked
  <2>2. S \in SUBSET Pump!Rows /\ IsFiniteSet(S)
    <3>1. S \in SUBSET Pump!Rows
      BY SameValues DEF Asked, Since, Rows
    <3>. HIDE DEF S
    <3>. QED
      BY <1>1, <3>1, SameFinite, FS_Subset
  <2>3. /\ Summary(d, q).totals.count = Cardinality(S)
        /\ Summary(d, q).totals.seconds = Seconds(S)
        /\ Summary(d, q).overcurrentSessions = Cardinality({s \in S : marks[s].detected})
        /\ Summary(d, q).overcurrentTotalCount
             = MapThenSumSet(LAMBDA s : marks[s].overcurrents, S)
    BY DEF Summary, Totals
  <2>4. Timeline(d, q) = InBuckets(S)
    BY DEF Timeline
  <2>5. /\ Cardinality(S) = CountsOf(Timeline(d, q), DOMAIN Timeline(d, q))
        /\ Seconds(S) = BucketSecondsOf(Timeline(d, q), DOMAIN Timeline(d, q))
    <3>. HIDE DEF S
    <3>. QED
      BY <1>1, <2>2, <2>4, TimelineSums DEF FInv
  <2>6. ASSUME \A s \in S : ledger[s].closes <= 2
        PROVE  Cardinality({s \in S : marks[s].detected})
                 <= MapThenSumSet(LAMBDA s : marks[s].overcurrents, S)
    <3>1. \A s \in S : marks[s].detected => marks[s].overcurrents > 0
      BY <1>1, <2>2, <2>6, SameValues DEF FlagsAgree, Rows
    <3>. HIDE DEF S
    <3>. QED
      BY <1>1, <2>2, <3>1, FlaggedAreCounted DEF FInv
  <2>. HIDE DEF S
  <2>. QED
    BY <2>1, <2>3, <2>5, <2>6 DEF CountsOf, BucketSecondsOf
<1>. QED
  BY <1>1, TrackerInvariant, FiniteTable, FlagsFollowCounts, PTL
=============================================================================
