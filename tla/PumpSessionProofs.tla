-------------------------- MODULE PumpSessionProofs --------------------------
(***************************************************************************)
(* Theorems about PumpSession, for every value of its constants.            *)
(***************************************************************************)
EXTENDS PumpSession, SumTheorems, TLAPS

-----------------------------------------------------------------------------
(* Types.  TypeOK is not inductive by itself: a close needs its session to  *)
(* exist, an insert needs a positive number and the time of its message.    *)

Saving == {"load", "update", "hours"}

\* What a job in flight carries.
JobOK(a) ==
  LET j == job[a] IN
  /\ a = Cron => j.pc \in {"idle"} \cup CronSteps
  /\ a # Cron => j.pc \in {"idle"} \cup HandlerSteps
  /\ a # Cron /\ j.pc # "idle" => j.device \in Device /\ j.at \in Time
  /\ a = Cron /\ j.pc \notin {"idle", "scan"} => j.at \in Time
  /\ j.pc = "started_insert" => j.number # 0
  /\ j.pc \in Saving \cup {"publish", "disconnected_last"} => j.sid \in Rows
  /\ j.pc \in Saving => /\ j.held.endedAt \in Time
                        /\ j.held.status \in Closed
                        /\ j.held.duration \in Nat
  /\ a = Cron /\ j.pc \in Saving => j.held.status = "interrupted"
  /\ j.pc = "hours" => j.held.status = "completed"

TInv == TypeOK /\ \A a \in Actor : JobOK(a)

Ledger == [SessionId -> [closes : Nat, credited : Nat, lost : BOOLEAN]]

\* A handler that does nothing, and the columns of a fresh session, are typed.
LEMMA IdleType == Idle \in Job /\ OpenColumns \in Columns
  BY DEF Idle, Job, OpenColumns, Columns, NoTime, NoDuration

\* A step that only changes the job of one actor, to a well-formed one.
LEMMA JobStep ==
  ASSUME TInv, NEW a \in Actor, NEW j \in Job, Become(a, j),
         Rows \subseteq Rows'
  PROVE  /\ job' \in [Actor -> Job]
         /\ \A b \in Actor : b # a => JobOK(b)'
         /\ job'[a] = j
<1>1. job \in [Actor -> Job]
  BY DEF TInv, TypeOK
<1>2. job' \in [Actor -> Job] /\ job'[a] = j
  BY <1>1 DEF Become
<1>3. ASSUME NEW b \in Actor, b # a PROVE JobOK(b)'
  <2>1. job'[b] = job[b]
    BY <1>1, <1>3 DEF Become
  <2>2. JobOK(b)
    BY DEF TInv
  <2>. QED
    BY <2>1, <2>2 DEF JobOK
<1>. QED
  BY <1>2, <1>3

\* The columns a close computes are typed.
LEMMA ClosingType ==
  ASSUME TInv, NEW s \in Rows, NEW end \in Time,
         NEW status \in Closed, NEW reason \in {"none", "esp_reboot", "lwt", "timeout"}
  PROVE  /\ Closing(s, end, status, reason) \in Columns
         /\ Closing(s, end, status, reason).endedAt \in Time
         /\ Closing(s, end, status, reason).status = status
         /\ Closing(s, end, status, reason).duration \in Nat
<1>1. sessions[s].startedAt \in Nat
  BY DEF TInv, TypeOK, Row, Time
<1>2. end \in Nat
  BY DEF Time
<1>. QED
  BY <1>1, <1>2 DEF Closing, Columns, Closed

\* Beginning a close on an existing session, with a real end time.
LEMMA BeginCloseType ==
  ASSUME TInv, NEW a \in Actor, NEW s \in Rows, NEW end \in Time,
         NEW status \in Closed, NEW reason \in {"none", "esp_reboot", "lwt", "timeout"}
  PROVE  LET k == BeginClose(a, s, end, status, reason) IN
         /\ k \in Job
         /\ k.pc = "load" /\ k.sid = s /\ k.device = job[a].device /\ k.at = job[a].at
         /\ k.held = Closing(s, end, status, reason)
<1>1. job[a] \in Job /\ s \in SessionId
  BY DEF TInv, TypeOK
<1>2. Closing(s, end, status, reason) \in Columns
  BY ClosingType
<1>. QED
  BY <1>1, <1>2 DEF BeginClose, Job, CronSteps, HandlerSteps

\* save() of typed columns over a typed row gives a typed row.
LEMMA MergeType ==
  ASSUME NEW row \in Columns, NEW held \in Columns, NEW loaded \in Columns
  PROVE  Merge(row, held, loaded) \in Columns
  BY DEF Merge, Columns

\* What a restart leaves of the jobs in flight is typed.
LEMMA DroppedType ==
  ASSUME TInv, NEW J PROVE Dropped(J) \in Ledger
  BY DEF TInv, TypeOK, Dropped, Ledger

\* An empty table and idle handlers are typed.
LEMMA InitType == Init => TInv
<1> SUFFICES ASSUME Init PROVE TInv
  OBVIOUS
<1>1. Rows = {} /\ now \in Time
  BY ConstantsAssumption DEF Init, Time, Rows
<1>2. \A a \in Actor : job[a] = Idle
  BY DEF Init
<1>3. TypeOK
  BY <1>1, IdleType DEF Init, TypeOK
<1>4. ASSUME NEW a \in Actor PROVE JobOK(a)
  BY <1>2 DEF JobOK, Idle, Saving
<1>. QED
  BY <1>3, <1>4 DEF TInv

\* Steps that touch neither the table nor the rest, only one job.
LEMMA OneJobType ==
  ASSUME TInv, NEW a \in Actor, NEW j \in Job, Become(a, j),
         UNCHANGED <<now, sessions, hours, lastData, told, queue, failures, ledger>>,
         JobOK(a)'
  PROVE  TInv'
<1>1. Rows' = Rows
  BY DEF Rows
<1>2. job' \in [Actor -> Job] /\ \A b \in Actor : JobOK(b)'
  BY <1>1, JobStep
<1>. QED
  BY <1>1, <1>2 DEF TInv, TypeOK

\* Messages that arrive start well-formed jobs.
LEMMA EnvironmentType ==
  ASSUME TInv, NEW h \in Handler, NEW d \in Device, Environment(h, d)
  PROVE  TInv'
<1>1. h \in Actor /\ h # Cron
  BY ConstantsAssumption DEF Actor
<1>2. \A e \in Device : told[e] \subseteq SessionId
  BY DEF TInv, TypeOK
<1>3. PICK step \in {"started_find", "stopped_find", "disconnected_find"},
           sid \in SessionId \cup {None} : Receive(h, d, step, sid)
  BY <1>2 DEF Environment, PumpOnReported, PumpOffReported, LastWillReceived
<1> DEFINE j == [Idle EXCEPT !.pc = step, !.device = d, !.at = now, !.sid = sid]
<1>4. now \in Time
  BY DEF TInv, TypeOK
<1>5. j \in Job /\ j.pc = step /\ j.device = d /\ j.at = now
  BY <1>4, IdleType DEF Idle, Job, HandlerSteps
<1>6. Become(h, j)
  BY <1>3 DEF Receive
<1>7. job'[h] = j
  BY <1>1, <1>5, <1>6 DEF Become, TInv, TypeOK
<1>8. JobOK(h)'
  BY <1>1, <1>4, <1>5, <1>7 DEF JobOK, Saving, HandlerSteps
<1>. QED
  BY <1>1, <1>3, <1>5, <1>6, <1>8, OneJobType DEF Receive

\* The idle job is well formed whoever runs it.
LEMMA FinishType ==
  ASSUME TInv, NEW a \in Actor, Finish(a),
         UNCHANGED <<now, sessions, hours, lastData, told, queue, failures, ledger>>
  PROVE  TInv'
<1>1. job'[a] = Idle
  BY DEF Finish, Become, TInv, TypeOK
<1>2. JobOK(a)'
  BY <1>1 DEF JobOK, Idle, Saving
<1>. QED
  BY <1>2, IdleType, OneJobType DEF Finish

\* What a handler at work has in hand.
LEMMA HandlerFacts ==
  ASSUME TInv, NEW h \in Handler
  PROVE  /\ h \in Actor /\ h # Cron
         /\ job[h] \in Job
         /\ job[h].pc # "idle" => job[h].device \in Device /\ job[h].at \in Time
         /\ JobOK(h)
  BY ConstantsAssumption DEF Actor, TInv, TypeOK, JobOK

\* A job value is well formed for a handler.
GoodJob(k) ==
  /\ k \in Job
  /\ k.pc \in HandlerSteps
  /\ k.device \in Device
  /\ k.at \in Time
  /\ k.pc = "started_insert" => k.number # 0
  /\ k.pc \in Saving \cup {"publish", "disconnected_last"} => k.sid \in Rows
  /\ k.pc \in Saving => /\ k.held.endedAt \in Time
                        /\ k.held.status \in Closed
                        /\ k.held.duration \in Nat
  /\ k.pc = "hours" => k.held.status = "completed"

\* A handler that is given a well-formed job keeps one, also when rows are added.
LEMMA HandlerJobOK ==
  ASSUME TInv, NEW h \in Handler, NEW k, Become(h, k), GoodJob(k), Rows \subseteq Rows'
  PROVE  JobOK(h)'
<1>1. job'[h] = k /\ h # Cron
  BY HandlerFacts DEF Become, TInv, TypeOK
<1>. QED
  BY <1>1 DEF JobOK, GoodJob, Saving, HandlerSteps

\* A handler that moves on with a typed job leaves every job typed.
LEMMA HandlerJobType ==
  ASSUME TInv, NEW h \in Handler, NEW k, Become(h, k), GoodJob(k),
         UNCHANGED <<now, sessions, hours, lastData, told, queue, failures, ledger>>
  PROVE  TInv'
<1>1. Rows \subseteq Rows'
  BY DEF Rows
<1>2. JobOK(h)'
  BY <1>1, HandlerJobOK
<1>. QED
  BY <1>2, HandlerFacts, OneJobType DEF GoodJob

\* handlePumpStarted looks for an active session.
LEMMA StartedFindType ==
  ASSUME TInv, NEW h \in Handler, StartedFind(h) PROVE TInv'
<1> DEFINE j == job[h]
<1>1. j \in Job /\ j.pc = "started_find" /\ j.device \in Device /\ j.at \in Time
  BY HandlerFacts DEF StartedFind
<1>2. CASE ActiveOf(j.device) = {}
  <2> DEFINE k == [j EXCEPT !.pc = "started_max"]
  <2>1. GoodJob(k)
    BY <1>1 DEF Job, HandlerSteps, GoodJob, Saving
  <2>. QED
    BY <1>2, <2>1, HandlerJobType DEF StartedFind, Goto
<1>3. CASE ActiveOf(j.device) # {}
  <2>1. PICK s \in ActiveOf(j.device) :
          Become(h, [j EXCEPT !.pc = "publish", !.sid = s])
    BY <1>3 DEF StartedFind
  <2>2. s \in Rows /\ s \in SessionId
    BY DEF ActiveOf, ActiveRows, TInv, TypeOK
  <2>3. GoodJob([j EXCEPT !.pc = "publish", !.sid = s])
    BY <1>1, <2>2 DEF Job, HandlerSteps, GoodJob, Saving
  <2>. QED
    BY <2>1, <2>3, HandlerJobType DEF StartedFind
<1>. QED
  BY <1>2, <1>3

\* handlePumpStarted reads the largest number.
LEMMA StartedMaxType ==
  ASSUME TInv, NEW h \in Handler, StartedMax(h) PROVE TInv'
<1> DEFINE j == job[h]
<1>1. j \in Job /\ j.pc = "started_max" /\ j.device \in Device /\ j.at \in Time
  BY HandlerFacts DEF StartedMax
<1>2. PICK m \in {sessions[s].number : s \in RowsOf(j.device)} \cup {0} :
        Become(h, [j EXCEPT !.pc = "started_insert", !.number = m + 1])
  BY DEF StartedMax
<1>3. m \in Nat
  BY DEF RowsOf, TInv, TypeOK, Row
<1>4. PICK n \in Nat \ {0} : n = m + 1
  BY <1>3
<1>5. GoodJob([j EXCEPT !.pc = "started_insert", !.number = n])
  BY <1>1 DEF Job, HandlerSteps, GoodJob, Saving
<1>. QED
  BY <1>2, <1>4, <1>5, HandlerJobType DEF StartedMax

\* handlePumpStopped looks for its session.
LEMMA StoppedFindType ==
  ASSUME TInv, NEW h \in Handler, StoppedFind(h) PROVE TInv'
<1> DEFINE j == job[h]
           found == IF j.sid # None THEN {j.sid} \cap ActiveRows ELSE ActiveOf(j.device)
           status == IF j.sid # None THEN "completed" ELSE "interrupted"
           reason == IF j.sid # None THEN "none" ELSE "esp_reboot"
<1>1. j \in Job /\ j.pc = "stopped_find" /\ j.device \in Device /\ j.at \in Time
  BY HandlerFacts DEF StoppedFind
<1>2. CASE found = {}
  BY <1>2, FinishType, HandlerFacts DEF StoppedFind
<1>3. CASE found # {}
  <2>1. PICK s \in found : Become(h, BeginClose(h, s, j.at, status, reason))
    BY <1>3 DEF StoppedFind
  <2>2. s \in Rows /\ s \in ActiveRows
    BY DEF ActiveOf, ActiveRows
  <2> DEFINE k == BeginClose(h, s, j.at, status, reason)
  <2>3. /\ status \in Closed
        /\ reason \in {"none", "esp_reboot", "lwt", "timeout"}
    BY DEF Closed
  <2>4. GoodJob(k)
    BY <1>1, <2>2, <2>3, BeginCloseType, ClosingType, HandlerFacts
       DEF GoodJob, HandlerSteps
  <2>. QED
    BY <2>1, <2>4, HandlerJobType DEF StoppedFind
<1>. QED
  BY <1>2, <1>3

\* handlePumpDisconnected looks for an active session.
LEMMA DisconnectedFindType ==
  ASSUME TInv, NEW h \in Handler, DisconnectedFind(h) PROVE TInv'
<1> DEFINE j == job[h]
<1>1. j \in Job /\ j.pc = "disconnected_find" /\ j.device \in Device /\ j.at \in Time
  BY HandlerFacts DEF DisconnectedFind
<1>2. CASE ActiveOf(j.device) = {}
  BY <1>2, FinishType, HandlerFacts DEF DisconnectedFind
<1>3. CASE ActiveOf(j.device) # {}
  <2>1. PICK s \in ActiveOf(j.device) :
          Become(h, [j EXCEPT !.pc = "disconnected_last", !.sid = s])
    BY <1>3 DEF DisconnectedFind
  <2>2. s \in Rows /\ s \in SessionId
    BY DEF ActiveOf, ActiveRows, TInv, TypeOK
  <2>3. GoodJob([j EXCEPT !.pc = "disconnected_last", !.sid = s])
    BY <1>1, <2>2 DEF Job, HandlerSteps, GoodJob, Saving
  <2>. QED
    BY <2>1, <2>3, HandlerJobType DEF DisconnectedFind
<1>. QED
  BY <1>2, <1>3

\* handlePumpDisconnected looks for the last sensor data.
LEMMA DisconnectedLastType ==
  ASSUME TInv, NEW h \in Handler, DisconnectedLast(h) PROVE TInv'
<1> DEFINE j == job[h]
           last == lastData[j.device]
           end == IF last > sessions[j.sid].startedAt THEN last ELSE j.at
           k == BeginClose(h, j.sid, end, "interrupted", "lwt")
<1>1. /\ j \in Job /\ j.pc = "disconnected_last" /\ j.device \in Device
      /\ j.at \in Time /\ j.sid \in Rows
  BY HandlerFacts DEF DisconnectedLast, JobOK, Saving
<1>2. end \in Time
  BY <1>1 DEF TInv, TypeOK, Row, Time, NoTime
<1>3. Become(h, k)
  BY DEF DisconnectedLast
<1>4. GoodJob(k)
  BY <1>1, <1>2, BeginCloseType, ClosingType, HandlerFacts
     DEF GoodJob, HandlerSteps, Closed
<1>. QED
  BY <1>3, <1>4, HandlerJobType DEF DisconnectedLast

\* handlePumpStarted inserts the session.
LEMMA StartedInsertType ==
  ASSUME TInv, NEW h \in Handler, StartedInsert(h) PROVE TInv'
<1> DEFINE j == job[h]
<1>1. /\ j \in Job /\ j.pc = "started_insert" /\ j.device \in Device
      /\ j.at \in Time /\ j.number \in Nat \ {0}
  BY HandlerFacts DEF StartedInsert, JobOK, Job
<1> DEFINE row == [device |-> j.device, number |-> j.number,
                   startedAt |-> j.at, cols |-> OpenColumns]
<1>2. PICK s \in SessionId \ Rows :
        /\ sessions' = [r \in Rows \cup {s} |-> IF r = s THEN row ELSE sessions[r]]
        /\ Become(h, [j EXCEPT !.pc = "publish", !.sid = s])
  BY DEF StartedInsert
<1>3. Rows' = Rows \cup {s}
  BY <1>2 DEF Rows
<1>4. row \in Row
  BY <1>1, IdleType DEF Row
<1>5. sessions' \in [Rows' -> Row] /\ Rows' \subseteq SessionId
  BY <1>2, <1>3, <1>4 DEF TInv, TypeOK
<1> DEFINE k == [j EXCEPT !.pc = "publish", !.sid = s]
<1>6. k \in Job /\ k.pc = "publish" /\ k.sid = s /\ k.device = j.device /\ k.at = j.at
  BY <1>1 DEF Job, HandlerSteps
<1>7. job' \in [Actor -> Job] /\ job'[h] = k /\ \A b \in Actor : b # h => JobOK(b)'
  BY <1>2, <1>3, <1>6, HandlerFacts, JobStep
<1>8. JobOK(h)'
  BY <1>1, <1>3, <1>6, <1>7, HandlerFacts DEF JobOK, Saving, HandlerSteps
<1>. QED
  BY <1>3, <1>5, <1>7, <1>8 DEF TInv, TypeOK, StartedInsert

\* The id of the session is published.
LEMMA PublishType ==
  ASSUME TInv, NEW h \in Handler, PublishSessionId(h) PROVE TInv'
<1> DEFINE j == job[h]
<1>1. h \in Actor /\ j.device \in Device /\ j.sid \in Rows /\ j.sid \in SessionId
  BY HandlerFacts DEF PublishSessionId, JobOK, Saving, TInv, TypeOK
<1>2. told' \in [Device -> SUBSET SessionId]
  BY <1>1 DEF PublishSessionId, TInv, TypeOK
<1>3. Rows' = Rows
  BY DEF PublishSessionId, Rows
<1>4. job' \in [Actor -> Job] /\ job'[h] = Idle /\ \A b \in Actor : b # h => JobOK(b)'
  BY <1>1, <1>3, IdleType, JobStep DEF PublishSessionId, Finish
<1>5. JobOK(h)'
  BY <1>4 DEF JobOK, Idle, Saving
<1>. QED
  BY <1>2, <1>3, <1>4, <1>5 DEF TInv, TypeOK, PublishSessionId

\* save() reads the row it is going to update.
LEMMA LoadType ==
  ASSUME TInv, NEW a \in Actor, Load(a) PROVE TInv'
<1> DEFINE j == job[a]
           k == [j EXCEPT !.pc = "update", !.loaded = sessions[j.sid].cols]
<1>1. j \in Job /\ JobOK(a) /\ j.pc = "load" /\ j.sid \in Rows
  BY DEF Load, TInv, TypeOK, JobOK, Saving
<1>2. sessions[j.sid].cols \in Columns
  BY <1>1 DEF TInv, TypeOK, Row
<1>3. /\ k \in Job /\ k.pc = "update" /\ k.sid = j.sid /\ k.held = j.held
      /\ k.device = j.device /\ k.at = j.at
  BY <1>1, <1>2 DEF Job, HandlerSteps
<1>4. Become(a, k)
  BY DEF Load
<1>5. job'[a] = k /\ Rows' = Rows
  BY <1>3, <1>4 DEF Become, TInv, TypeOK, Load, Rows
<1>6. JobOK(a)'
  BY <1>1, <1>3, <1>5 DEF JobOK, Saving, HandlerSteps, CronSteps
<1>. QED
  BY <1>3, <1>4, <1>6, OneJobType DEF Load

\* What is left to do after a close is typed.
LEMMA AfterCloseType ==
  ASSUME TInv, NEW a \in Actor, job[a].pc = "update"
  PROVE  /\ AfterClose(a, job[a]) \in Job
         /\ a = Cron => AfterClose(a, job[a]) \in {Idle, [Idle EXCEPT !.pc = "check", !.at = job[a].at]}
         /\ a # Cron => \/ AfterClose(a, job[a]) = Idle
                        \/ /\ AfterClose(a, job[a]) = [job[a] EXCEPT !.pc = "hours"]
                           /\ EarnsHours(job[a].held)
<1>1. job[a] \in Job /\ JobOK(a)
  BY DEF TInv, TypeOK
<1>2. a = Cron => job[a].at \in Time
  BY <1>1 DEF JobOK
<1>3. [job[a] EXCEPT !.pc = "hours"] \in Job
  BY <1>1 DEF Job, HandlerSteps
<1>4. a = Cron => [Idle EXCEPT !.pc = "check", !.at = job[a].at] \in Job
  BY <1>2, IdleType DEF Job, CronSteps
<1>. QED
  BY <1>3, <1>4, IdleType DEF AfterClose

\* What a save does to the table and the history, whatever its actor does next.
Saves(a) ==
  LET j == job[a] IN
  /\ j.pc = "update"
  /\ sessions' = [sessions EXCEPT ![j.sid].cols = Merge(@, j.held, j.loaded)]
  /\ ledger' = [ledger EXCEPT ![j.sid].closes = @ + 1]

\* The table and the history stay typed.
LEMMA SaveType ==
  ASSUME TInv, NEW a \in Actor, Saves(a)
  PROVE  Rows' = Rows /\ sessions' \in [Rows -> Row] /\ ledger' \in Ledger
<1> DEFINE j == job[a]
<1>1. j \in Job /\ j.pc = "update" /\ j.sid \in Rows /\ j.sid \in SessionId
  BY DEF Saves, TInv, TypeOK, JobOK, Saving
<1>2. /\ sessions[j.sid] \in Row /\ sessions[j.sid].cols \in Columns
      /\ j.held \in Columns /\ j.loaded \in Columns
  BY <1>1 DEF TInv, TypeOK, Row, Job
<1>3. Merge(sessions[j.sid].cols, j.held, j.loaded) \in Columns
  BY <1>2, MergeType
<1>4. Rows' = Rows /\ sessions' \in [Rows -> Row]
  BY <1>1, <1>2, <1>3 DEF Saves, TInv, TypeOK, Rows, Row
<1>5. ledger' \in Ledger
  <2>1. ledger \in Ledger /\ ledger[j.sid].closes \in Nat
    BY <1>1 DEF TInv, TypeOK, Ledger
  <2>2. PICK n \in Nat : n = ledger[j.sid].closes + 1
    BY <2>1
  <2>3. ledger' = [ledger EXCEPT ![j.sid] = [ledger[j.sid] EXCEPT !.closes = n]]
    BY <2>2 DEF Saves
  <2>4. [ledger[j.sid] EXCEPT !.closes = n] \in [closes : Nat, credited : Nat, lost : BOOLEAN]
    BY <1>1, <2>1 DEF Ledger
  <2>. QED
    BY <1>1, <2>1, <2>3, <2>4 DEF Ledger
<1>. QED
  BY <1>4, <1>5

\* save() writes the columns it saw changed.
LEMMA UpdateType ==
  ASSUME TInv, NEW a \in Actor, Update(a) PROVE TInv'
<1> DEFINE j == job[a]
           k == AfterClose(a, j)
<1>1. j \in Job /\ JobOK(a) /\ j.pc = "update" /\ j.sid \in Rows /\ j.sid \in SessionId
  BY DEF Update, TInv, TypeOK, JobOK, Saving
<1>2. Rows' = Rows /\ sessions' \in [Rows -> Row] /\ ledger' \in Ledger
  BY SaveType DEF Update, Saves
<1>3. k \in Job /\ Become(a, k)
  BY <1>1, AfterCloseType DEF Update
<1>4. job' \in [Actor -> Job] /\ job'[a] = k /\ \A b \in Actor : b # a => JobOK(b)'
  BY <1>2, <1>3, JobStep
<1>5. JobOK(a)'
  <2>1. CASE k = Idle
    BY <1>4, <2>1 DEF JobOK, Idle, Saving
  <2>2. CASE a = Cron /\ k = [Idle EXCEPT !.pc = "check", !.at = j.at]
    BY <1>1, <1>4, <2>2 DEF JobOK, Idle, Saving, CronSteps
  <2>3. CASE a # Cron /\ k = [j EXCEPT !.pc = "hours"] /\ EarnsHours(j.held)
    <3>1. /\ k.pc = "hours" /\ k.device = j.device /\ k.at = j.at
          /\ k.sid = j.sid /\ k.held = j.held
      BY <1>1, <2>3 DEF Job
    <3>. QED
      BY <1>1, <1>2, <1>4, <2>3, <3>1 DEF JobOK, Saving, HandlerSteps, EarnsHours
  <2>. QED
    BY <1>1, <2>1, <2>2, <2>3, AfterCloseType
<1>. QED
  BY <1>2, <1>4, <1>5 DEF TInv, TypeOK, Update, Ledger

\* The duration is added to the hours of the device.
LEMMA AddHoursType ==
  ASSUME TInv, NEW h \in Handler, AddHours(h) PROVE TInv'
<1> DEFINE j == job[h]
<1>1. h \in Actor /\ j.sid \in Rows /\ j.sid \in SessionId /\ j.held.duration \in Nat
  BY HandlerFacts DEF AddHours, JobOK, Saving, TInv, TypeOK
<1>2. sessions[j.sid].device \in Device
  BY <1>1 DEF TInv, TypeOK, Row
<1>3. hours' \in [Device -> Nat]
  BY <1>1, <1>2 DEF AddHours, TInv, TypeOK
<1>4. ledger' \in Ledger
  <2>1. ledger \in Ledger /\ ledger[j.sid].credited \in Nat
    BY <1>1 DEF TInv, TypeOK, Ledger
  <2>2. PICK n \in Nat : n = ledger[j.sid].credited + j.held.duration
    BY <1>1, <2>1
  <2>3. ledger' = [ledger EXCEPT ![j.sid] = [ledger[j.sid] EXCEPT !.credited = n]]
    BY <2>2 DEF AddHours
  <2>4. [ledger[j.sid] EXCEPT !.credited = n] \in [closes : Nat, credited : Nat, lost : BOOLEAN]
    BY <1>1, <2>1 DEF Ledger
  <2>. QED
    BY <1>1, <2>1, <2>3, <2>4 DEF Ledger
<1>5. Rows' = Rows
  BY DEF AddHours, Rows
<1>6. job' \in [Actor -> Job] /\ job'[h] = Idle /\ \A b \in Actor : b # h => JobOK(b)'
  BY <1>1, <1>5, IdleType, JobStep DEF AddHours, Finish
<1>7. JobOK(h)'
  BY <1>6 DEF JobOK, Idle, Saving
<1>. QED
  BY <1>3, <1>4, <1>5, <1>6, <1>7 DEF TInv, TypeOK, AddHours, Ledger

\* The cron starts a run.
LEMMA CronTickType ==
  ASSUME TInv, CronTick PROVE TInv'
<1> DEFINE k == [job[Cron] EXCEPT !.pc = "scan"]
<1>1. Cron \in Actor /\ job[Cron] \in Job
  BY DEF Actor, TInv, TypeOK
<1>2. k \in Job /\ k.pc = "scan" /\ Become(Cron, k)
  BY <1>1 DEF Job, CronSteps, CronTick, Goto
<1>3. job'[Cron] = k
  BY <1>1, <1>2 DEF Become, TInv, TypeOK
<1>4. JobOK(Cron)'
  BY <1>2, <1>3 DEF JobOK, CronSteps, Saving
<1>. QED
  BY <1>1, <1>2, <1>4, OneJobType DEF CronTick

\* The cron goes on with its loop, or ends it.
LEMMA CronLoopType ==
  ASSUME TInv, NEW k, Become(Cron, k),
         NEW t \in Time, k \in {Idle, [Idle EXCEPT !.pc = "check", !.at = t]},
         queue' \subseteq Rows, failures' \in Nat,
         UNCHANGED <<now, sessions, hours, lastData, told, ledger>>
  PROVE  TInv'
<1>1. Cron \in Actor /\ Rows' = Rows
  BY DEF Actor, Rows
<1>2. k \in Job
  <2>1. [Idle EXCEPT !.pc = "check", !.at = t] \in Job
    BY IdleType DEF Job, CronSteps
  <2>. QED
    BY <2>1, IdleType
<1>3. job' \in [Actor -> Job] /\ job'[Cron] = k /\ \A b \in Actor : b # Cron => JobOK(b)'
  BY <1>1, <1>2, JobStep
<1>4. JobOK(Cron)'
  <2>1. CASE k = Idle
    BY <1>3, <2>1 DEF JobOK, Saving, Idle
  <2>2. CASE k = [Idle EXCEPT !.pc = "check", !.at = t]
    BY <1>3, <2>2 DEF JobOK, CronSteps, Saving, Idle
  <2>. QED
    BY <2>1, <2>2
<1>. QED
  BY <1>1, <1>3, <1>4 DEF TInv, TypeOK

\* The cron reads the active sessions.
LEMMA CronScanType ==
  ASSUME TInv, CronScan PROVE TInv'
<1>1. now \in Time /\ ActiveRows \subseteq Rows /\ failures \in Nat
  BY DEF TInv, TypeOK, ActiveRows
<1>2. PICK k \in {Idle, [Idle EXCEPT !.pc = "check", !.at = now]} : Become(Cron, k)
  BY DEF CronScan
<1>. QED
  BY <1>1, <1>2, CronLoopType DEF CronScan

\* The cron judges one session.
LEMMA CronCheckType ==
  ASSUME TInv, CronCheck PROVE TInv'
<1>1. /\ Cron \in Actor /\ JobOK(Cron) /\ job[Cron] \in Job /\ job[Cron].at \in Time
      /\ failures \in Nat /\ Rows' = Rows
  BY DEF CronCheck, TInv, TypeOK, Actor, JobOK, Rows
<1>2. PICK s \in queue :
        LET start == sessions[s].startedAt
            last == lastData[sessions[s].device]
            end == IF last > start THEN last ELSE start
            left == queue \ {s}
        IN
        /\ queue' = left
        /\ IF Silent(sessions[s].device, job[Cron].at)
             THEN Become(Cron, BeginClose(Cron, s, end, "interrupted", "timeout"))
             ELSE IF left = {} THEN Finish(Cron) ELSE UNCHANGED job
  BY DEF CronCheck
<1> DEFINE start == sessions[s].startedAt
           last == lastData[sessions[s].device]
           end == IF last > start THEN last ELSE start
           k == BeginClose(Cron, s, end, "interrupted", "timeout")
<1>3. s \in Rows /\ queue' \subseteq Rows
  BY <1>2 DEF TInv, TypeOK
<1>4. CASE Become(Cron, k)
  <2>1. end \in Time
    BY <1>3 DEF TInv, TypeOK, Row, Time, NoTime
  <2>2. /\ k \in Job /\ k.pc = "load" /\ k.sid = s /\ k.at = job[Cron].at
        /\ k.held.endedAt \in Time /\ k.held.status = "interrupted"
        /\ k.held.duration \in Nat
    BY <1>1, <1>3, <2>1, BeginCloseType, ClosingType DEF Closed
  <2>3. job' \in [Actor -> Job] /\ job'[Cron] = k /\ \A b \in Actor : b # Cron => JobOK(b)'
    BY <1>1, <1>4, <2>2, JobStep
  <2>4. JobOK(Cron)'
    BY <1>1, <1>3, <2>2, <2>3 DEF JobOK, CronSteps, Saving, Closed
  <2>. QED
    BY <1>1, <1>3, <2>3, <2>4 DEF TInv, TypeOK, CronCheck
<1>5. CASE Finish(Cron)
  BY <1>1, <1>3, <1>5, CronLoopType DEF CronCheck, Finish
<1>6. CASE UNCHANGED job
  BY <1>1, <1>3, <1>6 DEF CronCheck, TInv, TypeOK, JobOK
<1>. QED
  BY <1>2, <1>4, <1>5, <1>6

\* Failed queries and restarts leave every job typed.
LEMMA FailureType ==
  ASSUME TInv PROVE /\ \A h \in Handler : HandlerFails(h) => TInv'
                    /\ CronFails => TInv'
                    /\ Crash => TInv'
<1>1. ASSUME NEW h \in Handler, HandlerFails(h) PROVE TInv'
  <2>1. h \in Actor /\ Rows' = Rows /\ ledger' \in Ledger /\ failures' \in Nat
    BY <1>1, HandlerFacts, DroppedType DEF HandlerFails, Rows, TInv, TypeOK
  <2>2. job' \in [Actor -> Job] /\ job'[h] = Idle /\ \A b \in Actor : b # h => JobOK(b)'
    BY <1>1, <2>1, IdleType, JobStep DEF HandlerFails, Finish
  <2>3. JobOK(h)'
    BY <2>2 DEF JobOK, Idle, Saving
  <2>. QED
    BY <1>1, <2>1, <2>2, <2>3 DEF HandlerFails, TInv, TypeOK, Ledger
<1>2. ASSUME CronFails PROVE TInv'
  <2>1. JobOK(Cron) /\ queue' \subseteq Rows /\ failures' \in Nat
    BY <1>2 DEF CronFails, TInv, TypeOK, Actor
  <2>2. CASE job[Cron].pc = "scan"
    <3>1. Become(Cron, Idle) /\ now \in Time
      BY <1>2, <2>2 DEF CronFails, TInv, TypeOK
    <3>. QED
      BY <1>2, <2>1, <3>1, CronLoopType DEF CronFails
  <2>3. CASE job[Cron].pc \in {"load", "update", "check"}
    <3>1. job[Cron].at \in Time
      BY <2>1, <2>3 DEF JobOK
    <3>. QED
      BY <1>2, <2>1, <3>1, CronLoopType DEF CronFails
  <2>. QED
    BY <1>2, <2>2, <2>3 DEF CronFails
<1>3. ASSUME Crash PROVE TInv'
  <2>1. Rows' = Rows /\ ledger' \in Ledger /\ failures' \in Nat
    BY <1>3, DroppedType DEF Crash, Rows, TInv, TypeOK
  <2>2. job' \in [Actor -> Job] /\ \A a \in Actor : job'[a] = Idle
    BY <1>3, IdleType DEF Crash
  <2>3. \A a \in Actor : JobOK(a)'
    BY <2>2 DEF JobOK, Idle, Saving
  <2>. QED
    BY <1>3, <2>1, <2>2, <2>3 DEF Crash, TInv, TypeOK, Ledger
<1>. QED
  BY <1>1, <1>2, <1>3

\* Time passes.
LEMMA ClockType ==
  ASSUME TInv PROVE (Tick => TInv') /\ \A d \in Device : StoreReadings(d) => TInv'
<1>1. ASSUME Tick PROVE TInv'
  <2>1. now' \in Time /\ Rows' = Rows
    BY <1>1, ConstantsAssumption DEF Tick, TInv, TypeOK, Time, Rows
  <2>. QED
    BY <1>1, <2>1 DEF Tick, TInv, TypeOK, JobOK
<1>2. ASSUME NEW d \in Device, StoreReadings(d) PROVE TInv'
  <2>1. lastData' \in [Device -> Time \cup {NoTime}] /\ Rows' = Rows
    BY <1>2 DEF StoreReadings, TInv, TypeOK, Rows
  <2>. QED
    BY <1>2, <2>1 DEF StoreReadings, TInv, TypeOK, JobOK
<1>. QED
  BY <1>1, <1>2

\* Every step keeps every variable typed.
LEMMA NextType == TInv /\ [Next]_vars => TInv'
<1> SUFFICES ASSUME TInv, [Next]_vars PROVE TInv'
  OBVIOUS
<1>1. CASE UNCHANGED vars
  BY <1>1 DEF vars, TInv, TypeOK, JobOK, Rows
<1>2. ASSUME NEW h \in Handler, Handle(h) PROVE TInv'
  BY <1>2, HandlerFacts, StartedFindType, StartedMaxType, StartedInsertType, PublishType,
     StoppedFindType, DisconnectedFindType, DisconnectedLastType, LoadType, UpdateType,
     AddHoursType DEF Handle
<1>3. CASE CronRun
  BY <1>3, CronTickType, CronScanType, CronCheckType, LoadType, UpdateType
     DEF CronRun, Actor
<1>. QED
  BY <1>1, <1>2, <1>3, ClockType, EnvironmentType, FailureType DEF Next

\* Every variable keeps its type, and every job in flight is well formed: a
\* save always finds its row, an insert always carries a positive number.
THEOREM TypeCorrect == Spec => []TInv
  BY InitType, NextType, PTL DEF Spec

\* The types alone: every variable of the tracker keeps its type.
THEOREM TypeInvariant == Spec => []TypeOK
<1>1. TInv => TypeOK
  BY DEF TInv
<1>. QED
  BY <1>1, TypeCorrect, PTL

-----------------------------------------------------------------------------
(* Operating hours.  The invariant follows a session from its insertion     *)
(* through its first close: until then its row is untouched, so whoever     *)
(* closes it first compared it with an untouched row and writes every       *)
(* column; from then on the one handler that may still add its hours holds  *)
(* the very columns of the row.                                             *)

Earning(a, s) == job[a].pc = "hours" /\ job[a].sid = s
Updating(a, s) == job[a].pc = "update" /\ job[a].sid = s

Untouched(s) ==
  /\ sessions[s].cols = OpenColumns
  /\ ledger[s].credited = 0
  /\ \A a \in Actor : Updating(a, s) => job[a].loaded = OpenColumns

ClosedOnce(s) ==
  /\ \A a, b \in Actor : Earning(a, s) /\ Earning(b, s) => a = b
  /\ \A a \in Actor : Earning(a, s) =>
       job[a].held = sessions[s].cols /\ ledger[s].credited = 0
  /\ (\A a \in Actor : ~Earning(a, s)) /\ ~ledger[s].lost =>
       ledger[s].credited =
         IF Status(s) = "completed" THEN sessions[s].cols.duration ELSE 0

CreditOK(s) ==
  /\ s \notin Rows => ledger[s].closes = 0 /\ ledger[s].credited = 0
  /\ \A a \in Actor : Earning(a, s) => ledger[s].closes # 0
  /\ s \in Rows /\ ledger[s].closes = 0 => Untouched(s)
  /\ s \in Rows /\ ledger[s].closes = 1 => ClosedOnce(s)

CreditInv == \A s \in SessionId : CreditOK(s)

\* No session, no hours.
LEMMA InitCredit == Init => CreditInv
  BY DEF Init, CreditInv, CreditOK, Rows, Earning, Idle

\* The inductive invariant implies SessionCredit.
LEMMA CreditImplies == TInv /\ CreditInv => SessionCredit
<1> SUFFICES ASSUME TInv, CreditInv, NEW s \in Rows,
                    ledger[s].closes <= 1, ~ledger[s].lost
             PROVE  ledger[s].credited =
                      IF Status(s) = "completed" /\ ~Pending(s)
                        THEN sessions[s].cols.duration ELSE 0
  BY DEF SessionCredit
<1>1. s \in SessionId /\ CreditOK(s) /\ ledger[s].closes \in Nat
  BY DEF TInv, TypeOK, CreditInv
<1>2. Pending(s) <=> \E a \in Actor : Earning(a, s)
  BY DEF Pending, Earning, Actor, TInv, JobOK, CronSteps
<1>3. CASE ledger[s].closes = 0
  BY <1>1, <1>3 DEF CreditOK, Untouched, Status, OpenColumns
<1>4. CASE ledger[s].closes = 1
  BY <1>1, <1>2, <1>4 DEF CreditOK, ClosedOnce
<1>. QED
  BY <1>1, <1>3, <1>4

\* Steps that neither write a row nor start or end an earning.
LEMMA QuietCredit ==
  ASSUME CreditInv, UNCHANGED <<sessions, ledger>>,
         \A a \in Actor : job'[a].pc \in {"update", "hours"} => job'[a] = job[a],
         \A a \in Actor : job[a].pc = "hours" => job'[a] = job[a]
  PROVE  CreditInv'
<1> SUFFICES ASSUME NEW s \in SessionId PROVE CreditOK(s)'
  BY DEF CreditInv
<1>1. CreditOK(s) /\ Rows' = Rows
  BY DEF CreditInv, Rows
<1>2. \A a \in Actor : Earning(a, s)' <=> Earning(a, s)
  BY DEF Earning
<1>3. \A a \in Actor : Updating(a, s)' => Updating(a, s) /\ job'[a] = job[a]
  BY DEF Updating
<1>4. \A a \in Actor : Earning(a, s) => job'[a] = job[a]
  BY DEF Earning
<1>5. Untouched(s) => Untouched(s)'
  BY <1>3 DEF Untouched
<1>6. ClosedOnce(s) => ClosedOnce(s)'
  BY <1>2, <1>4 DEF ClosedOnce, Status
<1>. QED
  BY <1>1, <1>2, <1>5, <1>6 DEF CreditOK

\* One job moves between steps other than "update" and "hours".
LEMMA MoveCredit ==
  ASSUME TInv, CreditInv, UNCHANGED <<sessions, ledger>>,
         NEW a \in Actor, NEW k, Become(a, k),
         k.pc \notin {"update", "hours"}, job[a].pc # "hours"
  PROVE  CreditInv'
<1>1. job' = [job EXCEPT ![a] = k] /\ job \in [Actor -> Job]
  BY DEF Become, TInv, TypeOK
<1>2. \A b \in Actor : job'[b] = IF b = a THEN k ELSE job[b]
  BY <1>1
<1>3. \A b \in Actor : job'[b].pc \in {"update", "hours"} => job'[b] = job[b]
  BY <1>2
<1>4. \A b \in Actor : job[b].pc = "hours" => job'[b] = job[b]
  BY <1>2
<1>. QED
  BY <1>3, <1>4, QuietCredit

\* A handler that only moves on disturbs no credit.
LEMMA HandlerMovesCredit ==
  ASSUME TInv, CreditInv, NEW h \in Handler,
         \/ StartedFind(h) \/ StartedMax(h) \/ PublishSessionId(h)
         \/ StoppedFind(h) \/ DisconnectedFind(h) \/ DisconnectedLast(h)
  PROVE  CreditInv'
<1>1. h \in Actor /\ job[h] \in Job
  BY HandlerFacts
<1>2. Idle.pc = "idle"
  BY DEF Idle
<1>3. CASE StartedFind(h)
  <2>1. PICK k : Become(h, k) /\ k.pc \in {"started_max", "publish"}
    <3>1. \A s : [job[h] EXCEPT !.pc = "publish", !.sid = s].pc = "publish"
      BY <1>1 DEF Job
    <3>2. [job[h] EXCEPT !.pc = "started_max"].pc = "started_max"
      BY <1>1 DEF Job
    <3>. QED
      BY <1>3, <3>1, <3>2 DEF StartedFind, Goto
  <2>. QED
    BY <1>1, <1>3, <2>1, MoveCredit DEF StartedFind
<1>4. CASE StartedMax(h)
  <2>1. PICK k : Become(h, k) /\ k.pc = "started_insert"
    <3>1. \A m : [job[h] EXCEPT !.pc = "started_insert", !.number = m + 1].pc = "started_insert"
      BY <1>1 DEF Job
    <3>. QED
      BY <1>4, <3>1 DEF StartedMax
  <2>. QED
    BY <1>1, <1>4, <2>1, MoveCredit DEF StartedMax
<1>5. CASE PublishSessionId(h)
  BY <1>1, <1>2, <1>5, MoveCredit DEF PublishSessionId, Finish
<1>6. \A s, end, status, reason : BeginClose(h, s, end, status, reason).pc = "load"
  BY <1>1 DEF Job, BeginClose
<1>7. CASE StoppedFind(h)
  <2>1. PICK k : Become(h, k) /\ k.pc \in {"idle", "load"}
    BY <1>2, <1>6, <1>7 DEF StoppedFind, Finish
  <2>. QED
    BY <1>1, <1>7, <2>1, MoveCredit DEF StoppedFind
<1>8. CASE DisconnectedFind(h)
  <2>1. PICK k : Become(h, k) /\ k.pc \in {"idle", "disconnected_last"}
    <3>1. \A s : [job[h] EXCEPT !.pc = "disconnected_last", !.sid = s].pc = "disconnected_last"
      BY <1>1 DEF Job
    <3>. QED
      BY <1>2, <1>8, <3>1 DEF DisconnectedFind, Finish
  <2>. QED
    BY <1>1, <1>8, <2>1, MoveCredit DEF DisconnectedFind
<1>9. CASE DisconnectedLast(h)
  BY <1>1, <1>6, <1>9, MoveCredit DEF DisconnectedLast
<1>. QED
  BY <1>3, <1>4, <1>5, <1>7, <1>8, <1>9

\* A message that arrives disturbs no credit.
LEMMA ReceiveCredit ==
  ASSUME TInv, CreditInv, NEW h \in Handler, NEW d \in Device, Environment(h, d)
  PROVE  CreditInv'
<1>1. PICK step \in {"started_find", "stopped_find", "disconnected_find"},
             sid \in SessionId \cup {None} :
        Receive(h, d, step, sid)
  <2>1. told[d] \subseteq SessionId
    BY DEF TInv, TypeOK
  <2>. QED
    BY <2>1 DEF Environment, PumpOnReported, PumpOffReported, LastWillReceived
<1> DEFINE k == [Idle EXCEPT !.pc = step, !.device = d, !.at = now, !.sid = sid]
<1>2. k.pc = step
  BY DEF Idle
<1>. QED
  BY <1>1, <1>2, HandlerFacts, MoveCredit DEF Receive

\* The cron that only reads disturbs no credit.
LEMMA CronMovesCredit ==
  ASSUME TInv, CreditInv, CronTick \/ CronScan \/ CronCheck \/ CronFails
  PROVE  CreditInv'
<1>1. Cron \in Actor /\ job[Cron] \in Job /\ job[Cron].pc # "hours"
  BY DEF Actor, TInv, TypeOK, JobOK, CronSteps
<1>2. CASE UNCHANGED job
  <2>1. UNCHANGED <<sessions, ledger>>
    BY DEF CronTick, CronScan, CronCheck, CronFails
  <2>. QED
    BY <1>2, <2>1, QuietCredit
<1>3. CASE \E k : Become(Cron, k) /\ k.pc \in {"idle", "scan", "check", "load"}
  <2>1. UNCHANGED <<sessions, ledger>>
    BY DEF CronTick, CronScan, CronCheck, CronFails
  <2>. QED
    BY <1>1, <1>3, <2>1, MoveCredit
<1>4. /\ Idle.pc = "idle"
      /\ \A t : [Idle EXCEPT !.pc = "check", !.at = t].pc = "check"
  BY DEF Idle
<1>5. /\ [job[Cron] EXCEPT !.pc = "scan"].pc = "scan"
      /\ \A s, end, status, reason : BeginClose(Cron, s, end, status, reason).pc = "load"
  BY <1>1 DEF Job, BeginClose
<1>6. CASE CronTick
  BY <1>3, <1>5, <1>6 DEF CronTick, Goto
<1>7. CASE CronScan
  <2>1. CASE ActiveRows = {}
    BY <1>3, <1>4, <1>7, <2>1 DEF CronScan
  <2>2. CASE ActiveRows # {}
    BY <1>3, <1>4, <1>7, <2>2 DEF CronScan
  <2>. QED
    BY <2>1, <2>2
<1>8. CASE CronCheck
  <2>1. PICK s, end :
          \/ Become(Cron, BeginClose(Cron, s, end, "interrupted", "timeout"))
          \/ Become(Cron, Idle)
          \/ UNCHANGED job
    BY <1>8 DEF CronCheck, Finish
  <2>. QED
    BY <1>2, <1>3, <1>4, <1>5, <2>1
<1>9. CASE CronFails
  <2>1. CASE queue' = {}
    BY <1>3, <1>4, <1>9, <2>1 DEF CronFails
  <2>2. CASE queue' # {}
    BY <1>3, <1>4, <1>9, <2>2 DEF CronFails
  <2>. QED
    BY <2>1, <2>2
<1>. QED
  BY <1>6, <1>7, <1>8, <1>9

\* A new session has no close and no hours.
LEMMA InsertCredit ==
  ASSUME TInv, CreditInv, NEW h \in Handler, StartedInsert(h) PROVE CreditInv'
<1>1. PICK r \in SessionId \ Rows :
        /\ sessions' = [s \in Rows \cup {r} |->
                          IF s = r
                            THEN [device |-> job[h].device, number |-> job[h].number,
                                  startedAt |-> job[h].at, cols |-> OpenColumns]
                            ELSE sessions[s]]
        /\ Become(h, [job[h] EXCEPT !.pc = "publish", !.sid = r])
  BY DEF StartedInsert
<1>2. /\ Rows' = Rows \cup {r} /\ ledger' = ledger
      /\ sessions'[r].cols = OpenColumns
      /\ \A s \in Rows : sessions'[s] = sessions[s]
  BY <1>1 DEF Rows, StartedInsert
<1>3. /\ h \in Actor /\ job[h] \in Job /\ job \in [Actor -> Job]
      /\ job[h].pc = "started_insert"
  BY HandlerFacts DEF TInv, TypeOK, StartedInsert
<1>4. \A a \in Actor : IF a = h THEN job'[a].pc = "publish" ELSE job'[a] = job[a]
  BY <1>1, <1>3 DEF Become, Job
<1>5. \A a \in Actor : ~Earning(a, r) /\ ~Updating(a, r)
  BY DEF Earning, Updating, TInv, JobOK, Saving
<1> SUFFICES ASSUME NEW s \in SessionId PROVE CreditOK(s)'
  BY DEF CreditInv
<1>6. CreditOK(s) /\ CreditOK(r)
  BY DEF CreditInv
<1>7. \A a \in Actor : /\ Earning(a, s)' <=> Earning(a, s)
                       /\ Updating(a, s)' <=> Updating(a, s)
                       /\ Updating(a, s) \/ Earning(a, s) => job'[a] = job[a]
  BY <1>3, <1>4 DEF Earning, Updating
<1>8. CASE s = r
  BY <1>2, <1>5, <1>6, <1>7, <1>8 DEF CreditOK, Untouched
<1>9. CASE s # r
  <2>1. s \in Rows => sessions'[s] = sessions[s]
    BY <1>2
  <2>2. s \in Rows /\ Untouched(s) => Untouched(s)'
    BY <1>2, <1>7, <2>1 DEF Untouched
  <2>3. s \in Rows /\ ClosedOnce(s) => ClosedOnce(s)'
    BY <1>2, <1>7, <2>1 DEF ClosedOnce, Status
  <2>. QED
    BY <1>2, <1>6, <1>7, <1>9, <2>2, <2>3 DEF CreditOK
<1>. QED
  BY <1>8, <1>9

\* Reading a row before a save disturbs no credit.
LEMMA LoadCredit ==
  ASSUME TInv, CreditInv, NEW a \in Actor, Load(a) PROVE CreditInv'
<1> DEFINE k == [job[a] EXCEPT !.pc = "update", !.loaded = sessions[job[a].sid].cols]
<1>1. /\ job[a] \in Job /\ job \in [Actor -> Job] /\ job[a].pc = "load"
      /\ UNCHANGED <<sessions, ledger>> /\ Rows' = Rows
  BY DEF TInv, TypeOK, Load, Rows
<1>2. /\ k.pc = "update" /\ k.sid = job[a].sid /\ k.loaded = sessions[job[a].sid].cols
  BY <1>1 DEF Job
<1>3. \A b \in Actor : job'[b] = IF b = a THEN k ELSE job[b]
  BY <1>1 DEF Load, Become
<1> SUFFICES ASSUME NEW s \in SessionId PROVE CreditOK(s)'
  BY DEF CreditInv
<1>4. CreditOK(s)
  BY DEF CreditInv
<1>5. \A b \in Actor : /\ Earning(b, s)' <=> Earning(b, s)
                       /\ Earning(b, s) => job'[b] = job[b]
  BY <1>1, <1>2, <1>3 DEF Earning
<1>6. ASSUME Untouched(s) PROVE Untouched(s)'
  <2>1. ASSUME NEW b \in Actor, Updating(b, s)' PROVE job'[b].loaded = OpenColumns
    <3>1. CASE b = a
      <4>1. job'[b] = k /\ job[a].sid = s
        BY <1>2, <1>3, <2>1, <3>1 DEF Updating
      <4>. QED
        BY <1>2, <1>6, <4>1 DEF Untouched
    <3>2. CASE b # a
      BY <1>3, <1>6, <2>1, <3>2 DEF Untouched, Updating
    <3>. QED
      BY <3>1, <3>2
  <2>. QED
    BY <1>1, <1>6, <2>1 DEF Untouched
<1>7. ClosedOnce(s) => ClosedOnce(s)'
  BY <1>1, <1>5 DEF ClosedOnce, Status
<1>. QED
  BY <1>1, <1>4, <1>5, <1>6, <1>7 DEF CreditOK

\* A save that compared a closing entity with an untouched row writes all of it.
LEMMA FirstMerge ==
  ASSUME NEW held \in Columns, held.endedAt \in Time, held.status \in Closed,
         held.duration \in Nat
  PROVE  Merge(OpenColumns, held, OpenColumns) = held
  BY ConstantsAssumption
     DEF Merge, OpenColumns, Columns, Closed, Time, NoTime, NoDuration

\* A close keeps the invariant: hours are due exactly when it completes the session.
LEMMA UpdateCredit ==
  ASSUME TInv, CreditInv, NEW a \in Actor, Update(a) PROVE CreditInv'
<1> DEFINE j == job[a]
           k == AfterClose(a, j)
           cols == Merge(sessions[j.sid].cols, j.held, j.loaded)
<1>1. /\ j \in Job /\ j.pc = "update" /\ j.sid \in Rows /\ j.sid \in SessionId
      /\ j.held \in Columns /\ j.held.endedAt \in Time
      /\ j.held.status \in Closed /\ j.held.duration \in Nat
  BY DEF Update, TInv, TypeOK, JobOK, Saving, Job
<1>2. \A b \in Actor : job'[b] = IF b = a THEN k ELSE job[b]
  BY DEF Update, Become, TInv, TypeOK
<1>3. \/ k.pc \in {"idle", "check"} /\ (a = Cron \/ ~EarnsHours(j.held))
      \/ /\ k.pc = "hours" /\ k.sid = j.sid /\ k.held = j.held
         /\ EarnsHours(j.held)
  BY <1>1 DEF AfterClose, Idle, Job
<1>4. /\ Rows' = Rows
      /\ sessions'[j.sid].cols = cols
      /\ \A s \in Rows : s # j.sid => sessions'[s] = sessions[s]
  BY <1>1 DEF Update, TInv, TypeOK, Rows, Row
<1>5. /\ ledger'[j.sid].closes = ledger[j.sid].closes + 1
      /\ ledger'[j.sid].credited = ledger[j.sid].credited
      /\ ledger'[j.sid].lost = ledger[j.sid].lost
      /\ \A s \in SessionId : s # j.sid => ledger'[s] = ledger[s]
      /\ ledger[j.sid].closes \in Nat
  BY <1>1 DEF Update, TInv, TypeOK
<1> SUFFICES ASSUME NEW s \in SessionId PROVE CreditOK(s)'
  BY DEF CreditInv
<1>6. CreditOK(s)
  BY DEF CreditInv
<1>7. CASE s # j.sid
  <2>1. \A b \in Actor : /\ Earning(b, s)' <=> Earning(b, s)
                         /\ Earning(b, s) => job'[b] = job[b]
                         /\ Updating(b, s)' => Updating(b, s) /\ job'[b] = job[b]
    BY <1>1, <1>2, <1>3, <1>7 DEF Earning, Updating
  <2>2. ledger'[s] = ledger[s] /\ (s \in Rows => sessions'[s] = sessions[s])
    BY <1>4, <1>5, <1>7
  <2>3. s \in Rows /\ Untouched(s) => Untouched(s)'
    BY <2>1, <2>2 DEF Untouched
  <2>4. s \in Rows /\ ClosedOnce(s) => ClosedOnce(s)'
    BY <2>1, <2>2 DEF ClosedOnce, Status
  <2>. QED
    BY <1>4, <1>6, <2>1, <2>2, <2>3, <2>4 DEF CreditOK
<1>8. CASE s = j.sid
  <2>1. ledger'[s].closes # 0 /\ (ledger'[s].closes = 1 => ledger[s].closes = 0)
    BY <1>5, <1>8
  <2>2. ASSUME ledger[s].closes = 0 PROVE ClosedOnce(s)'
    <3>1. /\ Untouched(s) /\ j.loaded = OpenColumns
          /\ \A b \in Actor : ~Earning(b, s)
      BY <1>1, <1>6, <1>8, <2>2 DEF CreditOK, Untouched, Updating
    <3>2. sessions'[s].cols = j.held
      BY <1>1, <1>4, <1>8, <3>1, FirstMerge DEF Untouched
    <3>3. \A b \in Actor : Earning(b, s)' => b = a /\ job'[b].held = j.held
      BY <1>2, <1>3, <3>1 DEF Earning
    <3>4. ledger'[s].credited = 0
      BY <1>5, <1>8, <3>1 DEF Untouched
    <3>5. ASSUME \A b \in Actor : ~Earning(b, s)'
          PROVE  0 = IF j.held.status = "completed" THEN j.held.duration ELSE 0
      <4>1. a = Cron => j.held.status = "interrupted"
        BY <1>1 DEF TInv, JobOK, Saving
      <4>2. a # Cron => ~EarnsHours(j.held)
        BY <1>2, <1>3, <1>8, <3>5 DEF Earning
      <4>. QED
        BY <1>1, <4>1, <4>2 DEF EarnsHours
    <3>. QED
      BY <3>2, <3>3, <3>4, <3>5 DEF ClosedOnce, Status
  <2>. QED
    BY <1>1, <1>4, <1>8, <2>1, <2>2 DEF CreditOK
<1>. QED
  BY <1>7, <1>8

\* Hours that are due are added once.
LEMMA AddHoursCredit ==
  ASSUME TInv, CreditInv, NEW h \in Handler, AddHours(h) PROVE CreditInv'
<1> DEFINE j == job[h]
<1>1. /\ h \in Actor /\ j.pc = "hours" /\ j.sid \in Rows /\ j.sid \in SessionId
      /\ j.held.status = "completed" /\ j.held.duration \in Nat
  BY HandlerFacts DEF AddHours, JobOK, Saving, TInv, TypeOK
<1>2. \A b \in Actor : job'[b] = IF b = h THEN Idle ELSE job[b]
  BY DEF AddHours, Finish, Become, TInv, TypeOK
<1>3. sessions' = sessions /\ Rows' = Rows
  BY DEF AddHours, Rows
<1>4. /\ ledger'[j.sid].closes = ledger[j.sid].closes
      /\ ledger'[j.sid].credited = ledger[j.sid].credited + j.held.duration
      /\ \A s \in SessionId : s # j.sid => ledger'[s] = ledger[s]
  BY <1>1 DEF AddHours, TInv, TypeOK
<1> SUFFICES ASSUME NEW s \in SessionId PROVE CreditOK(s)'
  BY DEF CreditInv
<1>5. CreditOK(s)
  BY DEF CreditInv
<1>6. \A b \in Actor : /\ Earning(b, s)' <=> Earning(b, s) /\ b # h
                       /\ Updating(b, s)' <=> Updating(b, s)
                       /\ b # h => job'[b] = job[b]
  BY <1>1, <1>2 DEF Earning, Updating, Idle
<1>7. CASE s # j.sid
  <2>1. ledger'[s] = ledger[s] /\ ~Earning(h, s) /\ ~Updating(h, s)
    BY <1>1, <1>4, <1>7 DEF Earning, Updating
  <2>2. Untouched(s) => Untouched(s)'
    BY <1>3, <1>6, <2>1 DEF Untouched
  <2>3. ClosedOnce(s) => ClosedOnce(s)'
    BY <1>3, <1>6, <2>1 DEF ClosedOnce, Status
  <2>. QED
    BY <1>3, <1>5, <1>6, <2>1, <2>2, <2>3 DEF CreditOK
<1>8. CASE s = j.sid
  <2>1. Earning(h, s)
    BY <1>1, <1>8 DEF Earning
  <2>2. ledger[s].closes # 0
    BY <1>1, <1>5, <2>1 DEF CreditOK
  <2>3. ASSUME ledger[s].closes = 1 PROVE ClosedOnce(s)'
    <3>1. /\ \A b \in Actor : Earning(b, s) => b = h
          /\ j.held = sessions[s].cols
          /\ ledger[s].credited = 0
      BY <1>1, <1>5, <1>8, <2>1, <2>3 DEF CreditOK, ClosedOnce
    <3>2. \A b \in Actor : ~Earning(b, s)'
      BY <1>6, <3>1
    <3>3. ledger'[s].credited = sessions[s].cols.duration
      BY <1>1, <1>4, <1>8, <3>1
    <3>. QED
      BY <1>1, <1>3, <3>1, <3>2, <3>3 DEF ClosedOnce, Status
  <2>. QED
    BY <1>1, <1>3, <1>4, <1>8, <2>2, <2>3 DEF CreditOK
<1>. QED
  BY <1>7, <1>8

\* Handlers that die: their earnings are marked lost.
LEMMA DropCredit ==
  ASSUME TInv, CreditInv, NEW J \in SUBSET Actor, ledger' = Dropped(J),
         sessions' = sessions,
         \A a \in Actor : job'[a] = IF a \in J THEN Idle ELSE job[a]
  PROVE  CreditInv'
<1> SUFFICES ASSUME NEW s \in SessionId PROVE CreditOK(s)'
  BY DEF CreditInv
<1>1. CreditOK(s) /\ Rows' = Rows
  BY DEF CreditInv, Rows
<1>2. \A b \in Actor : /\ Earning(b, s)' <=> Earning(b, s) /\ b \notin J
                       /\ Updating(b, s)' <=> Updating(b, s) /\ b \notin J
                       /\ b \notin J => job'[b] = job[b]
  BY DEF Earning, Updating, Idle
<1>3. /\ ledger'[s].closes = ledger[s].closes
      /\ ledger'[s].credited = ledger[s].credited
      /\ ~ledger'[s].lost => ~ledger[s].lost /\ \A a \in J : ~Earning(a, s)
  BY DEF Dropped, Earning, TInv, TypeOK
<1>4. Untouched(s) => Untouched(s)'
  BY <1>2, <1>3 DEF Untouched
<1>5. ClosedOnce(s) => ClosedOnce(s)'
  BY <1>2, <1>3 DEF ClosedOnce, Status
<1>. QED
  BY <1>1, <1>2, <1>3, <1>4, <1>5 DEF CreditOK

\* A restart loses the hours that were due, and the history says so.
LEMMA CrashCredit ==
  ASSUME TInv, CreditInv, Crash PROVE CreditInv'
<1>1. Dropped(Handler) = Dropped(Actor)
  <2>1. job[Cron].pc # "hours"
    BY DEF Actor, TInv, JobOK, CronSteps
  <2>. QED
    BY <2>1 DEF Dropped, Actor
<1>. QED
  BY <1>1, DropCredit DEF Crash

\* A failed query loses the hours that were due, and the history says so.
LEMMA HandlerFailsCredit ==
  ASSUME TInv, CreditInv, NEW h \in Handler, HandlerFails(h) PROVE CreditInv'
<1>1. {h} \in SUBSET Actor
  BY HandlerFacts
<1>2. \A a \in Actor : job'[a] = IF a \in {h} THEN Idle ELSE job[a]
  BY DEF HandlerFails, Finish, Become, TInv, TypeOK
<1>. QED
  BY <1>1, <1>2, DropCredit DEF HandlerFails

\* Every step keeps the invariant of the credit.
LEMMA NextCredit == TInv /\ CreditInv /\ [Next]_vars => CreditInv'
<1> SUFFICES ASSUME TInv, CreditInv, [Next]_vars PROVE CreditInv'
  OBVIOUS
<1>1. CASE UNCHANGED vars \/ Tick \/ \E d \in Device : StoreReadings(d)
  BY <1>1, QuietCredit DEF vars, Tick, StoreReadings
<1>2. ASSUME NEW h \in Handler, Handle(h) PROVE CreditInv'
  BY <1>2, HandlerFacts, HandlerMovesCredit, InsertCredit, LoadCredit, UpdateCredit,
     AddHoursCredit DEF Handle
<1>3. CASE CronRun \/ CronFails
  BY <1>3, CronMovesCredit, LoadCredit, UpdateCredit DEF CronRun, Actor
<1>. QED
  BY <1>1, <1>2, <1>3, ReceiveCredit, HandlerFailsCredit, CrashCredit DEF Next

\* Operating hours follow the sessions unless closes overlap or a handler dies
\* between its two writes.
THEOREM HoursFollowSessions == Spec => []SessionCredit
  BY TypeCorrect, InitCredit, NextCredit, CreditImplies, PTL DEF Spec

-----------------------------------------------------------------------------
(* The column of a device is the sum of what its sessions earned, whatever  *)
(* happened to them; DeviceHours follows from what each session earned.     *)

Credits == [s \in SessionId |-> ledger[s].credited]

HoursInv == \A d \in Device : hours[d] = SumFunctionOnSet(Credits, RowsOf(d))

\* A step adds one row at most, so the rows are finitely many.
FiniteRows == IsFiniteSet(Rows)

LEMMA NextFinite == FiniteRows /\ [Next]_vars => FiniteRows'
<1> SUFFICES ASSUME FiniteRows, [Next]_vars PROVE FiniteRows'
  OBVIOUS
<1>1. CASE Rows' = Rows
  BY <1>1 DEF FiniteRows
<1>2. ASSUME NEW h \in Handler, StartedInsert(h) PROVE FiniteRows'
  <2>1. PICK r : Rows' = Rows \cup {r}
    BY <1>2 DEF StartedInsert, Rows
  <2>. QED
    BY <2>1, FS_AddElement DEF FiniteRows
<1>3. CASE UNCHANGED sessions
  BY <1>1, <1>3 DEF Rows
<1>4. ASSUME NEW a, Update(a) PROVE FiniteRows'
  BY <1>1, <1>4 DEF Update, Rows
<1>5. ASSUME NEW h \in Handler, Handle(h) PROVE FiniteRows'
  BY <1>2, <1>3, <1>4, <1>5 DEF Handle, StartedFind, StartedMax, PublishSessionId,
     StoppedFind, DisconnectedFind, DisconnectedLast, Load, AddHours
<1>6. CASE CronRun \/ CronFails
  BY <1>3, <1>4, <1>6 DEF CronRun, CronTick, CronScan, CronCheck, CronFails, Load
<1>7. ASSUME NEW h \in Handler, NEW d \in Device, Environment(h, d) PROVE FiniteRows'
  BY <1>3, <1>7 DEF Environment, PumpOnReported, PumpOffReported, LastWillReceived, Receive
<1>. QED
  BY <1>3, <1>5, <1>6, <1>7 DEF Next, vars, Tick, StoreReadings, HandlerFails, Crash

\* The sessions of a device are finitely many, and what they earned is typed.
LEMMA CreditsAdd ==
  ASSUME TInv, FiniteRows, NEW d \in Device
  PROVE  /\ IsFiniteSet(RowsOf(d)) /\ RowsOf(d) \subseteq SessionId
         /\ \A s \in SessionId : Credits[s] = ledger[s].credited /\ Credits[s] \in Int
<1>1. RowsOf(d) \subseteq Rows /\ Rows \subseteq SessionId
  BY DEF RowsOf, TInv, TypeOK
<1>2. IsFiniteSet(RowsOf(d))
  BY <1>1, FS_Subset DEF FiniteRows
<1>3. \A s \in SessionId : Credits[s] = ledger[s].credited /\ Credits[s] \in Int
  BY DEF Credits, TInv, TypeOK
<1>. QED
  BY <1>1, <1>2, <1>3

\* No session, no hours.
LEMMA InitHours == Init => FiniteRows /\ HoursInv
<1> SUFFICES ASSUME Init PROVE FiniteRows /\ HoursInv
  OBVIOUS
<1>1. Rows = {} /\ \A d \in Device : RowsOf(d) = {}
  BY DEF Init, Rows, RowsOf
<1>2. \A d \in Device : hours[d] = 0
  BY DEF Init
<1>. QED
  BY <1>1, <1>2, FS_EmptySet, SumEmpty DEF FiniteRows, HoursInv

\* The inductive invariant implies DeviceHours.
LEMMA HoursImply == TInv /\ CreditInv /\ FiniteRows /\ HoursInv => DeviceHours
<1> SUFFICES ASSUME TInv, CreditInv, FiniteRows, HoursInv, NEW d \in Device,
                    \A s \in RowsOf(d) :
                      ledger[s].closes <= 1 /\ ~ledger[s].lost /\ ~Pending(s)
             PROVE  hours[d] = MapThenSumSet(LAMBDA s : sessions[s].cols.duration,
                                             {s \in RowsOf(d) : Status(s) = "completed"})
  BY DEF DeviceHours
<1> DEFINE T == {s \in RowsOf(d) : Status(s) = "completed"}
           durations == [s \in SessionId |-> sessions[s].cols.duration]
<1>1. /\ IsFiniteSet(RowsOf(d)) /\ RowsOf(d) \subseteq SessionId
      /\ \A s \in SessionId : Credits[s] = ledger[s].credited /\ Credits[s] \in Int
      /\ hours[d] = SumFunctionOnSet(Credits, RowsOf(d))
  BY CreditsAdd DEF HoursInv
<1>2. \A s \in RowsOf(d) :
        Credits[s] = IF Status(s) = "completed" THEN sessions[s].cols.duration ELSE 0
  <2>1. SessionCredit /\ RowsOf(d) \subseteq Rows
    BY CreditImplies DEF RowsOf
  <2>. QED
    BY <1>1, <2>1 DEF SessionCredit
<1>3. T \in SUBSET RowsOf(d) /\ IsFiniteSet(T)
  BY <1>1, FS_Subset
<1>4. SumFunctionOnSet(Credits, RowsOf(d)) = SumFunctionOnSet(Credits, T)
  <2>1. \A s \in RowsOf(d) \ T : Credits[s] = 0
    BY <1>2
  <2>2. \A s \in RowsOf(d) : Credits[s] \in Int
    BY <1>1
  <2>. HIDE DEF T
  <2>. QED
    BY <1>1, <1>3, <2>1, <2>2, SumZeros
<1>5. SumFunctionOnSet(durations, T) = SumFunctionOnSet(Credits, T)
  <2>1. \A s \in T : Credits[s] \in Int /\ durations[s] = Credits[s]
    BY <1>1, <1>2
  <2>. HIDE DEF T, durations
  <2>. QED
    BY <1>3, <2>1, SumSame
<1>6. MapThenSumSet(LAMBDA s : sessions[s].cols.duration, T) = SumFunctionOnSet(durations, T)
  <2> HIDE DEF T
  <2> DEFINE h == CHOOSE k : k = [V \in SUBSET T |->
                    IF V = {} THEN 0
                    ELSE sessions[CHOOSE s \in V : TRUE].cols.duration
                           + k[V \ {CHOOSE s \in V : TRUE}]]
  <2>1. MapThenSumSet(LAMBDA s : sessions[s].cols.duration, T) = h[T]
    BY DEF MapThenSumSet, MapThenFoldSet
  <2>2. \A V \in SUBSET T : V # {} =>
          durations[CHOOSE s \in V : TRUE] = sessions[CHOOSE s \in V : TRUE].cols.duration
    BY <1>1, <1>3
  <2>3. \A s \in T : durations[s] \in Int
    BY <1>1, <1>2, <1>3 DEF T
  <2>4. PICK sums : Unfolds(sums, durations, T)
    <3>. HIDE DEF durations
    <3>. QED
      BY <1>3, <2>3, SumUnfolds
  <2>5. Unfolds(h, durations, T)
    <3> HIDE DEF durations
    <3> DEFINE Sums(k) == k = [V \in SUBSET T |->
                      IF V = {} THEN 0
                      ELSE sessions[CHOOSE s \in V : TRUE].cols.duration
                             + k[V \ {CHOOSE s \in V : TRUE}]]
    <3>1. Sums(sums)
      BY <2>2, <2>4 DEF Unfolds
    <3>2. Sums(h)
      BY <3>1
    <3> HIDE DEF h
    <3>. QED
      BY <2>2, <3>2 DEF Unfolds
  <2>. HIDE DEF h, durations
  <2>. QED
    BY <1>3, <2>1, <2>3, <2>5, SumUnfolds
<1>. QED
  BY <1>1, <1>4, <1>5, <1>6

\* A step that keeps the sessions of every device, what they earned and the
\* columns of the devices keeps the invariant.
LEMMA SameHours ==
  ASSUME HoursInv, UNCHANGED hours, Rows' = Rows,
         \A s \in Rows : sessions'[s].device = sessions[s].device,
         \A s \in SessionId : ledger'[s].credited = ledger[s].credited
  PROVE  HoursInv'
<1>1. Credits' = Credits
  BY DEF Credits
<1>2. \A d \in Device : RowsOf(d)' = RowsOf(d)
  BY DEF RowsOf
<1>. QED
  BY <1>1, <1>2 DEF HoursInv

\* A new session has earned nothing.
LEMMA InsertHours ==
  ASSUME TInv, CreditInv, FiniteRows, HoursInv, NEW h \in Handler, StartedInsert(h)
  PROVE  HoursInv'
<1>1. PICK r \in SessionId \ Rows :
        sessions' = [s \in Rows \cup {r} |->
                       IF s = r
                         THEN [device |-> job[h].device, number |-> job[h].number,
                               startedAt |-> job[h].at, cols |-> OpenColumns]
                         ELSE sessions[s]]
  BY DEF StartedInsert
<1>2. /\ Rows' = Rows \cup {r} /\ UNCHANGED <<hours, ledger>>
      /\ \A s \in Rows : sessions'[s] = sessions[s]
      /\ sessions'[r].device = job[h].device
  BY <1>1 DEF Rows, StartedInsert
<1>3. Credits' = Credits /\ Credits[r] = 0
  <2>1. CreditOK(r)
    BY DEF CreditInv
  <2>. QED
    BY <1>1, <1>2, <2>1 DEF Credits, CreditOK
<1>4. ASSUME NEW d \in Device PROVE hours'[d] = SumFunctionOnSet(Credits', RowsOf(d)')
  <2>1. /\ IsFiniteSet(RowsOf(d)) /\ RowsOf(d) \subseteq SessionId
        /\ \A s \in SessionId : Credits[s] \in Int
        /\ hours[d] = SumFunctionOnSet(Credits, RowsOf(d))
    BY CreditsAdd DEF HoursInv
  <2>2. CASE d = job[h].device
    <3>1. RowsOf(d)' = RowsOf(d) \cup {r} /\ r \notin RowsOf(d)
      BY <1>1, <1>2, <2>2 DEF RowsOf
    <3>2. \A s \in RowsOf(d) \cup {r} : Credits[s] \in Int
      BY <1>1, <2>1
    <3>3. SumFunctionOnSet(Credits, RowsOf(d) \cup {r})
            = SumFunctionOnSet(Credits, RowsOf(d)) + Credits[r]
      BY <2>1, <3>1, <3>2, SumAdd
    <3>4. SumFunctionOnSet(Credits, RowsOf(d)) \in Int
      BY <2>1, <3>2, SumInt
    <3>. QED
      BY <1>2, <1>3, <2>1, <3>1, <3>3, <3>4
  <2>3. CASE d # job[h].device
    <3>1. RowsOf(d)' = RowsOf(d)
      BY <1>1, <1>2, <2>3 DEF RowsOf
    <3>. QED
      BY <1>2, <1>3, <2>1, <3>1
  <2>. QED
    BY <2>2, <2>3
<1>. QED
  BY <1>4 DEF HoursInv

\* What is added to a device is what its session has earned.
LEMMA AddHoursHours ==
  ASSUME TInv, FiniteRows, HoursInv, NEW h \in Handler, AddHours(h) PROVE HoursInv'
<1> DEFINE r == job[h].sid
           n == job[h].held.duration
<1>1. r \in Rows /\ r \in SessionId /\ n \in Nat /\ sessions[r].device \in Device
  BY HandlerFacts DEF AddHours, JobOK, Saving, TInv, TypeOK, Row
<1>2. sessions' = sessions /\ Rows' = Rows /\ \A d \in Device : RowsOf(d)' = RowsOf(d)
  BY DEF AddHours, Rows, RowsOf
<1>3. /\ \A d \in Device : hours'[d] = IF d = sessions[r].device THEN hours[d] + n ELSE hours[d]
      /\ hours \in [Device -> Nat]
  BY DEF AddHours, TInv, TypeOK
<1>4. \A s \in SessionId :
        Credits'[s] = IF s = r THEN Credits[s] + n ELSE Credits[s]
  BY <1>1 DEF AddHours, Credits, TInv, TypeOK
<1>5. ASSUME NEW d \in Device PROVE hours'[d] = SumFunctionOnSet(Credits', RowsOf(d))
  <2>1. /\ IsFiniteSet(RowsOf(d)) /\ RowsOf(d) \subseteq SessionId
        /\ \A s \in SessionId : Credits[s] \in Int
        /\ hours[d] = SumFunctionOnSet(Credits, RowsOf(d))
    BY CreditsAdd DEF HoursInv
  <2>2. PICK c : c = Credits'
    OBVIOUS
  <2>3. CASE d = sessions[r].device
    <3>1. r \in RowsOf(d)
      BY <1>1, <2>3 DEF RowsOf
    <3>2. /\ \A s \in RowsOf(d) : Credits[s] \in Int
          /\ c[r] = Credits[r] + n /\ c[r] \in Int /\ Credits[r] \in Int
          /\ \A s \in RowsOf(d) \ {r} : c[s] = Credits[s]
      BY <1>1, <1>4, <2>1, <2>2
    <3>3. SumFunctionOnSet(c, RowsOf(d))
            = SumFunctionOnSet(Credits, RowsOf(d)) - Credits[r] + c[r]
      BY <2>1, <3>1, <3>2, SumChange
    <3>4. SumFunctionOnSet(Credits, RowsOf(d)) \in Int
      BY <2>1, <3>2, SumInt
    <3>5. SumFunctionOnSet(c, RowsOf(d)) = SumFunctionOnSet(Credits, RowsOf(d)) + n
      BY <1>1, <3>2, <3>3, <3>4
    <3>. QED
      BY <1>3, <2>1, <2>2, <2>3, <3>5
  <2>4. CASE d # sessions[r].device
    <3>1. r \notin RowsOf(d)
      BY <2>4 DEF RowsOf
    <3>2. \A s \in RowsOf(d) : Credits[s] \in Int /\ c[s] = Credits[s]
      BY <1>4, <2>1, <2>2, <3>1
    <3>3. SumFunctionOnSet(c, RowsOf(d)) = SumFunctionOnSet(Credits, RowsOf(d))
      BY <2>1, <3>2, SumSame
    <3>. QED
      BY <1>3, <2>1, <2>2, <2>4, <3>3
  <2>. QED
    BY <2>3, <2>4
<1>. QED
  BY <1>2, <1>5 DEF HoursInv

\* A save leaves the session with its device.
LEMMA UpdateHours ==
  ASSUME TInv, HoursInv, NEW a \in Actor, Update(a) PROVE HoursInv'
<1>1. job[a].sid \in Rows /\ job[a].sid \in SessionId
  BY DEF Update, TInv, TypeOK, JobOK, Saving
<1>2. /\ Rows' = Rows /\ UNCHANGED hours
      /\ \A s \in Rows : sessions'[s].device = sessions[s].device
  BY <1>1 DEF Update, TInv, TypeOK, Rows, Row
<1>3. \A s \in SessionId : ledger'[s].credited = ledger[s].credited
  BY <1>1 DEF Update, TInv, TypeOK
<1>. QED
  BY <1>2, <1>3, SameHours

\* Hours that are lost were never added.
LEMMA DropHours ==
  ASSUME TInv, HoursInv, UNCHANGED <<sessions, hours>>, NEW J, ledger' = Dropped(J)
  PROVE  HoursInv'
<1>1. \A s \in SessionId : ledger'[s].credited = ledger[s].credited
  BY DEF Dropped, TInv, TypeOK
<1>. QED
  BY <1>1, SameHours DEF Rows

\* Every step keeps the invariant.
LEMMA NextHours == TInv /\ CreditInv /\ FiniteRows /\ HoursInv /\ [Next]_vars => HoursInv'
<1> SUFFICES ASSUME TInv, CreditInv, FiniteRows, HoursInv, [Next]_vars PROVE HoursInv'
  OBVIOUS
<1>1. CASE UNCHANGED <<sessions, hours, ledger>>
  BY <1>1, SameHours DEF Rows
<1>2. CASE UNCHANGED vars \/ Tick \/ \E d \in Device : StoreReadings(d)
  BY <1>1, <1>2 DEF vars, Tick, StoreReadings
<1>3. ASSUME NEW h \in Handler, NEW d \in Device, Environment(h, d) PROVE HoursInv'
  BY <1>1, <1>3 DEF Environment, PumpOnReported, PumpOffReported, LastWillReceived, Receive
<1>4. ASSUME NEW h \in Handler, Handle(h) PROVE HoursInv'
  <2>1. CASE \/ StartedFind(h) \/ StartedMax(h) \/ PublishSessionId(h)
             \/ StoppedFind(h) \/ DisconnectedFind(h) \/ DisconnectedLast(h) \/ Load(h)
    BY <1>1, <2>1 DEF StartedFind, StartedMax, PublishSessionId, StoppedFind,
       DisconnectedFind, DisconnectedLast, Load
  <2>. QED
    BY <1>4, <2>1, HandlerFacts, InsertHours, UpdateHours, AddHoursHours DEF Handle
<1>5. CASE CronRun \/ CronFails
  <2>1. CASE CronTick \/ CronScan \/ CronCheck \/ CronFails \/ Load(Cron)
    BY <1>1, <2>1 DEF CronTick, CronScan, CronCheck, CronFails, Load
  <2>. QED
    BY <1>5, <2>1, UpdateHours DEF CronRun, Actor
<1>6. ASSUME NEW h \in Handler, HandlerFails(h) PROVE HoursInv'
  BY <1>6, DropHours DEF HandlerFails
<1>7. CASE Crash
  BY <1>7, DropHours DEF Crash
<1>. QED
  BY <1>2, <1>3, <1>4, <1>5, <1>6, <1>7 DEF Next

\* The rows are finitely many and the column of a device is the sum of what its
\* sessions have earned, whatever overlapped, failed or crashed: an addition is
\* never lost on the way to the column, nor made to another device.
THEOREM HoursAreEarned == Spec => [](FiniteRows /\ HoursInv)
  BY TypeCorrect, InitCredit, NextCredit, InitHours, NextFinite, NextHours, PTL DEF Spec

\* Hence the operating hours of a device are the durations of its completed
\* sessions as long as none was closed twice or lost its hours.
THEOREM HoursAreTheSum == Spec => []DeviceHours
<1>1. Spec => []CreditInv
  BY TypeCorrect, InitCredit, NextCredit, PTL DEF Spec
<1>. QED
  BY <1>1, TypeCorrect, HoursAreEarned, HoursImply, PTL

-----------------------------------------------------------------------------
(* What an insert and a save do to the table.                               *)

\* What an insert does to the table.
LEMMA InsertEffect ==
  ASSUME TInv, NEW h \in Handler, StartedInsert(h),
         NEW d \in Device, d = job[h].device
  PROVE  \E s \in SessionId \ Rows :
           /\ Rows' = Rows \cup {s}
           /\ sessions'[s] = [device |-> d, number |-> job[h].number,
                              startedAt |-> job[h].at, cols |-> OpenColumns]
           /\ \A r \in Rows : sessions'[r] = sessions[r]
           /\ \A e \in Device : e # d => RowsOf(e)' = RowsOf(e) /\ ActiveOf(e)' = ActiveOf(e)
           /\ RowsOf(d)' = RowsOf(d) \cup {s}
           /\ ActiveOf(d)' = ActiveOf(d) \cup {s}
           /\ \A g \in Handler : IF g = h THEN job'[g].pc = "publish" ELSE job'[g] = job[g]
<1>1. h \in Actor /\ job[h] \in Job
  BY HandlerFacts DEF StartedInsert
<1>2. PICK s \in SessionId \ Rows :
        /\ sessions' = [r \in Rows \cup {s} |->
                          IF r = s
                            THEN [device |-> d, number |-> job[h].number,
                                  startedAt |-> job[h].at, cols |-> OpenColumns]
                            ELSE sessions[r]]
        /\ Become(h, [job[h] EXCEPT !.pc = "publish", !.sid = s])
  BY DEF StartedInsert
<1>3. /\ Rows' = Rows \cup {s}
      /\ sessions'[s] = [device |-> d, number |-> job[h].number,
                         startedAt |-> job[h].at, cols |-> OpenColumns]
      /\ \A r \in Rows : sessions'[r] = sessions[r]
  BY <1>2 DEF Rows
<1>4. sessions'[s].device = d /\ sessions'[s].cols.status = "active"
  BY <1>3 DEF OpenColumns
<1>5. \A e \in Device : e # d => RowsOf(e)' = RowsOf(e) /\ ActiveOf(e)' = ActiveOf(e)
  BY <1>3, <1>4 DEF RowsOf, ActiveOf, ActiveRows, Status
<1>6. RowsOf(d)' = RowsOf(d) \cup {s} /\ ActiveOf(d)' = ActiveOf(d) \cup {s}
  BY <1>3, <1>4 DEF RowsOf, ActiveOf, ActiveRows, Status
<1>7. \A g \in Handler : IF g = h THEN job'[g].pc = "publish" ELSE job'[g] = job[g]
  BY <1>1, <1>2 DEF Become, Actor, TInv, TypeOK, Job
<1>. QED
  BY <1>3, <1>5, <1>6, <1>7

\* What a save does to the table: one row changes in its closing columns, and
\* no row becomes active.
LEMMA SaveEffect ==
  ASSUME TInv, NEW a \in Actor, Saves(a)
  PROVE  /\ Rows' = Rows /\ job[a].sid \in Rows
         /\ \A s \in Rows : /\ sessions'[s].device = sessions[s].device
                            /\ sessions'[s].number = sessions[s].number
                            /\ sessions'[s].startedAt = sessions[s].startedAt
                            /\ Status(s)' = "active" => Status(s) = "active"
                            /\ s # job[a].sid => sessions'[s] = sessions[s]
         /\ sessions'[job[a].sid].cols =
              Merge(sessions[job[a].sid].cols, job[a].held, job[a].loaded)
<1> DEFINE j == job[a]
           cols == Merge(sessions[j.sid].cols, j.held, j.loaded)
<1>1. /\ j \in Job /\ j.pc = "update" /\ j.sid \in Rows /\ j.held.status \in Closed
  BY DEF Saves, TInv, TypeOK, JobOK, Saving
<1>2. sessions' = [sessions EXCEPT ![j.sid] = [sessions[j.sid] EXCEPT !.cols = cols]]
  BY DEF Saves
<1>3. /\ Rows' = Rows
      /\ \A s \in Rows : s # j.sid => sessions'[s] = sessions[s]
  BY <1>1, <1>2 DEF Rows
<1>4. sessions[j.sid] \in Row
  BY <1>1 DEF TInv, TypeOK
<1>5. /\ sessions'[j.sid].device = sessions[j.sid].device
      /\ sessions'[j.sid].number = sessions[j.sid].number
      /\ sessions'[j.sid].startedAt = sessions[j.sid].startedAt
      /\ sessions'[j.sid].cols = cols
  BY <1>1, <1>2, <1>4 DEF Rows, Row
<1>6. cols.status = "active" => sessions[j.sid].cols.status = "active"
  BY <1>1 DEF Merge, Closed
<1>. QED
  BY <1>1, <1>3, <1>5, <1>6 DEF Status

-----------------------------------------------------------------------------
(* Spans.  A controller has only been told ids of rows, so the stop that    *)
(* names a session is received after the session started; the first save    *)
(* writes what its close computed, and a second one, compared with the      *)
(* first or with nothing, writes its own end, status and duration together. *)

\* The duration of a completed session that started then is its span.
SpanOK(cols, start) ==
  cols.status = "completed" => cols.endedAt >= start /\ cols.duration = cols.endedAt - start

\* A stop that names a session is later than its start.
StopOK(a) ==
  job[a].pc = "stopped_find" /\ job[a].sid # None =>
    job[a].sid \in Rows /\ sessions[job[a].sid].startedAt <= job[a].at

HeldOK(a) ==
  job[a].pc \in {"load", "update"} => SpanOK(job[a].held, sessions[job[a].sid].startedAt)

RowOK(s) ==
  /\ sessions[s].startedAt <= now
  /\ ledger[s].closes \in {1, 2} => SpanOK(sessions[s].cols, sessions[s].startedAt)
  /\ ledger[s].closes = 1 =>
       \A a \in Actor : Updating(a, s) => job[a].loaded \in {OpenColumns, sessions[s].cols}

SpanInv ==
  /\ \A a \in Actor : job[a].at <= now /\ StopOK(a) /\ HeldOK(a)
  /\ \A d \in Device : told[d] \subseteq Rows
  /\ \A s \in Rows : RowOK(s)

\* The span invariant needs a job to be neither early nor mistaken.
SpanJob(k) ==
  /\ k.at <= now
  /\ k.pc # "update"
  /\ k.pc = "stopped_find" /\ k.sid # None =>
       k.sid \in Rows /\ sessions[k.sid].startedAt <= k.at
  /\ k.pc = "load" => SpanOK(k.held, sessions[k.sid].startedAt)

\* No sessions, no jobs.
LEMMA InitSpan == Init => SpanInv
<1> SUFFICES ASSUME Init PROVE SpanInv
  OBVIOUS
<1>1. Rows = {} /\ now = 1 /\ \A d \in Device : told[d] = {}
  BY DEF Init, Rows
<1>2. \A a \in Actor : job[a].at = 0 /\ job[a].pc = "idle"
  BY DEF Init, Idle, NoTime
<1>. QED
  BY <1>1, <1>2 DEF SpanInv, StopOK, HeldOK

\* The invariant implies CompletedSpan.
LEMMA SpanImplies == TInv /\ CreditInv /\ SpanInv => CompletedSpan
<1> SUFFICES ASSUME TInv, CreditInv, SpanInv,
                    NEW s \in Rows, Status(s) = "completed", ledger[s].closes <= 2
             PROVE  SpanOK(sessions[s].cols, sessions[s].startedAt)
  BY DEF CompletedSpan, SpanOK, Status
<1>1. s \in SessionId /\ CreditOK(s) /\ RowOK(s) /\ ledger[s].closes \in Nat
  BY DEF TInv, TypeOK, CreditInv, SpanInv
<1>2. ledger[s].closes # 0
  BY <1>1 DEF CreditOK, Untouched, Status, OpenColumns
<1>. QED
  BY <1>1, <1>2 DEF RowOK

\* Steps that write no row: actors keep their jobs or get sound ones.
LEMMA QuietSpan ==
  ASSUME TInv, SpanInv, UNCHANGED sessions, now' \in Time, now <= now',
         \A s \in SessionId : ledger'[s].closes = ledger[s].closes,
         \A d \in Device : told'[d] \subseteq Rows,
         \A a \in Actor : job'[a] = job[a] \/ SpanJob(job'[a]),
         \A a \in Actor : job'[a].at \in Nat
  PROVE  SpanInv'
<1>1. Rows' = Rows /\ now \in Nat /\ now' \in Nat /\ Rows \subseteq SessionId
  BY DEF Rows, TInv, TypeOK, Time
<1>2. ASSUME NEW a \in Actor PROVE (job[a].at <= now /\ StopOK(a) /\ HeldOK(a))'
  <2>1. CASE job'[a] = job[a]
    <3>1. job[a].at <= now /\ StopOK(a) /\ HeldOK(a) /\ job'[a].at \in Nat
      BY DEF SpanInv
    <3>. QED
      BY <1>1, <2>1, <3>1 DEF StopOK, HeldOK
  <2>2. CASE SpanJob(job'[a])
    <3>1. job'[a].at \in Nat
      OBVIOUS
    <3>. QED
      BY <1>1, <2>2, <3>1 DEF SpanJob, StopOK, HeldOK
  <2>. QED
    BY <2>1, <2>2
<1>3. ASSUME NEW s \in Rows PROVE RowOK(s)'
  <2>1. RowOK(s) /\ sessions[s].startedAt \in Nat /\ ledger'[s].closes = ledger[s].closes
    BY <1>1 DEF SpanInv, TInv, TypeOK, Row, Time
  <2>2. \A a \in Actor : Updating(a, s)' => Updating(a, s) /\ job'[a] = job[a]
    BY DEF Updating, SpanJob
  <2>. QED
    BY <1>1, <2>1, <2>2 DEF RowOK
<1>. QED
  BY <1>1, <1>2, <1>3 DEF SpanInv

\* One actor gets a sound job.
LEMMA MoveSpan ==
  ASSUME TInv, TInv', SpanInv, UNCHANGED <<now, sessions, ledger>>,
         \A d \in Device : told'[d] \subseteq Rows,
         NEW a \in Actor, NEW k, Become(a, k), SpanJob(k)
  PROVE  SpanInv'
<1>1. now' \in Time /\ now <= now'
  BY DEF TInv, TypeOK, Time
<1>2. \A b \in Actor : job'[b] = job[b] \/ job'[b] = k
  BY DEF Become, TInv, TypeOK
<1>3. \A b \in Actor : job'[b].at \in Nat
  BY DEF TInv, TypeOK, Job, Time, NoTime
<1>4. \A b \in Actor : job'[b] = job[b] \/ SpanJob(job'[b])
  BY <1>2
<1>. QED
  BY <1>1, <1>3, <1>4, QuietSpan

\* Handlers and a cron that rest, or a cron that goes on, are sound.
LEMMA IdleSpan ==
  ASSUME TInv
  PROVE  SpanJob(Idle) /\ \A t \in Nat : t <= now => SpanJob([Idle EXCEPT !.pc = "check", !.at = t])
<1>1. Idle.at = 0 /\ Idle.pc = "idle" /\ 0 <= now
  BY DEF Idle, NoTime, TInv, TypeOK, Time
<1>2. \A t \in Nat : /\ [Idle EXCEPT !.pc = "check", !.at = t].at = t
                     /\ [Idle EXCEPT !.pc = "check", !.at = t].pc = "check"
  BY DEF Idle
<1>. QED
  BY <1>1, <1>2 DEF SpanJob

\* A job that is neither a stop nor a close, at the time of the one before.
LEMMA PlainSpan ==
  ASSUME SpanInv, NEW a \in Actor, NEW k, k.at = job[a].at,
         k.pc \notin {"update", "load", "stopped_find"}
  PROVE  SpanJob(k)
  BY DEF SpanJob, SpanInv

\* A close begun by a sound end is sound: a completing one ends with or after
\* the start.
LEMMA BeginCloseSpan ==
  ASSUME TInv, SpanInv, NEW a \in Actor, NEW s \in Rows, NEW end \in Time,
         NEW status \in Closed, NEW reason \in {"none", "esp_reboot", "lwt", "timeout"},
         status = "completed" => sessions[s].startedAt <= end
  PROVE  SpanJob(BeginClose(a, s, end, status, reason))
<1> DEFINE k == BeginClose(a, s, end, status, reason)
           start == sessions[s].startedAt
<1>1. /\ k.pc = "load" /\ k.sid = s /\ k.at = job[a].at
      /\ k.held = Closing(s, end, status, reason)
  BY BeginCloseType
<1>2. start \in Nat /\ end \in Nat
  BY DEF TInv, TypeOK, Row, Time
<1>3. /\ k.held.status = status /\ k.held.endedAt = end
      /\ k.held.duration = IF end > start THEN end - start ELSE 0
  BY <1>1 DEF Closing
<1>4. SpanOK(k.held, start)
  BY <1>2, <1>3 DEF SpanOK
<1>. QED
  BY <1>1, <1>4 DEF SpanJob, SpanInv

\* Handlers that only move on.
LEMMA HandlerMovesSpan ==
  ASSUME TInv, TInv', SpanInv, NEW h \in Handler,
         \/ StartedFind(h) \/ StartedMax(h) \/ PublishSessionId(h)
         \/ StoppedFind(h) \/ DisconnectedFind(h) \/ DisconnectedLast(h)
  PROVE  SpanInv'
<1>1. /\ h \in Actor /\ job[h] \in Job /\ JobOK(h) /\ SpanJob(Idle)
      /\ UNCHANGED <<now, sessions, ledger>>
  BY HandlerFacts, IdleSpan
     DEF StartedFind, StartedMax, PublishSessionId, StoppedFind, DisconnectedFind, DisconnectedLast
<1>2. \A d \in Device : told[d] \subseteq Rows
  BY DEF SpanInv
<1>3. CASE StartedFind(h)
  <2>1. PICK k : Become(h, k) /\ k.at = job[h].at /\ k.pc \in {"started_max", "publish"}
    <3>1. \A s : /\ [job[h] EXCEPT !.pc = "publish", !.sid = s].pc = "publish"
                 /\ [job[h] EXCEPT !.pc = "publish", !.sid = s].at = job[h].at
      BY <1>1 DEF Job
    <3>2. /\ [job[h] EXCEPT !.pc = "started_max"].pc = "started_max"
          /\ [job[h] EXCEPT !.pc = "started_max"].at = job[h].at
      BY <1>1 DEF Job
    <3>3. CASE ActiveOf(job[h].device) = {}
      BY <1>3, <3>2, <3>3 DEF StartedFind, Goto
    <3>4. CASE ActiveOf(job[h].device) # {}
      <4>1. PICK s \in ActiveOf(job[h].device) :
              Become(h, [job[h] EXCEPT !.pc = "publish", !.sid = s])
        BY <1>3, <3>4 DEF StartedFind
      <4>. QED
        BY <3>1, <4>1
    <3>. QED
      BY <3>3, <3>4
  <2>2. SpanJob(k) /\ told' = told
    BY <1>1, <1>3, <2>1, PlainSpan DEF StartedFind
  <2>. QED
    BY <1>1, <1>2, <2>1, <2>2, MoveSpan
<1>4. CASE StartedMax(h)
  <2>1. PICK k : Become(h, k) /\ k.at = job[h].at /\ k.pc = "started_insert"
    <3>1. \A m : /\ [job[h] EXCEPT !.pc = "started_insert", !.number = m + 1].pc = "started_insert"
                 /\ [job[h] EXCEPT !.pc = "started_insert", !.number = m + 1].at = job[h].at
      BY <1>1 DEF Job
    <3>. QED
      BY <1>4, <3>1 DEF StartedMax
  <2>2. SpanJob(k) /\ told' = told
    BY <1>1, <1>4, <2>1, PlainSpan DEF StartedMax
  <2>. QED
    BY <1>1, <1>2, <2>1, <2>2, MoveSpan
<1>5. CASE PublishSessionId(h)
  <2>1. job[h].sid \in Rows
    BY <1>1, <1>5 DEF JobOK, Saving, PublishSessionId
  <2>2. \A d \in Device : told'[d] \subseteq told[d] \cup {job[h].sid}
    BY <1>5 DEF PublishSessionId, TInv, TypeOK
  <2>3. \A d \in Device : told'[d] \subseteq Rows
    BY <1>2, <2>1, <2>2
  <2>. QED
    BY <1>1, <1>5, <2>3, MoveSpan DEF PublishSessionId, Finish
<1>6. CASE StoppedFind(h)
  <2> DEFINE j == job[h]
             found == IF j.sid # None THEN {j.sid} \cap ActiveRows ELSE ActiveOf(j.device)
             status == IF j.sid # None THEN "completed" ELSE "interrupted"
             reason == IF j.sid # None THEN "none" ELSE "esp_reboot"
  <2>1. told' = told /\ j.pc = "stopped_find" /\ j.at \in Time
    BY <1>1, <1>6, HandlerFacts DEF StoppedFind
  <2>2. CASE found = {}
    BY <1>1, <1>2, <1>6, <2>1, <2>2, MoveSpan DEF StoppedFind, Finish
  <2>3. CASE found # {}
    <3>1. PICK s \in found : Become(h, BeginClose(h, s, j.at, status, reason))
      BY <1>6, <2>3 DEF StoppedFind
    <3>2. s \in Rows /\ status \in Closed /\ reason \in {"none", "esp_reboot", "lwt", "timeout"}
      BY DEF ActiveOf, ActiveRows, Closed
    <3>3. StopOK(h)
      BY <1>1 DEF SpanInv
    <3>4. status = "completed" => sessions[s].startedAt <= j.at
      BY <2>1, <3>3 DEF StopOK
    <3>5. SpanJob(BeginClose(h, s, j.at, status, reason))
      BY <1>1, <2>1, <3>2, <3>4, BeginCloseSpan
    <3>. QED
      BY <1>1, <1>2, <2>1, <3>1, <3>5, MoveSpan
  <2>. QED
    BY <2>2, <2>3
<1>7. CASE DisconnectedFind(h)
  <2>1. PICK k : Become(h, k) /\ (k = Idle \/ (k.at = job[h].at /\ k.pc = "disconnected_last"))
    <3>1. \A s : /\ [job[h] EXCEPT !.pc = "disconnected_last", !.sid = s].pc = "disconnected_last"
                 /\ [job[h] EXCEPT !.pc = "disconnected_last", !.sid = s].at = job[h].at
      BY <1>1 DEF Job
    <3>. QED
      BY <1>7, <3>1 DEF DisconnectedFind, Finish
  <2>2. SpanJob(k) /\ told' = told
    BY <1>1, <1>7, <2>1, PlainSpan DEF DisconnectedFind
  <2>. QED
    BY <1>1, <1>2, <2>1, <2>2, MoveSpan
<1>8. CASE DisconnectedLast(h)
  <2> DEFINE j == job[h]
             last == lastData[j.device]
             end == IF last > sessions[j.sid].startedAt THEN last ELSE j.at
             k == BeginClose(h, j.sid, end, "interrupted", "lwt")
  <2>1. j.sid \in Rows /\ j.device \in Device /\ j.at \in Time
    BY <1>1, <1>8, HandlerFacts DEF DisconnectedLast, JobOK, Saving
  <2>2. end \in Time
    BY <2>1 DEF TInv, TypeOK, Row, Time, NoTime
  <2>3. SpanJob(k)
    BY <1>1, <2>1, <2>2, BeginCloseSpan DEF Closed
  <2>. QED
    BY <1>1, <1>2, <1>8, <2>3, MoveSpan DEF DisconnectedLast
<1>. QED
  BY <1>3, <1>4, <1>5, <1>6, <1>7, <1>8

\* A stop is received after every session the controller was told of started.
LEMMA ReceiveSpan ==
  ASSUME TInv, TInv', SpanInv, NEW h \in Handler, NEW d \in Device, Environment(h, d)
  PROVE  SpanInv'
<1>1. PICK step \in {"started_find", "stopped_find", "disconnected_find"},
             sid \in told[d] \cup {None} :
        Receive(h, d, step, sid)
  BY DEF Environment, PumpOnReported, PumpOffReported, LastWillReceived
<1> DEFINE k == [Idle EXCEPT !.pc = step, !.device = d, !.at = now, !.sid = sid]
<1>2. k.pc = step /\ k.at = now /\ k.sid = sid
  BY DEF Idle
<1>3. \A e \in Device : told[e] \subseteq Rows
  BY DEF SpanInv
<1>4. sid # None => sid \in Rows /\ sessions[sid].startedAt <= now
  BY <1>3 DEF SpanInv, RowOK
<1>5. SpanJob(k)
  BY <1>2, <1>4 DEF SpanJob, TInv, TypeOK, Time
<1>. QED
  BY <1>1, <1>3, <1>5, HandlerFacts, MoveSpan DEF Receive

\* The cron completes nothing.
LEMMA CronMovesSpan ==
  ASSUME TInv, TInv', SpanInv, CronTick \/ CronScan \/ CronCheck \/ CronFails
  PROVE  SpanInv'
<1>1. /\ Cron \in Actor /\ job[Cron] \in Job /\ JobOK(Cron) /\ SpanJob(Idle)
      /\ job[Cron].at \in Nat /\ job[Cron].at <= now /\ now \in Nat /\ now <= now
  <2>1. Cron \in Actor /\ job[Cron] \in Job /\ now \in Nat
    BY DEF Actor, TInv, TypeOK, Time
  <2>2. job[Cron].at \in Nat /\ JobOK(Cron) /\ now <= now
    BY <2>1 DEF Job, Time, NoTime, TInv
  <2>. QED
    BY <2>1, <2>2, IdleSpan DEF SpanInv
<1>2. UNCHANGED <<now, sessions, ledger>> /\ told' = told
  BY DEF CronTick, CronScan, CronCheck, CronFails
<1>3. CASE UNCHANGED job
  <2>1. /\ now' \in Time /\ now <= now'
        /\ \A a \in Actor : job'[a] = job[a] /\ job'[a].at \in Nat
        /\ \A d \in Device : told'[d] \subseteq Rows
        /\ \A s \in SessionId : ledger'[s].closes = ledger[s].closes
    BY <1>2, <1>3 DEF TInv, TypeOK, Time, NoTime, Job, SpanInv
  <2>. QED
    BY <1>2, <2>1, QuietSpan
<1>4. CASE \E k : Become(Cron, k) /\ SpanJob(k)
  BY <1>1, <1>2, <1>4, MoveSpan DEF SpanInv
<1>5. SpanJob([Idle EXCEPT !.pc = "check", !.at = job[Cron].at])
  BY <1>1, IdleSpan
<1>6. SpanJob([Idle EXCEPT !.pc = "check", !.at = now])
  BY <1>1, IdleSpan
<1>7. CASE CronTick
  <2>1. /\ [job[Cron] EXCEPT !.pc = "scan"].pc = "scan"
        /\ [job[Cron] EXCEPT !.pc = "scan"].at = job[Cron].at
    BY <1>1 DEF Job
  <2>2. SpanJob([job[Cron] EXCEPT !.pc = "scan"])
    BY <1>1, <2>1, PlainSpan
  <2>. QED
    BY <1>4, <1>7, <2>2 DEF CronTick, Goto
<1>8. CASE CronScan
  BY <1>1, <1>4, <1>6, <1>8 DEF CronScan
<1>9. CASE CronFails
  BY <1>1, <1>4, <1>5, <1>9 DEF CronFails
<1>10. CASE CronCheck
  <2>1. PICK s \in queue :
          LET start == sessions[s].startedAt
              last == lastData[sessions[s].device]
              end == IF last > start THEN last ELSE start
              left == queue \ {s}
          IN
          \/ Become(Cron, BeginClose(Cron, s, end, "interrupted", "timeout"))
          \/ Finish(Cron)
          \/ UNCHANGED job
    BY <1>10 DEF CronCheck
  <2> DEFINE end == IF lastData[sessions[s].device] > sessions[s].startedAt
                      THEN lastData[sessions[s].device] ELSE sessions[s].startedAt
  <2>2. s \in Rows /\ end \in Time
    BY <2>1 DEF TInv, TypeOK, Row, Time, NoTime
  <2>3. SpanJob(BeginClose(Cron, s, end, "interrupted", "timeout"))
    BY <1>1, <2>2, BeginCloseSpan DEF Closed
  <2>. QED
    BY <1>1, <1>3, <1>4, <2>1, <2>3 DEF Finish
<1>. QED
  BY <1>7, <1>8, <1>9, <1>10

\* A session starts no later than now, and nobody closes it yet.
LEMMA InsertSpan ==
  ASSUME TInv, CreditInv, SpanInv, NEW h \in Handler, StartedInsert(h) PROVE SpanInv'
<1>1. PICK d \in Device : d = job[h].device
  BY HandlerFacts DEF StartedInsert
<1>2. PICK s \in SessionId \ Rows :
        /\ Rows' = Rows \cup {s}
        /\ sessions'[s] = [device |-> d, number |-> job[h].number,
                           startedAt |-> job[h].at, cols |-> OpenColumns]
        /\ \A r \in Rows : sessions'[r] = sessions[r]
  BY <1>1, InsertEffect
<1>3. /\ h \in Actor /\ job[h] \in Job /\ job \in [Actor -> Job]
      /\ UNCHANGED <<now, told, ledger>>
  BY HandlerFacts DEF StartedInsert, TInv, TypeOK
<1>4. PICK k : Become(h, k) /\ k.at = job[h].at /\ k.pc = "publish"
  <2>1. \A r : /\ [job[h] EXCEPT !.pc = "publish", !.sid = r].pc = "publish"
               /\ [job[h] EXCEPT !.pc = "publish", !.sid = r].at = job[h].at
    BY <1>3 DEF Job
  <2>. QED
    BY <2>1 DEF StartedInsert
<1>5. \A a \in Actor : job'[a] = IF a = h THEN k ELSE job[a]
  BY <1>3, <1>4 DEF Become
<1>6. ASSUME NEW a \in Actor PROVE (job[a].at <= now /\ StopOK(a) /\ HeldOK(a))'
  <2>1. job[a].at <= now /\ StopOK(a) /\ HeldOK(a) /\ job[h].at <= now
    BY <1>3 DEF SpanInv
  <2>2. job[a].pc \in {"load", "update"} => job[a].sid \in Rows
    BY DEF TInv, JobOK, Saving
  <2>3. CASE a = h
    BY <1>3, <1>4, <1>5, <2>1, <2>3 DEF StopOK, HeldOK
  <2>4. CASE a # h
    BY <1>2, <1>3, <1>5, <2>1, <2>2, <2>4 DEF StopOK, HeldOK
  <2>. QED
    BY <2>3, <2>4
<1>7. ASSUME NEW r \in Rows PROVE RowOK(r)'
  <2>1. RowOK(r) /\ \A a \in Actor : Updating(a, r)' => Updating(a, r) /\ job'[a] = job[a]
    BY <1>4, <1>5 DEF SpanInv, Updating
  <2>. QED
    BY <1>2, <1>3, <2>1 DEF RowOK
<1>8. RowOK(s)'
  <2>1. ledger'[s].closes = 0
    BY <1>3 DEF CreditInv, CreditOK
  <2>2. sessions'[s].startedAt <= now'
    BY <1>2, <1>3 DEF SpanInv
  <2>. QED
    BY <2>1, <2>2 DEF RowOK
<1>. QED
  BY <1>2, <1>3, <1>6, <1>7, <1>8 DEF SpanInv

\* What a save has loaded is the row, or the row as it was before the one close.
LEMMA LoadSpan ==
  ASSUME TInv, SpanInv, NEW a \in Actor, Load(a) PROVE SpanInv'
<1> DEFINE k == [job[a] EXCEPT !.pc = "update", !.loaded = sessions[job[a].sid].cols]
<1>1. /\ job[a] \in Job /\ job \in [Actor -> Job] /\ job[a].pc = "load"
      /\ UNCHANGED <<now, sessions, told, ledger>> /\ Rows' = Rows
  BY DEF TInv, TypeOK, Load, Rows
<1>2. /\ k.pc = "update" /\ k.sid = job[a].sid /\ k.at = job[a].at
      /\ k.held = job[a].held /\ k.loaded = sessions[job[a].sid].cols
  BY <1>1 DEF Job
<1>3. \A b \in Actor : job'[b] = IF b = a THEN k ELSE job[b]
  BY <1>1 DEF Load, Become
<1>4. ASSUME NEW b \in Actor PROVE (job[b].at <= now /\ StopOK(b) /\ HeldOK(b))'
  <2>1. job[b].at <= now /\ StopOK(b) /\ HeldOK(b)
    BY DEF SpanInv
  <2>2. CASE b = a
    BY <1>1, <1>2, <1>3, <2>1, <2>2 DEF StopOK, HeldOK
  <2>3. CASE b # a
    BY <1>1, <1>3, <2>1, <2>3 DEF StopOK, HeldOK
  <2>. QED
    BY <2>2, <2>3
<1>5. ASSUME NEW s \in Rows PROVE RowOK(s)'
  <2>1. RowOK(s)
    BY DEF SpanInv
  <2>2. ASSUME NEW b \in Actor, Updating(b, s)', ledger[s].closes = 1
        PROVE  job'[b].loaded \in {OpenColumns, sessions[s].cols}
    <3>1. CASE b = a
      BY <1>2, <1>3, <2>2, <3>1 DEF Updating
    <3>2. CASE b # a
      BY <1>3, <2>1, <2>2, <3>2 DEF Updating, RowOK
    <3>. QED
      BY <3>1, <3>2
  <2>. QED
    BY <1>1, <2>1, <2>2 DEF RowOK
<1>. QED
  BY <1>1, <1>4, <1>5 DEF SpanInv

\* A save compared with the very row, or with an untouched one, leaves the end,
\* the status and the duration it holds.
LEMMA WholeMerge ==
  ASSUME NEW row \in Columns, NEW held \in Columns, NEW loaded \in {OpenColumns, row},
         held.endedAt \in Time, held.status \in Closed, held.duration \in Nat
  PROVE  /\ Merge(row, held, loaded).endedAt = held.endedAt
         /\ Merge(row, held, loaded).status = held.status
         /\ Merge(row, held, loaded).duration = held.duration
  BY ConstantsAssumption
     DEF Merge, OpenColumns, Closed, Time, NoTime, NoDuration

\* The job of an actor after its save is no part of a close any more.
LEMMA AfterCloseSpan ==
  ASSUME TInv, NEW a \in Actor, Update(a)
  PROVE  /\ job'[a].pc \in {"idle", "check", "hours"}
         /\ job'[a].at = 0 \/ job'[a].at = job[a].at
         /\ \A b \in Actor : b # a => job'[b] = job[b]
<1>1. job[a] \in Job /\ job'[a] = AfterClose(a, job[a]) /\ \A b \in Actor : b # a => job'[b] = job[b]
  BY DEF Update, Become, TInv, TypeOK
<1>2. Idle.pc = "idle" /\ Idle.at = 0
  BY DEF Idle, NoTime
<1>3. /\ [Idle EXCEPT !.pc = "check", !.at = job[a].at].pc = "check"
      /\ [Idle EXCEPT !.pc = "check", !.at = job[a].at].at = job[a].at
  BY DEF Idle
<1>4. /\ [job[a] EXCEPT !.pc = "hours"].pc = "hours"
      /\ [job[a] EXCEPT !.pc = "hours"].at = job[a].at
  BY <1>1 DEF Job
<1>5. job[a].pc = "update"
  BY DEF Update
<1>. QED
  BY <1>1, <1>2, <1>3, <1>4, <1>5, AfterCloseType

\* A first close writes all it computed; so does a second one.
LEMMA UpdateSpan ==
  ASSUME TInv, CreditInv, SpanInv, NEW a \in Actor, Update(a) PROVE SpanInv'
<1> DEFINE j == job[a]
           cols == Merge(sessions[j.sid].cols, j.held, j.loaded)
<1>1. /\ j \in Job /\ j.pc = "update" /\ j.sid \in Rows /\ j.sid \in SessionId
      /\ j.held \in Columns /\ j.held.endedAt \in Time
      /\ j.held.status \in Closed /\ j.held.duration \in Nat
      /\ sessions[j.sid].cols \in Columns
  BY DEF Update, TInv, TypeOK, JobOK, Saving, Job, Row
<1>2. /\ Rows' = Rows /\ sessions'[j.sid].cols = cols
      /\ \A s \in Rows : /\ sessions'[s].startedAt = sessions[s].startedAt
                         /\ s # j.sid => sessions'[s] = sessions[s]
  BY SaveEffect DEF Update, Saves
<1>3. /\ ledger'[j.sid].closes = ledger[j.sid].closes + 1
      /\ \A s \in SessionId : s # j.sid => ledger'[s] = ledger[s]
      /\ ledger[j.sid].closes \in Nat
  BY <1>1 DEF Update, TInv, TypeOK
<1>4. now' = now /\ told' = told /\ now \in Nat /\ Rows \subseteq SessionId
  BY DEF Update, TInv, TypeOK, Time
<1>5. ASSUME NEW b \in Actor PROVE (job[b].at <= now /\ StopOK(b) /\ HeldOK(b))'
  <2>1. job[b].at <= now /\ StopOK(b) /\ HeldOK(b)
    BY DEF SpanInv
  <2>2. CASE b = a
    <3>1. job'[b].at <= now
      BY <1>4, <2>1, <2>2, AfterCloseSpan, 0 <= now
    <3>. QED
      BY <1>4, <2>2, <3>1, AfterCloseSpan DEF StopOK, HeldOK
  <2>3. CASE b # a
    <3>1. job'[b] = job[b] /\ (job[b].pc \in {"load", "update"} => job[b].sid \in Rows)
      BY <2>3, AfterCloseSpan DEF TInv, JobOK, Saving
    <3>. QED
      BY <1>2, <1>4, <2>1, <3>1 DEF StopOK, HeldOK
  <2>. QED
    BY <2>2, <2>3
<1>6. \A b \in Actor : job'[b].pc = "update" => b # a /\ job'[b] = job[b]
  BY AfterCloseSpan
<1>7. ASSUME NEW s \in Rows, s # j.sid PROVE RowOK(s)'
  <2>1. RowOK(s) /\ \A b \in Actor : Updating(b, s)' => Updating(b, s) /\ job'[b] = job[b]
    BY <1>6 DEF SpanInv, Updating
  <2>. QED
    BY <1>2, <1>3, <1>4, <1>7, <2>1 DEF RowOK
<1>8. ASSUME NEW s \in Rows, s = j.sid PROVE RowOK(s)'
  <2>1. /\ RowOK(s) /\ CreditOK(s) /\ s \in SessionId
        /\ SpanOK(j.held, sessions[s].startedAt)
    BY <1>1, <1>8 DEF SpanInv, CreditInv, HeldOK
  <2>2. ASSUME ledger[s].closes \in {0, 1} PROVE j.loaded \in {OpenColumns, sessions[s].cols}
    BY <1>1, <1>8, <2>1, <2>2 DEF CreditOK, Untouched, RowOK, Updating
  <2>3. ASSUME ledger[s].closes \in {0, 1}
        PROVE  SpanOK(sessions'[s].cols, sessions'[s].startedAt)
    <3>1. /\ cols.endedAt = j.held.endedAt /\ cols.status = j.held.status
          /\ cols.duration = j.held.duration
      BY <1>1, <1>8, <2>2, <2>3, WholeMerge
    <3>. QED
      BY <1>2, <1>8, <2>1, <3>1 DEF SpanOK
  <2>4. ASSUME ledger[s].closes = 0, NEW b \in Actor, Updating(b, s)'
        PROVE  job'[b].loaded = OpenColumns
    <3>1. Updating(b, s) /\ job'[b] = job[b]
      BY <1>6, <2>4 DEF Updating
    <3>2. Untouched(s)
      BY <2>1, <2>4 DEF CreditOK
    <3>. QED
      BY <3>1, <3>2 DEF Untouched
  <2>5. ledger'[s].closes = ledger[s].closes + 1 /\ ledger[s].closes \in Nat
    BY <1>3, <1>8
  <2>. QED
    BY <1>2, <1>4, <2>1, <2>3, <2>4, <2>5 DEF RowOK
<1>. QED
  BY <1>2, <1>4, <1>5, <1>7, <1>8 DEF SpanInv

\* Steps after which actors only rest, and only hours are written.
LEMMA RestSpan ==
  ASSUME TInv, TInv', SpanInv, UNCHANGED <<now, sessions, told>>,
         \A s \in SessionId : ledger'[s].closes = ledger[s].closes,
         \A a \in Actor : job'[a] = job[a] \/ job'[a] = Idle
  PROVE  SpanInv'
<1>1. /\ now' \in Time /\ now <= now'
      /\ \A a \in Actor : job'[a].at \in Nat
  BY DEF TInv, TypeOK, Time, NoTime, Job
<1>2. \A d \in Device : told'[d] \subseteq Rows
  BY DEF SpanInv
<1>3. \A a \in Actor : job'[a] = job[a] \/ SpanJob(job'[a])
  BY IdleSpan
<1>. QED
  BY <1>1, <1>2, <1>3, QuietSpan

\* Hours added, and failures, write no span.
LEMMA EndsSpan ==
  ASSUME TInv, TInv', SpanInv
  PROVE  /\ \A h \in Handler : AddHours(h) \/ HandlerFails(h) => SpanInv'
         /\ Crash => SpanInv'
<1>1. ASSUME NEW h \in Handler, AddHours(h) PROVE SpanInv'
  <2>1. job[h].sid \in SessionId
    BY <1>1, HandlerFacts DEF AddHours, JobOK, Saving, TInv, TypeOK
  <2>2. \A s \in SessionId : ledger'[s].closes = ledger[s].closes
    BY <1>1, <2>1 DEF AddHours, TInv, TypeOK
  <2>3. \A a \in Actor : job'[a] = job[a] \/ job'[a] = Idle
    BY <1>1 DEF AddHours, Finish, Become, TInv, TypeOK
  <2>. QED
    BY <1>1, <2>2, <2>3, RestSpan DEF AddHours
<1>2. \A J : \A s \in SessionId : Dropped(J)[s].closes = ledger[s].closes
  BY DEF Dropped, TInv, TypeOK
<1>3. ASSUME NEW h \in Handler, HandlerFails(h) PROVE SpanInv'
  <2>1. \A a \in Actor : job'[a] = job[a] \/ job'[a] = Idle
    BY <1>3 DEF HandlerFails, Finish, Become, TInv, TypeOK
  <2>. QED
    BY <1>2, <1>3, <2>1, RestSpan DEF HandlerFails
<1>4. ASSUME Crash PROVE SpanInv'
  <2>1. \A a \in Actor : job'[a] = Idle
    BY <1>4 DEF Crash
  <2>. QED
    BY <1>2, <1>4, <2>1, RestSpan DEF Crash
<1>. QED
  BY <1>1, <1>3, <1>4

\* Time passes, readings arrive.
LEMMA ClockSpan ==
  ASSUME TInv, TInv', SpanInv,
         UNCHANGED vars \/ Tick \/ \E d \in Device : StoreReadings(d)
  PROVE  SpanInv'
<1>1. UNCHANGED <<sessions, told, job, ledger>> /\ (now' = now \/ now' = now + 1)
  BY DEF vars, Tick, StoreReadings
<1>2. /\ now' \in Time /\ now <= now'
      /\ \A a \in Actor : job'[a].at \in Nat
  BY <1>1 DEF TInv, TypeOK, Time, NoTime, Job
<1>3. \A d \in Device : told'[d] \subseteq Rows
  BY <1>1 DEF SpanInv
<1>. QED
  BY <1>1, <1>2, <1>3, QuietSpan

\* Every step keeps the invariant of the spans.
LEMMA NextSpan == TInv /\ TInv' /\ CreditInv /\ SpanInv /\ [Next]_vars => SpanInv'
<1> SUFFICES ASSUME TInv, TInv', CreditInv, SpanInv, [Next]_vars PROVE SpanInv'
  OBVIOUS
<1>1. ASSUME NEW h \in Handler, Handle(h) PROVE SpanInv'
  BY <1>1, HandlerFacts, HandlerMovesSpan, InsertSpan, LoadSpan, UpdateSpan, EndsSpan
     DEF Handle
<1>2. CASE CronRun \/ CronFails
  BY <1>2, CronMovesSpan, LoadSpan, UpdateSpan DEF CronRun, Actor
<1>. QED
  BY <1>1, <1>2, ClockSpan, ReceiveSpan, EndsSpan DEF Next

\* A completed session that at most two closes reached lasts from its start to
\* its end, whatever failed, and whatever stops and crons overlapped.
THEOREM CompletedSpansHold == Spec => []CompletedSpan
  BY TypeCorrect, InitCredit, NextCredit, InitSpan, NextSpan, SpanImplies, PTL DEF Spec

-----------------------------------------------------------------------------
(* With the starts of a device one at a time the tracker implements          *)
(* SessionRegister.                                                         *)

StartSteps == {"started_find", "started_max", "started_insert"}

\* A starter that found no active session still finds none when it inserts,
\* because no other starter of the device is in flight and nothing else makes
\* a session active; for the same reason its number is still the next one.
DeviceOK(d) ==
  /\ \A s, r \in ActiveOf(d) : s = r
  /\ \A g, h \in Handler : Starting(g, d) /\ Starting(h, d) => g = h
  /\ \A h \in Handler :
       job[h].device = d /\ job[h].pc \in {"started_max", "started_insert"} => ActiveOf(d) = {}
  /\ \A h \in Handler :
       job[h].device = d /\ job[h].pc = "started_insert" =>
         /\ \A s \in RowsOf(d) : sessions[s].number < job[h].number
         /\ \A n \in 1..(job[h].number - 1) : \E s \in RowsOf(d) : sessions[s].number = n

NumbersOK(d) ==
  \A s \in RowsOf(d) :
    /\ \A r \in RowsOf(d) : sessions[r].number = sessions[s].number => r = s
    /\ \A n \in 1..sessions[s].number : \E r \in RowsOf(d) : sessions[r].number = n

RegInv == \A d \in Device : DeviceOK(d) /\ NumbersOK(d)

\* No session and no start at work.
LEMMA InitReg == Init => RegInv
<1> SUFFICES ASSUME Init, NEW d \in Device PROVE DeviceOK(d) /\ NumbersOK(d)
  BY DEF RegInv
<1>1. Rows = {} /\ RowsOf(d) = {} /\ ActiveOf(d) = {}
  BY DEF Init, Rows, RowsOf, ActiveOf, ActiveRows
<1>2. \A h \in Handler : job[h].pc = "idle"
  BY DEF Init, Idle, Actor
<1>. QED
  BY <1>1, <1>2 DEF DeviceOK, NumbersOK, Starting

\* No row changes and nobody moves on with a start.
LEMMA QuietReg ==
  ASSUME RegInv, sessions' = sessions,
         \A h \in Handler : job'[h].pc \in StartSteps => job'[h] = job[h]
  PROVE  RegInv'
<1> SUFFICES ASSUME NEW d \in Device PROVE (DeviceOK(d) /\ NumbersOK(d))'
  BY DEF RegInv
<1>1. DeviceOK(d) /\ NumbersOK(d)
  BY DEF RegInv
<1>2. RowsOf(d)' = RowsOf(d) /\ ActiveOf(d)' = ActiveOf(d)
  BY DEF RowsOf, ActiveOf, ActiveRows, Rows, Status
<1>3. NumbersOK(d)'
  BY <1>1, <1>2 DEF NumbersOK
<1>4. DeviceOK(d)'
  BY <1>1, <1>2 DEF DeviceOK, Starting, StartSteps
<1>. QED
  BY <1>3, <1>4

\* A step that leaves the rows alone and moves no start on keeps the invariant.
LEMMA MoveReg ==
  ASSUME TInv, RegInv, sessions' = sessions, NEW a \in Actor, NEW k, Become(a, k),
         a = Cron \/ k.pc \notin StartSteps
  PROVE  RegInv'
<1>1. \A b \in Actor : job'[b] = IF b = a THEN k ELSE job[b]
  BY DEF Become, TInv, TypeOK
<1>2. \A h \in Handler : job'[h].pc \in StartSteps => job'[h] = job[h]
  BY <1>1, ConstantsAssumption DEF Actor
<1>. QED
  BY <1>2, QuietReg

\* A start is received when no other start of the device is at work.
LEMMA ReceiveReg ==
  ASSUME TInv, RegInv, ~OverlappingStarts, NEW h \in Handler, NEW e \in Device,
         Environment(h, e)
  PROVE  RegInv'
<1>1. CASE PumpOffReported(h, e) \/ LastWillReceived(h, e)
  <2>1. PICK step \in {"stopped_find", "disconnected_find"}, sid \in SessionId \cup {None} :
          Receive(h, e, step, sid)
    <3>1. told[e] \subseteq SessionId
      BY DEF TInv, TypeOK
    <3>. QED
      BY <1>1, <3>1 DEF PumpOffReported, LastWillReceived
  <2> DEFINE k == [Idle EXCEPT !.pc = step, !.device = e, !.at = now, !.sid = sid]
  <2>2. k.pc = step
    BY DEF Idle
  <2>. QED
    BY <2>1, <2>2, HandlerFacts, MoveReg DEF Receive, StartSteps
<1>2. CASE PumpOnReported(h, e)
  <2> DEFINE k == [Idle EXCEPT !.pc = "started_find", !.device = e, !.at = now, !.sid = None]
  <2>1. k.pc = "started_find" /\ k.device = e
    BY DEF Idle
  <2>2. \A b \in Actor : job'[b] = IF b = h THEN k ELSE job[b]
    BY <1>2 DEF PumpOnReported, Receive, Become, TInv, TypeOK
  <2>3. (\A g \in Handler : ~Starting(g, e)) /\ sessions' = sessions /\ h \in Actor
    BY <1>2, HandlerFacts DEF PumpOnReported, Receive
  <2> SUFFICES ASSUME NEW d \in Device PROVE (DeviceOK(d) /\ NumbersOK(d))'
    BY DEF RegInv
  <2>4. DeviceOK(d) /\ NumbersOK(d)
    BY DEF RegInv
  <2>5. RowsOf(d)' = RowsOf(d) /\ ActiveOf(d)' = ActiveOf(d)
    BY <2>3 DEF RowsOf, ActiveOf, ActiveRows, Rows, Status
  <2>6. NumbersOK(d)'
    BY <2>3, <2>4, <2>5 DEF NumbersOK
  <2>7. \A g \in Handler : g # h => job'[g] = job[g]
    BY <2>2 DEF Actor
  <2>8. job'[h] = k
    BY <2>2, <2>3
  <2>9. \A g \in Handler : Starting(g, d)' => (g = h /\ d = e) \/ (g # h /\ Starting(g, d))
    BY <2>1, <2>7, <2>8 DEF Starting
  <2>10. \A g, f \in Handler : Starting(g, d)' /\ Starting(f, d)' => g = f
    BY <2>3, <2>4, <2>9 DEF DeviceOK
  <2>11. \A g \in Handler : job'[g].pc \in {"started_max", "started_insert"} => job'[g] = job[g]
    BY <2>1, <2>7, <2>8
  <2>12. DeviceOK(d)'
    BY <2>3, <2>4, <2>5, <2>10, <2>11 DEF DeviceOK
  <2>. QED
    BY <2>6, <2>12
<1>. QED
  BY <1>1, <1>2 DEF Environment

\* A start goes on only if it found no active session.
LEMMA StartedFindReg ==
  ASSUME TInv, RegInv, NEW h \in Handler, StartedFind(h) PROVE RegInv'
<1> DEFINE j == job[h]
<1>1. /\ h \in Actor /\ j \in Job /\ j.pc = "started_find" /\ sessions' = sessions
  BY HandlerFacts DEF StartedFind
<1>2. CASE ActiveOf(j.device) # {}
  <2>1. PICK k : Become(h, k) /\ k.pc = "publish"
    <3>1. \A s : [j EXCEPT !.pc = "publish", !.sid = s].pc = "publish"
      BY <1>1 DEF Job
    <3>. QED
      BY <1>2, <3>1 DEF StartedFind
  <2>. QED
    BY <1>1, <2>1, MoveReg DEF StartSteps
<1>3. CASE ActiveOf(j.device) = {}
  <2> DEFINE k == [j EXCEPT !.pc = "started_max"]
  <2>1. k.pc = "started_max" /\ k.device = j.device
    BY <1>1 DEF Job
  <2>2. /\ job'[h] = k
        /\ \A g \in Handler : g # h => job'[g] = job[g]
    BY <1>1, <1>3 DEF StartedFind, Goto, Become, Actor, TInv, TypeOK
  <2> SUFFICES ASSUME NEW d \in Device PROVE (DeviceOK(d) /\ NumbersOK(d))'
    BY DEF RegInv
  <2>3. DeviceOK(d) /\ NumbersOK(d)
    BY DEF RegInv
  <2>4. RowsOf(d)' = RowsOf(d) /\ ActiveOf(d)' = ActiveOf(d)
    BY <1>1 DEF RowsOf, ActiveOf, ActiveRows, Rows, Status
  <2>5. NumbersOK(d)'
    BY <1>1, <2>3, <2>4 DEF NumbersOK
  <2>6. \A g \in Handler : Starting(g, d)' <=> Starting(g, d)
    BY <1>1, <2>1, <2>2 DEF Starting
  <2>7. \A g \in Handler : job'[g].pc = "started_insert" => job'[g] = job[g]
    BY <2>1, <2>2
  <2>8. \A g \in Handler :
          job'[g].device = d /\ job'[g].pc \in {"started_max", "started_insert"}
            => ActiveOf(d) = {}
    <3> SUFFICES ASSUME NEW g \in Handler, job'[g].device = d,
                        job'[g].pc \in {"started_max", "started_insert"}
                 PROVE  ActiveOf(d) = {}
      OBVIOUS
    <3>1. CASE g = h
      BY <1>3, <2>1, <2>2, <3>1
    <3>2. CASE g # h
      BY <2>2, <2>3, <3>2 DEF DeviceOK
    <3>. QED
      BY <3>1, <3>2
  <2>9. DeviceOK(d)'
    BY <1>1, <2>3, <2>4, <2>6, <2>7, <2>8 DEF DeviceOK
  <2>. QED
    BY <2>5, <2>9
<1>. QED
  BY <1>2, <1>3

\* The number a start computes is the next one.
LEMMA StartedMaxReg ==
  ASSUME TInv, RegInv, NEW h \in Handler, StartedMax(h) PROVE RegInv'
<1> DEFINE j == job[h]
<1>1. /\ h \in Actor /\ j \in Job /\ j.pc = "started_max" /\ sessions' = sessions
      /\ j.device \in Device
  BY HandlerFacts DEF StartedMax
<1>2. PICK m \in {sessions[s].number : s \in RowsOf(j.device)} \cup {0} :
        /\ IsMaxNumber(m, j.device)
        /\ Become(h, [j EXCEPT !.pc = "started_insert", !.number = m + 1])
  BY DEF StartedMax
<1>3. m \in Nat
  BY DEF RowsOf, TInv, TypeOK, Row
<1>4. PICK n \in Nat \ {0} : n = m + 1
  BY <1>3
<1> DEFINE k == [j EXCEPT !.pc = "started_insert", !.number = n]
<1>5. k.pc = "started_insert" /\ k.device = j.device /\ k.number = n
  BY <1>1 DEF Job
<1>6. job'[h] = k /\ \A g \in Handler : g # h => job'[g] = job[g]
  BY <1>1, <1>2, <1>4 DEF Become, Actor, TInv, TypeOK
<1> HIDE DEF k
<1> SUFFICES ASSUME NEW d \in Device PROVE (DeviceOK(d) /\ NumbersOK(d))'
  BY DEF RegInv
<1>7. DeviceOK(d) /\ NumbersOK(d)
  BY DEF RegInv
<1>8. RowsOf(d)' = RowsOf(d) /\ ActiveOf(d)' = ActiveOf(d)
  BY <1>1 DEF RowsOf, ActiveOf, ActiveRows, Rows, Status
<1>9. NumbersOK(d)'
  BY <1>1, <1>7, <1>8 DEF NumbersOK
<1>10. \A g \in Handler : Starting(g, d)' <=> Starting(g, d)
  BY <1>1, <1>5, <1>6 DEF Starting
<1>11. d = j.device => \A s \in RowsOf(d) : sessions[s].number \in Nat /\ sessions[s].number < n
  BY <1>2, <1>3, <1>4 DEF IsMaxNumber, RowsOf, TInv, TypeOK, Row
<1>12. d = j.device => \A i \in 1..(n - 1) : \E s \in RowsOf(d) : sessions[s].number = i
  <2> SUFFICES ASSUME d = j.device, NEW i \in 1..(n - 1)
               PROVE  \E s \in RowsOf(d) : sessions[s].number = i
    OBVIOUS
  <2>1. i \in 1..m /\ m # 0
    BY <1>3, <1>4
  <2>2. PICK s \in RowsOf(d) : sessions[s].number = m
    BY <1>2, <2>1
  <2>. QED
    BY <1>7, <2>1, <2>2 DEF NumbersOK
<1>13. ASSUME NEW g \in Handler, job'[g].device = d, job'[g].pc = "started_insert"
       PROVE  /\ \A s \in RowsOf(d) : sessions[s].number < job'[g].number
              /\ \A i \in 1..(job'[g].number - 1) : \E s \in RowsOf(d) : sessions[s].number = i
  <2>1. CASE g = h
    BY <1>5, <1>6, <1>11, <1>12, <1>13, <2>1
  <2>2. CASE g # h
    BY <1>6, <1>7, <1>13, <2>2 DEF DeviceOK
  <2>. QED
    BY <2>1, <2>2
<1>14. \A g \in Handler :
         job'[g].device = d /\ job'[g].pc \in {"started_max", "started_insert"}
           => ActiveOf(d) = {}
  BY <1>1, <1>5, <1>6, <1>7 DEF DeviceOK
<1>15. DeviceOK(d)'
  BY <1>1, <1>7, <1>8, <1>10, <1>13, <1>14 DEF DeviceOK
<1>. QED
  BY <1>9, <1>15

\* The insert keeps one active session and the numbering.
LEMMA StartedInsertReg ==
  ASSUME TInv, RegInv, NEW h \in Handler, StartedInsert(h) PROVE RegInv'
<1> PICK e \in Device, n \in Nat \ {0} : e = job[h].device /\ n = job[h].number
  BY HandlerFacts DEF StartedInsert, JobOK, Job
<1>1. job[h].pc = "started_insert" /\ Starting(h, e)
  BY DEF StartedInsert, Starting
<1>2. PICK s \in SessionId \ Rows :
        /\ Rows' = Rows \cup {s}
        /\ sessions'[s] = [device |-> e, number |-> job[h].number,
                           startedAt |-> job[h].at, cols |-> OpenColumns]
        /\ \A r \in Rows : sessions'[r] = sessions[r]
        /\ \A d \in Device : d # e => RowsOf(d)' = RowsOf(d) /\ ActiveOf(d)' = ActiveOf(d)
        /\ RowsOf(e)' = RowsOf(e) \cup {s}
        /\ ActiveOf(e)' = ActiveOf(e) \cup {s}
        /\ \A g \in Handler : IF g = h THEN job'[g].pc = "publish" ELSE job'[g] = job[g]
  BY InsertEffect
<1>0. sessions'[s].number = n
  BY <1>2
<1> SUFFICES ASSUME NEW d \in Device PROVE (DeviceOK(d) /\ NumbersOK(d))'
  BY DEF RegInv
<1>3. DeviceOK(d) /\ NumbersOK(d)
  BY DEF RegInv
<1>4. \A r \in RowsOf(d) : r \in Rows /\ r # s /\ sessions'[r] = sessions[r]
                           /\ sessions[r].number \in Nat
  BY <1>2 DEF RowsOf, TInv, TypeOK, Row
<1>5. \A g \in Handler : Starting(g, d)' => Starting(g, d) /\ g # h /\ job'[g] = job[g]
  BY <1>2 DEF Starting
<1>6. CASE d # e
  <2>1. RowsOf(d)' = RowsOf(d) /\ ActiveOf(d)' = ActiveOf(d)
    BY <1>2, <1>6
  <2>2. NumbersOK(d)'
    BY <1>3, <1>4, <2>1 DEF NumbersOK
  <2>3. \A g \in Handler : job'[g].pc \in {"started_max", "started_insert"} => job'[g] = job[g]
    BY <1>2
  <2>4. DeviceOK(d)'
    BY <1>3, <1>4, <1>5, <2>1, <2>3 DEF DeviceOK
  <2>. QED
    BY <2>2, <2>4
<1>7. CASE d = e
  <2>1. /\ ActiveOf(d) = {}
        /\ \A r \in RowsOf(d) : sessions[r].number < n
        /\ \A i \in 1..(n - 1) : \E r \in RowsOf(d) : sessions[r].number = i
    BY <1>1, <1>3, <1>7 DEF DeviceOK
  <2>2. \A g \in Handler : ~Starting(g, d)'
    BY <1>1, <1>3, <1>5, <1>7 DEF DeviceOK
  <2>3. DeviceOK(d)'
    BY <1>2, <1>7, <2>1, <2>2 DEF DeviceOK, Starting
  <2>4. RowsOf(d)' = RowsOf(d) \cup {s}
    BY <1>2, <1>7
  <2>5. ASSUME NEW r \in RowsOf(d)'
        PROVE  /\ \A q \in RowsOf(d)' : sessions'[q].number = sessions'[r].number => q = r
               /\ \A i \in 1..sessions'[r].number :
                    \E q \in RowsOf(d)' : sessions'[q].number = i
    <3>1. CASE r = s
      <4>1. \A q \in RowsOf(d) : sessions'[q].number # n
        BY <1>1, <1>4, <2>1
      <4>2. \A i \in 1..n : i = n \/ i \in 1..(n - 1)
        BY <1>1
      <4>. QED
        BY <1>0, <1>4, <2>1, <2>4, <3>1, <4>1, <4>2
    <3>2. CASE r \in RowsOf(d)
      <4>1. sessions'[r].number # n
        BY <1>1, <1>4, <2>1, <3>2
      <4>. QED
        BY <1>0, <1>3, <1>4, <2>4, <3>2, <4>1 DEF NumbersOK
    <3>. QED
      BY <2>4, <3>1, <3>2
  <2>6. NumbersOK(d)'
    BY <2>5 DEF NumbersOK
  <2>. QED
    BY <2>3, <2>6
<1>. QED
  BY <1>6, <1>7

\* A save ends a session and makes none active.
LEMMA SaveReg ==
  ASSUME TInv, RegInv, NEW a \in Actor, Saves(a),
         \A h \in Handler : job'[h].pc \in StartSteps => job'[h] = job[h]
  PROVE  RegInv'
<1> SUFFICES ASSUME NEW d \in Device PROVE (DeviceOK(d) /\ NumbersOK(d))'
  BY DEF RegInv
<1>1. DeviceOK(d) /\ NumbersOK(d)
  BY DEF RegInv
<1>2. RowsOf(d)' = RowsOf(d) /\ ActiveOf(d)' \subseteq ActiveOf(d)
  BY SaveEffect DEF RowsOf, ActiveOf, ActiveRows
<1>3. \A s \in RowsOf(d) : sessions'[s].number = sessions[s].number
  BY SaveEffect DEF RowsOf
<1>4. NumbersOK(d)'
  BY <1>1, <1>2, <1>3 DEF NumbersOK
<1>5. DeviceOK(d)'
  BY <1>1, <1>2, <1>3 DEF DeviceOK, Starting, StartSteps
<1>. QED
  BY <1>4, <1>5

\* After a close its actor starts nothing.
LEMMA UpdateReg ==
  ASSUME TInv, RegInv, NEW a \in Actor, Update(a) PROVE RegInv'
<1>1. job[a] \in Job /\ Saves(a)
  BY DEF Update, Saves, TInv, TypeOK
<1>2. AfterClose(a, job[a]).pc \notin StartSteps
  BY <1>1 DEF AfterClose, Idle, Job, StartSteps
<1>3. \A h \in Handler : job'[h].pc \in StartSteps => job'[h] = job[h]
  BY <1>2 DEF Update, Become, TInv, TypeOK, Actor
<1>. QED
  BY <1>1, <1>3, SaveReg

\* The steps that leave the table alone and start nothing.
LEMMA OtherReg ==
  ASSUME TInv, RegInv,
         \/ UNCHANGED vars \/ Tick \/ \E d \in Device : StoreReadings(d)
         \/ CronTick \/ CronScan \/ CronCheck \/ CronFails \/ Crash
         \/ \E a \in Actor : Load(a)
         \/ \E h \in Handler : \/ PublishSessionId(h) \/ StoppedFind(h) \/ DisconnectedFind(h)
                               \/ DisconnectedLast(h) \/ AddHours(h) \/ HandlerFails(h)
  PROVE  RegInv'
<1>1. Idle.pc \notin StartSteps
  BY DEF Idle, StartSteps
<1>2. \A a \in Actor : job[a] \in Job
  BY DEF TInv, TypeOK
<1>3. \A a \in Actor : \A s, end, status, reason :
        BeginClose(a, s, end, status, reason).pc = "load"
  BY <1>2 DEF BeginClose, Job
<1>4. CASE UNCHANGED vars \/ Tick \/ \E d \in Device : StoreReadings(d)
  BY <1>4, QuietReg DEF vars, Tick, StoreReadings
<1>5. CASE CronTick \/ CronScan \/ CronCheck \/ CronFails
  <2>1. \A h \in Handler : job'[h] = job[h]
    BY <1>5, ConstantsAssumption
       DEF CronTick, CronScan, CronCheck, CronFails, Goto, Finish, Become, TInv, TypeOK, Actor
  <2>. QED
    BY <1>5, <2>1, QuietReg DEF CronTick, CronScan, CronCheck, CronFails
<1>6. CASE Crash
  BY <1>1, <1>6, QuietReg DEF Crash, Actor
<1>7. ASSUME NEW a \in Actor, Load(a) PROVE RegInv'
  <2>1. [job[a] EXCEPT !.pc = "update", !.loaded = sessions[job[a].sid].cols].pc = "update"
    BY <1>2 DEF Job
  <2>. QED
    BY <1>7, <2>1, MoveReg DEF Load, StartSteps
<1>8. ASSUME NEW h \in Handler,
             \/ PublishSessionId(h) \/ AddHours(h) \/ HandlerFails(h)
      PROVE  RegInv'
  BY <1>1, <1>8, HandlerFacts, MoveReg DEF PublishSessionId, AddHours, HandlerFails, Finish
<1>9. ASSUME NEW h \in Handler, StoppedFind(h) \/ DisconnectedFind(h) \/ DisconnectedLast(h)
      PROVE  RegInv'
  <2>1. \A s : [job[h] EXCEPT !.pc = "disconnected_last", !.sid = s].pc = "disconnected_last"
    BY <1>2, HandlerFacts DEF Job
  <2>2. /\ \A s, end, status, reason : BeginClose(h, s, end, status, reason).pc = "load"
        /\ Idle.pc = "idle"
    BY <1>3, HandlerFacts DEF Idle
  <2>3. PICK k : Become(h, k) /\ k.pc \in {"idle", "load", "disconnected_last"}
    <3>1. CASE StoppedFind(h)
      BY <2>2, <3>1 DEF StoppedFind, Finish
    <3>2. CASE DisconnectedFind(h)
      BY <2>1, <2>2, <3>2 DEF DisconnectedFind, Finish
    <3>3. CASE DisconnectedLast(h)
      BY <2>2, <3>3 DEF DisconnectedLast
    <3>. QED
      BY <1>9, <3>1, <3>2, <3>3
  <2>. QED
    BY <1>9, <2>3, HandlerFacts, MoveReg
       DEF StoppedFind, DisconnectedFind, DisconnectedLast, StartSteps
<1>. QED
  BY <1>4, <1>5, <1>6, <1>7, <1>8, <1>9

\* Every step keeps the invariant of the register.
LEMMA NextReg == TInv /\ RegInv /\ ~OverlappingStarts /\ [Next]_vars => RegInv'
<1> SUFFICES ASSUME TInv, RegInv, ~OverlappingStarts, [Next]_vars PROVE RegInv'
  OBVIOUS
<1>1. Handler \subseteq Actor /\ Cron \in Actor
  BY DEF Actor
<1>2. ASSUME NEW h \in Handler, Handle(h) PROVE RegInv'
  BY <1>1, <1>2, StartedFindReg, StartedMaxReg, StartedInsertReg, UpdateReg, OtherReg
     DEF Handle
<1>3. CASE CronRun
  BY <1>1, <1>3, UpdateReg, OtherReg DEF CronRun
<1>4. ASSUME NEW h \in Handler, NEW d \in Device, Environment(h, d) PROVE RegInv'
  BY <1>4, ReceiveReg
<1>. QED
  BY <1>2, <1>3, <1>4, OtherReg DEF Next

\* The invariant of the register holds throughout.
LEMMA RegisterInvariant == ASSUME ~OverlappingStarts PROVE Spec => []RegInv
  BY TypeCorrect, InitReg, NextReg, PTL DEF Spec

\* At most one session of a device is active, whatever crashes, fails or
\* overlaps, as long as two starts of the device do not.
THEOREM AtMostOneActive == ASSUME ~OverlappingStarts PROVE Spec => []OneActive
<1>1. RegInv => OneActive
  BY DEF RegInv, DeviceOK, OneActive
<1>. QED
  BY <1>1, RegisterInvariant, PTL

\* And the sessions of a device are numbered without gap or repetition.
THEOREM NumberedInOrder == ASSUME ~OverlappingStarts PROVE Spec => []Numbered
<1>1. RegInv => Numbered
  BY DEF RegInv, NumbersOK, Numbered
<1>. QED
  BY <1>1, RegisterInvariant, PTL

-----------------------------------------------------------------------------
\* An empty table is an empty register.
LEMMA InitRefines == Init => Abstract!Init
  BY DEF Init, Abstract!Init, Abstract!Blank, Register, Rows

\* The entry of a session: blank until its row is inserted.
LEMMA RegisterEntries ==
  /\ \A s \in SessionId : s \notin Rows => Register[s] = Abstract!Blank
  /\ \A s \in SessionId : s \in Rows =>
       Register[s] = [phase |-> IF Status(s) = "active" THEN "open" ELSE "closed",
                      device |-> sessions[s].device, number |-> sessions[s].number]
  BY DEF Register, Abstract!Blank

\* The register depends on the rows alone.
LEMMA SameRegister ==
  ASSUME sessions' = sessions PROVE Register' = Register
  BY DEF Register, Rows, Status

\* An insert opens a session of the register.
LEMMA InsertRefines ==
  ASSUME TInv, RegInv, NEW h \in Handler, StartedInsert(h)
  PROVE  \E s \in SessionId, d \in Device : Abstract!Open(s, d)
<1> PICK d \in Device, n \in Nat \ {0} : d = job[h].device /\ n = job[h].number
  BY HandlerFacts DEF StartedInsert, JobOK, Job
<1>1. job[h].pc = "started_insert" /\ DeviceOK(d) /\ NumbersOK(d)
  BY DEF StartedInsert, RegInv
<1>2. PICK s \in SessionId \ Rows :
        /\ Rows' = Rows \cup {s}
        /\ sessions'[s] = [device |-> d, number |-> job[h].number,
                           startedAt |-> job[h].at, cols |-> OpenColumns]
        /\ \A r \in Rows : sessions'[r] = sessions[r]
  BY InsertEffect
<1>3. Register[s] = Abstract!Blank
  BY RegisterEntries
<1>4. \A r \in SessionId : Register[r].device = d <=> r \in RowsOf(d)
  BY ConstantsAssumption DEF Register, RowsOf, Rows
<1>5. \A r \in SessionId : Register[r].device = d => Register[r].phase # "open"
  <2>1. ActiveOf(d) = {}
    BY <1>1 DEF DeviceOK
  <2>. QED
    BY <1>4, <2>1 DEF Register, RowsOf, ActiveOf, ActiveRows
<1>6. Rows \subseteq SessionId /\ \A r \in RowsOf(d) : Register[r].number = sessions[r].number
  BY DEF Register, RowsOf, TInv, TypeOK
<1>7. Abstract!NumbersOf(d) = {sessions[r].number : r \in RowsOf(d)}
  BY <1>4, <1>6 DEF Abstract!NumbersOf, RowsOf
<1>8. PICK m \in Nat : n = m + 1
  OBVIOUS
<1>9. {sessions[r].number : r \in RowsOf(d)} = 1..m
  <2>1. \A r \in RowsOf(d) : sessions[r].number \in Nat \ {0} /\ sessions[r].number < n
    BY <1>1 DEF DeviceOK, RowsOf, TInv, TypeOK, Row
  <2>2. \A i \in 1..m : \E r \in RowsOf(d) : sessions[r].number = i
    <3>1. \A i \in 1..(job[h].number - 1) : \E r \in RowsOf(d) : sessions[r].number = i
      BY <1>1 DEF DeviceOK
    <3>2. job[h].number - 1 = m
      BY <1>8
    <3>. QED
      BY <3>1, <3>2
  <2>. QED
    BY <1>8, <2>1, <2>2
<1>10. m \in Abstract!NumbersOf(d) \cup {0} /\ Abstract!NumbersOf(d) = 1..m
  BY <1>7, <1>9
<1>11. Register' = [Register EXCEPT ![s] = [phase |-> "open", device |-> d, number |-> m + 1]]
  <2>1. /\ sessions'[s].cols.status = "active" /\ sessions'[s].device = d
        /\ sessions'[s].number = m + 1
    BY <1>2, <1>8 DEF OpenColumns
  <2>2. \A r \in SessionId :
          Register'[r] = IF r = s THEN [phase |-> "open", device |-> d, number |-> m + 1]
                                  ELSE Register[r]
    BY <1>2, <2>1 DEF Register, Status
  <2>. QED
    BY <2>2 DEF Register
<1>. QED
  BY <1>3, <1>5, <1>10, <1>11 DEF Abstract!Open

\* A save closes a session of the register, or leaves the register alone.
LEMMA SaveRefines ==
  ASSUME TInv, NEW a \in Actor, Saves(a)
  PROVE  Register' = Register \/ \E s \in SessionId : Abstract!Close(s)
<1> PICK s \in Rows : s = job[a].sid
  BY SaveEffect
<1>1. s \in SessionId
  BY DEF TInv, TypeOK
<1>2. \A r \in SessionId : r # s => Register'[r] = Register[r]
  BY SaveEffect DEF Register, Status
<1>3. CASE Status(s) = "active" /\ Status(s)' # "active"
  <2>1. /\ Register[s].phase = "open"
        /\ Register'[s] = [Register[s] EXCEPT !.phase = "closed"]
    BY <1>1, <1>3, SaveEffect DEF Register
  <2>2. Register' = [Register EXCEPT ![s] = [Register[s] EXCEPT !.phase = "closed"]]
    BY <1>1, <1>2, <2>1 DEF Register
  <2>. QED
    BY <1>1, <2>1, <2>2 DEF Abstract!Close
<1>4. CASE ~(Status(s) = "active" /\ Status(s)' # "active")
  <2>1. Register'[s] = Register[s]
    BY <1>1, <1>4, SaveEffect DEF Register
  <2>. QED
    BY <1>2, <2>1 DEF Register
<1>. QED
  BY <1>3, <1>4

\* Every step opens, closes or leaves the register alone.
LEMMA NextRefines ==
  TInv /\ RegInv /\ [Next]_vars => [Abstract!Next]_Register
<1> SUFFICES ASSUME TInv, RegInv, [Next]_vars
             PROVE  Register' = Register \/ Abstract!Next
  OBVIOUS
<1>1. ASSUME NEW h \in Handler, StartedInsert(h) PROVE Abstract!Next
  BY <1>1, InsertRefines DEF Abstract!Next
<1>2. ASSUME NEW a \in Actor, Update(a) PROVE Register' = Register \/ Abstract!Next
  BY <1>2, SaveRefines DEF Abstract!Next, Update, Saves
<1>3. CASE sessions' = sessions
  BY <1>3, SameRegister
<1>4. \/ sessions' = sessions
      \/ \E h \in Handler : StartedInsert(h)
      \/ \E a \in Actor : Update(a)
  BY DEF Next, vars, Tick, StoreReadings, Environment, PumpOnReported, PumpOffReported,
         LastWillReceived, Receive, Handle, StartedFind, StartedMax, PublishSessionId,
         StoppedFind, DisconnectedFind, DisconnectedLast, Load, AddHours, HandlerFails,
         CronRun, CronTick, CronScan, CronCheck, CronFails, Crash, Actor
<1>. QED
  BY <1>1, <1>2, <1>3, <1>4

\* With starts of a device one at a time, the tracker implements the register.
THEOREM ImplementsRegister == ASSUME ~OverlappingStarts PROVE Spec => KeepsRegister
  BY InitRefines, TypeCorrect, RegisterInvariant, NextRefines, PTL
     DEF Spec, KeepsRegister, Abstract!Spec
=============================================================================
