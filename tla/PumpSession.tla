----------------------------- MODULE PumpSession -----------------------------
(***************************************************************************)
(* The pump session tracker (src/src/pump/pump.service.ts).                 *)
(*                                                                         *)
(* A controller reports its pump through telemetry.  The service turns      *)
(* "on" into an ACTIVE row of pump_session, tells the controller the id of  *)
(* that row, and closes the row on "off", on the controller's last will    *)
(* (LWT), or from a cron when the controller has gone silent.  Every        *)
(* handler awaits the database between its steps, so handlers interleave    *)
(* at each query; a step here is one query and the code up to the next one. *)
(***************************************************************************)
EXTENDS Integers, FiniteSets, FiniteSetsExt

CONSTANTS
  Device,             \* controllers
  SessionId,          \* ids pump_session can hand out (bounds the model)
  Handler,            \* event handlers that can be in flight at once (bound)
  MaxTime,            \* last value of the clock (bound)
  MaxFailures,        \* failed queries and server crashes (bound)
  StaleAfter,         \* STALE_THRESHOLD_MS, in clock units
  OverlappingStarts,  \* may two pump.started of one device be in flight?
  Cron,               \* the cleanup cron, an actor beside the handlers
  None                \* no session id, no device

ASSUME ConstantsAssumption ==
  /\ MaxTime \in Nat \ {0}
  /\ MaxFailures \in Nat
  /\ StaleAfter \in Nat
  /\ OverlappingStarts \in BOOLEAN
  /\ None \notin SessionId \cup Device
  /\ Cron \notin Handler

VARIABLES
  now,       \* the clock
  sessions,  \* table pump_session: a function from ids to rows
  hours,     \* device.totalOperatingHours
  lastData,  \* MAX(sensor_data.createdAt) of each device, NoTime if none
  told,      \* session ids published to each controller
  job,       \* what each handler, and the cron, is doing
  queue,     \* sessions the running cron has still to look at
  failures,  \* failures so far
  ledger     \* history: what was done to each session

vars == <<now, sessions, hours, lastData, told, job, queue, failures, ledger>>

-----------------------------------------------------------------------------
Time == 1..MaxTime
NoTime == 0        \* a null timestamp
NoDuration == -1   \* a null durationSeconds
Actor == Handler \cup {Cron}

Closed == {"completed", "interrupted"}

\* The columns closeSession assigns, as a row, a held entity or a snapshot.
Columns == [endedAt : Time \cup {NoTime}, status : {"active"} \cup Closed,
            reason : {"none", "esp_reboot", "lwt", "timeout"}, duration : Nat \cup {NoDuration}]

Row == [device : Device, number : Nat \ {0}, startedAt : Time, cols : Columns]

OpenColumns ==
  [endedAt |-> NoTime, status |-> "active", reason |-> "none",
   duration |-> NoDuration]

\* A handler that runs nothing.  `at` is the time of its message (of its scan,
\* for the cron), sid the session it works on, held the entity it will save
\* and loaded the row the ORM compared it with.
Idle == [pc |-> "idle", device |-> None, at |-> NoTime, sid |-> None,
         number |-> 0, held |-> OpenColumns, loaded |-> OpenColumns]

HandlerSteps == {"started_find", "started_max", "started_insert", "publish",
                 "stopped_find", "disconnected_find", "disconnected_last",
                 "load", "update", "hours"}

CronSteps == {"scan", "check", "load", "update"}

Job == [pc : {"idle"} \cup HandlerSteps \cup CronSteps, device : Device \cup {None},
        at : Time \cup {NoTime}, sid : SessionId \cup {None}, number : Nat,
        held : Columns, loaded : Columns]

Rows == DOMAIN sessions
Status(s) == sessions[s].cols.status
ActiveRows == {s \in Rows : Status(s) = "active"}
ActiveOf(d) == {s \in ActiveRows : sessions[s].device = d}
RowsOf(d) == {s \in Rows : sessions[s].device = d}

Become(a, j) == job' = [job EXCEPT ![a] = j]
Finish(a) == Become(a, Idle)
Goto(a, step) == Become(a, [job[a] EXCEPT !.pc = step])

-----------------------------------------------------------------------------
Init ==
  /\ now = 1
  /\ sessions = [s \in {} |-> OpenColumns]
  /\ hours = [d \in Device |-> 0]
  /\ lastData = [d \in Device |-> NoTime]
  /\ told = [d \in Device |-> {}]
  /\ job = [a \in Actor |-> Idle]
  /\ queue = {}
  /\ failures = 0
  /\ ledger = [s \in SessionId |-> [closes |-> 0, credited |-> 0, lost |-> FALSE]]

Tick ==
  /\ now < MaxTime
  /\ now' = now + 1
  /\ UNCHANGED <<sessions, hours, lastData, told, job, queue, failures, ledger>>

\* SensorService stores the readings of a telemetry message.
StoreReadings(d) ==
  /\ lastData' = [lastData EXCEPT ![d] = now]
  /\ UNCHANGED <<now, sessions, hours, told, job, queue, failures, ledger>>

\* A message about d reaches the server: its time is taken here, before the
\* sync service awaits the device row and emits the event.
Receive(h, d, step, sid) ==
  /\ job[h].pc = "idle"
  /\ Become(h, [Idle EXCEPT !.pc = step, !.device = d, !.at = now, !.sid = sid])
  /\ UNCHANGED <<now, sessions, hours, lastData, told, queue, failures, ledger>>

Starting(g, d) ==
  /\ job[g].device = d
  /\ job[g].pc \in {"started_find", "started_max", "started_insert"}

PumpOnReported(h, d) ==
  /\ OverlappingStarts \/ \A g \in Handler : ~Starting(g, d)
  /\ Receive(h, d, "started_find", None)

\* The controller sends the id it was given; after a reboot it has none.  A
\* message delivered twice or late carries an id of an earlier session.
PumpOffReported(h, d) ==
  \E sid \in told[d] \cup {None} : Receive(h, d, "stopped_find", sid)

LastWillReceived(h, d) == Receive(h, d, "disconnected_find", None)

-----------------------------------------------------------------------------
\* Faulty variant: no look for an active session.
StartedFindNone(h) ==
  /\ job[h].pc = "started_find"
  /\ Goto(h, "started_max")
  /\ UNCHANGED <<now, sessions, hours, lastData, told, queue, failures, ledger>>

\* handlePumpStarted: look for an active session of the device.
StartedFind(h) ==
  LET d == job[h].device IN
  /\ job[h].pc = "started_find"
  /\ IF ActiveOf(d) = {}
       THEN Goto(h, "started_max")
       ELSE \E s \in ActiveOf(d) :
              Become(h, [job[h] EXCEPT !.pc = "publish", !.sid = s])
  /\ UNCHANGED <<now, sessions, hours, lastData, told, queue, failures, ledger>>

\* MAX(sessionNumber) of the device's sessions, 0 if it has none.
IsMaxNumber(m, d) == \A s \in RowsOf(d) : sessions[s].number <= m

\* Faulty variant: the increment is forgotten.
StartedMaxSame(h) ==
  LET d == job[h].device IN
  /\ job[h].pc = "started_max"
  /\ \E m \in {sessions[s].number : s \in RowsOf(d)} \cup {0} :
       /\ IsMaxNumber(m, d)
       /\ Become(h, [job[h] EXCEPT !.pc = "started_insert", !.number = m])
  /\ UNCHANGED <<now, sessions, hours, lastData, told, queue, failures, ledger>>

\* Faulty variant: the maximum is taken over the active sessions only.
StartedMaxActive(h) ==
  LET numbers == {sessions[s].number : s \in ActiveOf(job[h].device)} \cup {0} IN
  /\ job[h].pc = "started_max"
  /\ \E m \in numbers :
       /\ \A n \in numbers : n <= m
       /\ Become(h, [job[h] EXCEPT !.pc = "started_insert", !.number = m + 1])
  /\ UNCHANGED <<now, sessions, hours, lastData, told, queue, failures, ledger>>

StartedMax(h) ==
  LET d == job[h].device IN
  /\ job[h].pc = "started_max"
  /\ \E m \in {sessions[s].number : s \in RowsOf(d)} \cup {0} :
       /\ IsMaxNumber(m, d)
       /\ Become(h, [job[h] EXCEPT !.pc = "started_insert", !.number = m + 1])
  /\ UNCHANGED <<now, sessions, hours, lastData, told, queue, failures, ledger>>

StartedInsert(h) ==
  /\ job[h].pc = "started_insert"
  /\ \E s \in SessionId \ Rows :
       /\ sessions' = [r \in Rows \cup {s} |->
                         IF r = s
                           THEN [device |-> job[h].device,
                                 number |-> job[h].number,
                                 startedAt |-> job[h].at,
                                 cols |-> OpenColumns]
                           ELSE sessions[r]]
       /\ Become(h, [job[h] EXCEPT !.pc = "publish", !.sid = s])
  /\ UNCHANGED <<now, hours, lastData, told, queue, failures, ledger>>

\* Faulty variant: the entity found before is saved again.
PublishAndSave(h) ==
  LET j == job[h] IN
  /\ j.pc = "publish"
  /\ told' = [told EXCEPT ![j.device] = @ \cup {j.sid}]
  /\ sessions' = [sessions EXCEPT ![j.sid].cols = OpenColumns]
  /\ Finish(h)
  /\ UNCHANGED <<now, hours, lastData, queue, failures, ledger>>

\* publishSessionId: the error of a failed publish is swallowed.
PublishSessionId(h) ==
  LET d == job[h].device IN
  /\ job[h].pc = "publish"
  /\ told' \in {told, [told EXCEPT ![d] = @ \cup {job[h].sid}]}
  /\ Finish(h)
  /\ UNCHANGED <<now, sessions, hours, lastData, queue, failures, ledger>>

-----------------------------------------------------------------------------
\* closeSession assigns these columns to the held entity before its queries.
Closing(s, end, status, reason) ==
  LET start == sessions[s].startedAt
  IN  [endedAt |-> end, status |-> status, reason |-> reason,
       duration |-> IF end > start THEN end - start ELSE 0]

BeginClose(a, s, end, status, reason) ==
  [job[a] EXCEPT !.pc = "load", !.sid = s,
                 !.held = Closing(s, end, status, reason)]

\* Faulty variant: a stop without an id counts as a normal one.
StoppedFindCompleted(h) ==
  LET j == job[h]
      found == IF j.sid # None THEN {j.sid} \cap ActiveRows ELSE ActiveOf(j.device)
  IN
  /\ j.pc = "stopped_find"
  /\ IF found = {}
       THEN Finish(h)
       ELSE \E s \in found : Become(h, BeginClose(h, s, j.at, "completed", "none"))
  /\ UNCHANGED <<now, sessions, hours, lastData, told, queue, failures, ledger>>

\* handlePumpStopped: by id when the controller sent one, by device otherwise.
StoppedFind(h) ==
  LET j == job[h]
      found == IF j.sid # None THEN {j.sid} \cap ActiveRows ELSE ActiveOf(j.device)
      status == IF j.sid # None THEN "completed" ELSE "interrupted"
      reason == IF j.sid # None THEN "none" ELSE "esp_reboot"
  IN
  /\ j.pc = "stopped_find"
  /\ IF found = {}
       THEN Finish(h)
       ELSE \E s \in found : Become(h, BeginClose(h, s, j.at, status, reason))
  /\ UNCHANGED <<now, sessions, hours, lastData, told, queue, failures, ledger>>

\* handlePumpDisconnected: the active session, then the last reading.
DisconnectedFind(h) ==
  LET d == job[h].device IN
  /\ job[h].pc = "disconnected_find"
  /\ IF ActiveOf(d) = {}
       THEN Finish(h)
       ELSE \E s \in ActiveOf(d) :
              Become(h, [job[h] EXCEPT !.pc = "disconnected_last", !.sid = s])
  /\ UNCHANGED <<now, sessions, hours, lastData, told, queue, failures, ledger>>

DisconnectedLast(h) ==
  LET j == job[h]
      last == lastData[j.device]
      end == IF last > sessions[j.sid].startedAt THEN last ELSE j.at
  IN
  /\ j.pc = "disconnected_last"
  /\ Become(h, BeginClose(h, j.sid, end, "interrupted", "lwt"))
  /\ UNCHANGED <<now, sessions, hours, lastData, told, queue, failures, ledger>>

\* save(), first half: the ORM loads the row it will compare the entity with,
\* after the aggregate queries of closeSession.
Load(a) ==
  /\ job[a].pc = "load"
  /\ Become(a, [job[a] EXCEPT !.pc = "update", !.loaded = sessions[job[a].sid].cols])
  /\ UNCHANGED <<now, sessions, hours, lastData, told, queue, failures, ledger>>

\* The columns an UPDATE leaves: those the ORM saw changed get the entity's
\* value, the others keep what the row holds by now.
Merge(row, held, loaded) ==
  [endedAt  |-> IF held.endedAt # loaded.endedAt THEN held.endedAt ELSE row.endedAt,
   status   |-> IF held.status # loaded.status THEN held.status ELSE row.status,
   reason   |-> IF held.reason # loaded.reason THEN held.reason ELSE row.reason,
   duration |-> IF held.duration # loaded.duration THEN held.duration ELSE row.duration]

\* Faulty variants: interrupted sessions earn hours; the shortest earn none.
EarnsAlways(cols) == cols.duration > 0
EarnsLong(cols) == cols.status = "completed" /\ cols.duration > 1

EarnsHours(cols) == cols.status = "completed" /\ cols.duration > 0

\* What an actor does after the save of a close.
AfterClose(a, j) ==
  IF a = Cron
    THEN IF queue = {} THEN Idle ELSE [Idle EXCEPT !.pc = "check", !.at = j.at]
    ELSE IF EarnsHours(j.held) THEN [j EXCEPT !.pc = "hours"] ELSE Idle

\* save(), second half.
Update(a) ==
  LET j == job[a] IN
  /\ j.pc = "update"
  /\ sessions' = [sessions EXCEPT ![j.sid].cols = Merge(@, j.held, j.loaded)]
  /\ ledger' = [ledger EXCEPT ![j.sid].closes = @ + 1]
  /\ Become(a, AfterClose(a, j))
  /\ UNCHANGED <<now, hours, lastData, told, queue, failures>>

\* totalOperatingHours = totalOperatingHours + duration, in the database.
AddHours(h) ==
  LET j == job[h] IN
  /\ j.pc = "hours"
  /\ hours' = [hours EXCEPT ![sessions[j.sid].device] = @ + j.held.duration]
  /\ ledger' = [ledger EXCEPT ![j.sid].credited = @ + j.held.duration]
  /\ Finish(h)
  /\ UNCHANGED <<now, sessions, lastData, told, queue, failures>>

-----------------------------------------------------------------------------
\* cleanupStaleSessions, every 60 s; the tick returns while one is executing.
CronTick ==
  /\ job[Cron].pc = "idle"
  /\ Goto(Cron, "scan")
  /\ UNCHANGED <<now, sessions, hours, lastData, told, queue, failures, ledger>>

\* Faulty variant: the early return does not reset the flag.
CronScanKeepsFlag ==
  /\ job[Cron].pc = "scan"
  /\ queue' = ActiveRows
  /\ Become(Cron, [Idle EXCEPT !.pc = IF ActiveRows = {} THEN "executing" ELSE "check",
                               !.at = now])
  /\ UNCHANGED <<now, sessions, hours, lastData, told, failures, ledger>>

CronScan ==
  /\ job[Cron].pc = "scan"
  /\ queue' = ActiveRows
  /\ Become(Cron, IF ActiveRows = {} THEN Idle
                  ELSE [Idle EXCEPT !.pc = "check", !.at = now])
  /\ UNCHANGED <<now, sessions, hours, lastData, told, failures, ledger>>

\* No reading at all, or the last one more than StaleAfter before t.
Silent(d, t) == lastData[d] = NoTime \/ t - lastData[d] > StaleAfter

CronCheck ==
  /\ job[Cron].pc = "check"
  /\ \E s \in queue :
       LET start == sessions[s].startedAt
           last == lastData[sessions[s].device]
           end == IF last > start THEN last ELSE start
           left == queue \ {s}
       IN
       /\ queue' = left
       /\ IF Silent(sessions[s].device, job[Cron].at)
            THEN Become(Cron, BeginClose(Cron, s, end, "interrupted", "timeout"))
            ELSE IF left = {} THEN Finish(Cron) ELSE UNCHANGED job
  /\ UNCHANGED <<now, sessions, hours, lastData, told, failures, ledger>>

-----------------------------------------------------------------------------
\* Hours that die with a job which was about to add them.
Dropped(J) ==
  [s \in SessionId |->
     IF \E a \in J : job[a].pc = "hours" /\ job[a].sid = s
       THEN [ledger[s] EXCEPT !.lost = TRUE] ELSE ledger[s]]

\* A query rejects: the handler's catch logs it and the event is gone.
HandlerFails(h) ==
  /\ failures < MaxFailures
  /\ job[h].pc \notin {"idle", "publish"}
  /\ failures' = failures + 1
  /\ ledger' = Dropped({h})
  /\ Finish(h)
  /\ UNCHANGED <<now, sessions, hours, lastData, told, queue>>

\* In the cron a failed scan ends the run (finally resets the flag); a failed
\* session is skipped and the loop goes on.
CronFails ==
  /\ failures < MaxFailures
  /\ failures' = failures + 1
  /\ \/ job[Cron].pc = "scan" /\ queue' = {}
     \/ job[Cron].pc \in {"load", "update"} /\ queue' = queue
     \/ job[Cron].pc = "check" /\ \E s \in queue : queue' = queue \ {s}
  /\ Become(Cron, IF queue' = {} THEN Idle
                  ELSE [Idle EXCEPT !.pc = "check", !.at = job[Cron].at])
  /\ UNCHANGED <<now, sessions, hours, lastData, told, ledger>>

\* The process dies and restarts: what was in flight is gone, the database
\* and what the controllers were told is not.
Crash ==
  /\ failures < MaxFailures
  /\ \E a \in Actor : job[a].pc # "idle"
  /\ failures' = failures + 1
  /\ ledger' = Dropped(Handler)
  /\ job' = [a \in Actor |-> Idle]
  /\ queue' = {}
  /\ UNCHANGED <<now, sessions, hours, lastData, told>>

Handle(h) ==
  \/ StartedFind(h) \/ StartedMax(h) \/ StartedInsert(h) \/ PublishSessionId(h)
  \/ StoppedFind(h) \/ DisconnectedFind(h) \/ DisconnectedLast(h)
  \/ Load(h) \/ Update(h) \/ AddHours(h)

CronRun == CronTick \/ CronScan \/ CronCheck \/ Load(Cron) \/ Update(Cron)

Environment(h, d) ==
  PumpOnReported(h, d) \/ PumpOffReported(h, d) \/ LastWillReceived(h, d)

Next ==
  \/ Tick
  \/ \E d \in Device : StoreReadings(d)
  \/ \E h \in Handler, d \in Device : Environment(h, d)
  \/ \E h \in Handler : Handle(h) \/ HandlerFails(h)
  \/ CronRun
  \/ CronFails
  \/ Crash

Spec == Init /\ [][Next]_vars

\* The interval fires for ever and the event loop serves every pending query.
FairSpec ==
  /\ Spec
  /\ WF_vars(CronRun)
  /\ \A h \in Handler : WF_vars(Handle(h))

-----------------------------------------------------------------------------
(***************************************************************************)
(* Properties                                                               *)
(***************************************************************************)

\* Every variable has its type.
TypeOK ==
  /\ now \in Time
  /\ Rows \subseteq SessionId
  /\ sessions \in [Rows -> Row]
  /\ hours \in [Device -> Nat]
  /\ lastData \in [Device -> Time \cup {NoTime}]
  /\ told \in [Device -> SUBSET SessionId]
  /\ job \in [Actor -> Job]
  /\ queue \subseteq Rows
  /\ failures \in Nat
  /\ ledger \in [SessionId -> [closes : Nat, credited : Nat, lost : BOOLEAN]]

Pending(s) == \E h \in Handler : job[h].pc = "hours" /\ job[h].sid = s

\* A session that only one close reached, and whose handler did not die before
\* adding its hours, has earned its device exactly its duration if it is
\* completed (once the closing handler is through) and nothing otherwise.
\* Only overlapping closes, or a failure between the two writes of
\* closeSession, make totalOperatingHours disagree with the sessions.
SessionCredit ==
  \A s \in Rows :
    ledger[s].closes <= 1 /\ ~ledger[s].lost =>
      ledger[s].credited =
        IF Status(s) = "completed" /\ ~Pending(s) THEN sessions[s].cols.duration ELSE 0

\* The device column is the total over its completed sessions as long as no
\* session of the device was closed twice or lost its hours.
DeviceHours ==
  \A d \in Device :
    (\A s \in RowsOf(d) : ledger[s].closes <= 1 /\ ~ledger[s].lost /\ ~Pending(s)) =>
      hours[d] = MapThenSumSet(LAMBDA s : sessions[s].cols.duration,
                               {s \in RowsOf(d) : Status(s) = "completed"})

\* A completed session that at most two closes reached does not end before it
\* starts, and its duration is the time between the two: the controller cannot
\* send an id it has not been told, so a normal stop is received after the
\* start it belongs to.  (A third close can leave the columns of two others:
\* the ORM writes only those it saw changed.)
CompletedSpan ==
  \A s \in Rows :
    Status(s) = "completed" /\ ledger[s].closes <= 2 =>
      /\ sessions[s].cols.endedAt >= sessions[s].startedAt
      /\ sessions[s].cols.duration = sessions[s].cols.endedAt - sessions[s].startedAt

\* At most one session of a device is active.
OneActive ==
  \A d \in Device : \A s, r \in ActiveOf(d) : s = r

\* The sessions of a device are numbered 1, 2, ... without gap or repetition.
Numbered ==
  \A d \in Device : \A s \in RowsOf(d) :
    /\ \A r \in RowsOf(d) : sessions[r].number = sessions[s].number => r = s
    /\ \A n \in 1..sessions[s].number : \E r \in RowsOf(d) : sessions[r].number = n

\* The table read as a register of sessions.
Register ==
  [s \in SessionId |->
     IF s \in Rows
       THEN [phase |-> IF Status(s) = "active" THEN "open" ELSE "closed",
             device |-> sessions[s].device, number |-> sessions[s].number]
       ELSE [phase |-> "none", device |-> None, number |-> 0]]

Abstract == INSTANCE SessionRegister WITH register <- Register

\* With starts of a device one at a time the tracker keeps the promise of
\* SessionRegister, across crashes, failed queries and overlapping closes: no
\* stale save reopens a session, and none opens beside another.
KeepsRegister == Abstract!Spec

\* An active session whose device stays silent is eventually closed by the
\* cron, whatever else is in flight.
SilentSessionsEnd ==
  \A s \in SessionId :
    (s \in ActiveRows /\ Silent(sessions[s].device, now))
      ~> (s \in Rows /\ (Status(s) # "active" \/ ~Silent(sessions[s].device, now)))

\* "totalOperatingHours NOT incremented" for an interrupted session
\* (docs/test-guide-pump-session-tracking.md).
InterruptedEarnsNothing ==
  \A s \in Rows : Status(s) = "interrupted" => ledger[s].credited = 0

\* "must not precede session start", "Ensure endedAt >= startedAt"
\* (comments of handlePumpDisconnected and cleanupStaleSessions).
EndNotBeforeStart ==
  \A s \in Rows :
    Status(s) # "active" => sessions[s].cols.endedAt >= sessions[s].startedAt

=============================================================================
