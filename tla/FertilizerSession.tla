-------------------------- MODULE FertilizerSession --------------------------
(***************************************************************************)
(* The fertilizer session tracker (src/src/fertilizer/fertilizer.service.ts)*)
(* repeats the pump tracker on a table and sensors of its own; the queries   *)
(* that are the same are steps of PumpSession.  What differs is modelled     *)
(* here: a close computes aggregates of the readings and counts the alerts   *)
(* of its span, with the telemetry handlers that log alerts in between, it   *)
(* adds no operating hours, and a report puts three queries of the table     *)
(* together.                                                                 *)
(***************************************************************************)
EXTENDS Integers, FiniteSets, FiniteSetsExt

CONSTANTS
  Device, SessionId, Handler, MaxTime, MaxFailures, StaleAfter,
  OverlappingStarts, Cron, None,  \* as in PumpSession
  MaxReadings,  \* readings of a device (bound)
  MaxAlerts,    \* alerts of a device (bound)
  Scopes,       \* what can happen in one behaviour beside starts and stops (bound)
  Query         \* from and to of reports, 0 where omitted (bound)

ASSUME TrackerAssumption ==
  /\ MaxTime \in Nat \ {0}
  /\ MaxFailures \in Nat
  /\ StaleAfter \in Nat
  /\ OverlappingStarts \in BOOLEAN
  /\ None \notin SessionId \cup Device
  /\ Cron \notin Handler

ASSUME BoundsAssumption ==
  /\ {MaxReadings, MaxAlerts} \subseteq Nat
  /\ Query \subseteq [from : Nat, to : Nat]

VARIABLES
  now, sessions, told, job, queue, failures, ledger,  \* as in PumpSession
  readings,  \* times of the fertilizer readings in sensor_data, of each device
  alerts,    \* alert_log: alerts of the fertilizer sensors of each device
  marks,     \* the columns of a session that sum up its span
  work,      \* what each actor has computed of them for its close
  scope      \* what can happen in this behaviour

tracker == <<now, sessions, told, job, queue, failures, ledger>>
vars == <<tracker, readings, alerts, marks, work, scope>>

\* The pump tracker on the readings of the fertilizer sensors; no session
\* earns hours.
LastData == [d \in Device |-> Max(readings[d] \cup {0})]
Tracker == INSTANCE PumpSession WITH lastData <- LastData, hours <- [d \in Device |-> 0]

-----------------------------------------------------------------------------
Time == Tracker!Time
Rows == Tracker!Rows
Actor == Tracker!Actor

\* An overcurrent is a critical alert of the current sensor.
Alert == [at : Time, overcurrent : BOOLEAN]

\* measured stands for the aggregates of temperature, current and phase: the
\* number of readings they are computed from, 0 while they are null.
NoMarks == [measured |-> 0, overcurrents |-> 0, detected |-> FALSE, alert |-> FALSE]
Marks == [measured : Nat, overcurrents : Nat, detected : BOOLEAN, alert : BOOLEAN]

\* A session found active has no marks yet.
NoWork == [next |-> "aggregates", held |-> NoMarks, loaded |-> NoMarks]

Init ==
  /\ now = 1 /\ sessions = [s \in {} |-> NoMarks] /\ queue = {} /\ failures = 0
  /\ told = [d \in Device |-> {}]
  /\ job = [a \in Actor |-> Tracker!Idle]
  /\ ledger = [s \in SessionId |-> [closes |-> 0, credited |-> 0, lost |-> FALSE]]
  /\ readings = [d \in Device |-> {}]
  /\ alerts = [d \in Device |-> {}]
  /\ marks = [s \in SessionId |-> NoMarks]
  /\ work = [a \in Actor |-> NoWork]
  /\ scope \in Scopes

-----------------------------------------------------------------------------
(* The environment. *)

Tick == UNCHANGED <<readings, alerts, marks, work, scope>> /\ Tracker!Tick

StoreReadings(d) ==
  /\ Cardinality(readings[d] \cup {now}) <= MaxReadings
  /\ readings' = [readings EXCEPT ![d] = @ \cup {now}]
  /\ UNCHANGED <<tracker, alerts, marks, work, scope>>

\* The telemetry handler of a reading logs the alert some queries later.
LogAlert(d) ==
  /\ readings[d] # {} /\ Cardinality(alerts[d]) < MaxAlerts
  /\ \E critical \in BOOLEAN :
       alerts' = [alerts EXCEPT ![d] = @ \cup {[at |-> now, overcurrent |-> critical]}]
  /\ UNCHANGED <<tracker, readings, marks, work, scope>>

\* In some behaviours events are handled one at a time.
MayArrive == "overlap" \in scope \/ \A g \in Handler : job[g].pc = "idle"

FertilizerReported(h, d) ==
  /\ MayArrive
  /\ UNCHANGED <<readings, alerts, marks, work, scope>>
  /\ Tracker!PumpOnReported(h, d) \/ Tracker!PumpOffReported(h, d)

LastWillReceived(h, d) ==
  /\ "last_will" \in scope /\ MayArrive
  /\ UNCHANGED <<readings, alerts, marks, work, scope>>
  /\ Tracker!LastWillReceived(h, d)

-----------------------------------------------------------------------------
(* A session opens. *)

\* Faulty variant: no look for an active session.
StartedFindNone(h) ==
  /\ UNCHANGED <<readings, alerts, marks, work, scope>>
  /\ Tracker!StartedFindNone(h)

StartedFind(h) ==
  /\ UNCHANGED <<readings, alerts, marks, work, scope>>
  /\ Tracker!StartedFind(h)

StartedMax(h) ==
  /\ UNCHANGED <<readings, alerts, marks, work, scope>>
  /\ Tracker!StartedMax(h)

StartedInsert(h) ==
  /\ Rows = {} \/ "sessions" \in scope
  /\ UNCHANGED <<readings, alerts, marks, work, scope>>
  /\ Tracker!StartedInsert(h)

\* The device row, which has the gateway to publish through, is queried first;
\* the errors of the query and of the publish are swallowed alike.
PublishSessionId(h) ==
  /\ UNCHANGED <<readings, alerts, marks, work, scope>>
  /\ Tracker!PublishSessionId(h)

-----------------------------------------------------------------------------
(* A session is closed. *)

StoppedFind(h) ==
  /\ UNCHANGED <<readings, alerts, marks, work, scope>>
  /\ Tracker!StoppedFind(h)

DisconnectedFind(h) ==
  /\ UNCHANGED <<readings, alerts, marks, work, scope>>
  /\ Tracker!DisconnectedFind(h)

DisconnectedLast(h) ==
  /\ UNCHANGED <<readings, alerts, marks, work, scope>>
  /\ Tracker!DisconnectedLast(h)

\* The span of the entity an actor is closing.
Within(t, a) == sessions[job[a].sid].startedAt <= t /\ t <= job[a].held.endedAt
DeviceOf(a) == sessions[job[a].sid].device

Computing(a, step) == job[a].pc = "load" /\ work[a].next = step
AlertsWithin(a) == {x \in alerts[DeviceOf(a)] : Within(x.at, a)}

\* Faulty variant: all readings of the device.
AggregatesAll(a) ==
  /\ Computing(a, "aggregates")
  /\ work' = [work EXCEPT ![a].next = "overcurrent",
                ![a].held.measured = Cardinality(readings[DeviceOf(a)])]
  /\ UNCHANGED <<tracker, readings, alerts, marks, scope>>

\* computeSessionAggregates.
Aggregates(a) ==
  /\ Computing(a, "aggregates")
  /\ work' = [work EXCEPT ![a].next = "overcurrent",
                ![a].held.measured = Cardinality({t \in readings[DeviceOf(a)] : Within(t, a)})]
  /\ UNCHANGED <<tracker, readings, alerts, marks, scope>>

\* Faulty variant: the alert flag is left to the count of alerts.
OvercurrentOnly(a) ==
  LET found == {x \in AlertsWithin(a) : x.overcurrent} IN
  /\ Computing(a, "overcurrent")
  /\ work' = [work EXCEPT ![a].next = IF found = {} THEN "alerts" ELSE "save",
                ![a].held.overcurrents = Cardinality(found), ![a].held.detected = found # {}]
  /\ UNCHANGED <<tracker, readings, alerts, marks, scope>>

\* computeOvercurrentData: the overcurrents of the span.
Overcurrent(a) ==
  LET found == {x \in AlertsWithin(a) : x.overcurrent} IN
  /\ Computing(a, "overcurrent")
  /\ \/ /\ found = {}
        /\ work' = [work EXCEPT ![a].next = "alerts"]
     \/ /\ found # {}
        /\ work' = [work EXCEPT ![a].next = "save",
                     ![a].held = [work[a].held EXCEPT !.overcurrents = Cardinality(found),
                                                      !.detected = TRUE, !.alert = TRUE]]
  /\ UNCHANGED <<tracker, readings, alerts, marks, scope>>

\* Without one, any alert of the fertilizer sensors.
AnyAlert(a) ==
  /\ Computing(a, "alerts")
  /\ work' = [work EXCEPT ![a].next = "save", ![a].held.alert = AlertsWithin(a) # {}]
  /\ UNCHANGED <<tracker, readings, alerts, marks, scope>>

Load(a) ==
  /\ Computing(a, "save")
  /\ work' = [work EXCEPT ![a].loaded = marks[job[a].sid]]
  /\ UNCHANGED <<readings, alerts, marks, scope>>
  /\ Tracker!Load(a)

MergeMarks(row, held, loaded) ==
  [c \in DOMAIN row |-> IF held[c] # loaded[c] THEN held[c] ELSE row[c]]

\* save(), second half, the end of a close.
Update(a) ==
  LET j == job[a] IN
  /\ j.pc = "update"
  /\ sessions' = [sessions EXCEPT ![j.sid].cols = Tracker!Merge(@, j.held, j.loaded)]
  /\ marks' = [marks EXCEPT ![j.sid] = MergeMarks(@, work[a].held, work[a].loaded)]
  /\ work' = [work EXCEPT ![a] = NoWork]
  /\ ledger' = [ledger EXCEPT ![j.sid].closes = @ + 1]
  /\ Tracker!Become(a, IF a = Cron THEN Tracker!AfterClose(a, j) ELSE Tracker!Idle)
  /\ UNCHANGED <<now, told, queue, failures, readings, alerts, scope>>

-----------------------------------------------------------------------------
(* cleanupStaleFertilizerSessions, failures and restarts. *)

CronTick ==
  /\ "cron" \in scope
  /\ UNCHANGED <<readings, alerts, marks, work, scope>>
  /\ Tracker!CronTick

CronScan == UNCHANGED <<readings, alerts, marks, work, scope>> /\ Tracker!CronScan
CronCheck == UNCHANGED <<readings, alerts, marks, work, scope>> /\ Tracker!CronCheck

\* Faulty variant: the entity is kept for the next event.
HandlerFailsKeeps(h) ==
  /\ "failure" \in scope
  /\ UNCHANGED <<readings, alerts, marks, work, scope>>
  /\ Tracker!HandlerFails(h)

\* What was computed for the close goes with its entity.
HandlerFails(h) ==
  /\ "failure" \in scope
  /\ work' = [work EXCEPT ![h] = NoWork]
  /\ UNCHANGED <<readings, alerts, marks, scope>>
  /\ Tracker!HandlerFails(h)

CronFails ==
  /\ "failure" \in scope
  /\ work' = [work EXCEPT ![Cron] = NoWork]
  /\ UNCHANGED <<readings, alerts, marks, scope>>
  /\ Tracker!CronFails

Crash ==
  /\ "failure" \in scope
  /\ work' = [a \in Actor |-> NoWork]
  /\ UNCHANGED <<readings, alerts, marks, scope>>
  /\ Tracker!Crash

-----------------------------------------------------------------------------
(* getReport: three queries, run at once and each on the table of its moment. *)

Seconds(S) == MapThenSumSet(LAMBDA s : Max({0, sessions[s].cols.duration}), S)
Totals(S) == [count |-> Cardinality(S), seconds |-> Seconds(S)]

\* Without an end the report ends now.
End(q) == IF q.to = 0 THEN now ELSE q.to
Since(d, q) == {s \in Rows : sessions[s].device = d /\ sessions[s].startedAt >= q.from}
Asked(d, q) == {s \in Since(d, q) : sessions[s].startedAt <= End(q)}

Summary(d, q) ==
  [totals |-> Totals(Asked(d, q)),
   overcurrentSessions |-> Cardinality({s \in Asked(d, q) : marks[s].detected}),
   overcurrentTotalCount |-> MapThenSumSet(LAMBDA s : marks[s].overcurrents, Asked(d, q))]

\* Two instants make a bucket.
Bucket(s) == sessions[s].startedAt \div 2

InBuckets(S) == [b \in {Bucket(s) : s \in S} |-> Totals({s \in S : Bucket(s) = b})]

\* Faulty variant: the end of the report is not looked at.
TimelineOpen(d, q) == InBuckets(Since(d, q))

Timeline(d, q) == InBuckets(Asked(d, q))

\* The list has no end; it is cut at 100 sessions, which the model never has.
Sessions(d, q) == Since(d, q)

-----------------------------------------------------------------------------
Handle(h) ==
  \/ StartedFind(h) \/ StartedMax(h) \/ StartedInsert(h) \/ PublishSessionId(h)
  \/ StoppedFind(h) \/ DisconnectedFind(h) \/ DisconnectedLast(h)

Close(a) == Aggregates(a) \/ Overcurrent(a) \/ AnyAlert(a) \/ Load(a) \/ Update(a)

Next ==
  \/ Tick
  \/ \E d \in Device : StoreReadings(d) \/ LogAlert(d)
  \/ \E h \in Handler, d \in Device : FertilizerReported(h, d) \/ LastWillReceived(h, d)
  \/ \E h \in Handler : Handle(h) \/ HandlerFails(h)
  \/ \E a \in Actor : Close(a)
  \/ CronTick \/ CronScan \/ CronCheck \/ CronFails
  \/ Crash

Spec == Init /\ [][Next]_vars

-----------------------------------------------------------------------------
(***************************************************************************)
(* Properties                                                               *)
(***************************************************************************)

\* Every variable has its type; the entity a close holds is one found active.
TypeOK ==
  /\ Tracker!TypeOK
  /\ \A d \in Device : readings[d] \subseteq 1..now /\ alerts[d] \subseteq Alert
  /\ marks \in [SessionId -> Marks]
  /\ \A a \in Actor :
       /\ work[a].next \in {"aggregates", "overcurrent", "alerts", "save"}
       /\ work[a].held \in Marks /\ work[a].loaded \in Marks
       /\ job[a].pc # "load" /\ job[a].pc # "update" => work[a] = NoWork
  /\ \A s \in Rows : Tracker!Status(s) = "active" => marks[s] = NoMarks

\* How many of these were there in the span of a closed session when it was
\* closed: all that came before its end, and maybe some of the same instant.
Counts(n, s, times(_)) ==
  LET span == sessions[s].startedAt..sessions[s].cols.endedAt IN
  /\ n <= Cardinality(times(span))
  /\ n >= Cardinality(times(span \ {sessions[s].cols.endedAt}))

\* A session that one close reached has the aggregates of the readings, and
\* the overcurrents, between its start and its end: the end is set before the
\* queries, and nothing that is logged later belongs to the span.
SpanSummed ==
  \A s \in Rows :
    LET d == sessions[s].device IN
    ledger[s].closes = 1 =>
      /\ Counts(marks[s].measured, s, LAMBDA span : readings[d] \cap span)
      /\ Counts(marks[s].overcurrents, s,
                LAMBDA span : {x \in alerts[d] : x.overcurrent /\ x.at \in span})

\* A session flagged for overcurrent has counted one and is flagged for an
\* alert, also when two closes overlapped and the row has columns of both.
\* (A third close can leave the columns of two others.)
FlagsAgree ==
  \A s \in Rows : ledger[s].closes <= 2 =>
    /\ marks[s].detected = (marks[s].overcurrents > 0)
    /\ marks[s].detected => marks[s].alert

\* The parts of a report that are read before rows change agree: every session
\* of the summary is listed and in one bucket of the timeline, with its seconds
\* and its overcurrents.  The list may have more, which started after the end.
ReportAgrees ==
  \A d \in Device, q \in Query :
    LET summary == Summary(d, q)
        timeline == Timeline(d, q)
        listed == {s \in Sessions(d, q) : sessions[s].startedAt <= End(q)}
    IN
    /\ summary.totals.count = Cardinality(listed)
    /\ summary.totals.seconds = Seconds(listed)
    /\ summary.totals.count = MapThenSumSet(LAMBDA b : timeline[b].count, DOMAIN timeline)
    /\ summary.totals.seconds = MapThenSumSet(LAMBDA b : timeline[b].seconds, DOMAIN timeline)
    /\ (\A s \in listed : ledger[s].closes <= 2) =>
         summary.overcurrentSessions <= summary.overcurrentTotalCount

\* The tracker keeps the promise of SessionRegister with its longer closes.
KeepsRegister == Tracker!Abstract!Spec

=============================================================================
