---------------------------- MODULE ScheduleEngine ----------------------------
(***************************************************************************)
(* Irrigation schedules (src/src/schedule/schedule.service.ts).             *)
(*                                                                         *)
(* An interval of 60 s loads the enabled schedules, decides which are due   *)
(* and sends their command, one schedule after the other; the row is saved  *)
(* after its command was sent.  Users create, edit, toggle and remove       *)
(* schedules at the same time.  One step is one query or one publish; a     *)
(* save is two: the ORM loads the row it compares the entity with and then  *)
(* writes the columns that differ.                                          *)
(***************************************************************************)
EXTENDS Integers, FiniteSets

CONSTANTS
  Schedule,     \* ids of device_schedule (bounds the model)
  Device,       \* controllers; a group schedule reaches them all
  Dto,          \* what clients ask a new schedule to be
  Edit,         \* columns, with their values, a client may ask to change
  Local,        \* the local [date, day, time] at each value of the clock
  Interval,     \* 60 s, in clock units
  Jitter,       \* how far a timer of Node is off the wall clock, at most
  MaxTime,      \* last value of the clock (bound)
  MaxFailures,  \* failed queries, failed publishes and crashes (bound)
  MaxRequests,  \* requests of users (bound)
  None

Time == 1..MaxTime
Never == 0   \* a null timestamp
Types == {"one_time", "recurring"}

ASSUME ConstantsAssumption ==
  /\ MaxTime \in Nat \ {0}
  /\ Interval \in Nat \ {0}
  /\ Jitter \in 0..(Interval - 1)
  /\ MaxFailures \in Nat
  /\ MaxRequests \in Nat
  /\ None \notin Schedule \cup Device
  /\ Dto \subseteq [type : Types, slot : {dto.slot : dto \in Dto}, executeAt : Time \cup {Never},
                     device : Device \cup {None}, mode : {dto.mode : dto \in Dto}]
  /\ \A f \in Edit :
       /\ DOMAIN f \subseteq {"type", "slot", "executeAt"}
       /\ "type" \in DOMAIN f => f.type \in Types
       /\ "executeAt" \in DOMAIN f => f.executeAt \in Time \cup {Never}
  /\ DOMAIN Local = Time

VARIABLES
  now,       \* the wall clock
  timer,     \* when the interval fires next
  rows,      \* table device_schedule
  engine,    \* the run of processSchedules
  request,   \* the request of a user in flight
  mode,      \* irrigation mode the database has for each device
  sent,      \* history: <<device, tick>> a command of a schedule went out for
  excused,   \* history: schedules whose execution was cut short or undone
  expected,  \* history: what the run of the engine was due to fire
  failures,
  requests

history == <<sent, excused, expected>>
vars == <<now, timer, rows, engine, request, mode, history, failures, requests>>

-----------------------------------------------------------------------------
\* validateScheduleFields.  The three target columns of a row are a device, or
\* None for a zone or a farm (a group of devices).
ValidFields(dto) ==
  /\ dto.type = "recurring" => dto.slot # None
  /\ dto.type = "one_time" => dto.executeAt # Never

Slots == {dto.slot : dto \in Dto} \cup {e.slot : e \in {f \in Edit : "slot" \in DOMAIN f}}

Row == [type : Types, slot : Slots, executeAt : Time \cup {Never},
        device : Device \cup {None}, mode : {dto.mode : dto \in Dto},
        enabled : BOOLEAN, last : Time \cup {Never}]

Ids == DOMAIN rows
NoRow == [type |-> "gone"]

RowOf(dto) ==
  [type |-> dto.type, slot |-> dto.slot, executeAt |-> dto.executeAt,
   device |-> dto.device, mode |-> dto.mode, enabled |-> TRUE, last |-> Never]

\* What preload makes of a row, and the validation of what was found before.
Edited(row, edit) ==
  [c \in DOMAIN row |-> IF c \in DOMAIN edit THEN edit[c] ELSE row[c]]

Targets(row) == IF row.device = None THEN Device ELSE {row.device}

Lookup(s) == IF s \in Ids THEN rows[s] ELSE NoRow

\* save(), second half.  An entity whose row was not found is inserted; of one
\* that was found the columns that differ are written, if the row still exists.
Written(s, held, loaded) ==
  IF loaded = NoRow
    THEN [r \in Ids \cup {s} |-> IF r = s THEN held ELSE rows[r]]
    ELSE [r \in Ids |->
            IF r # s THEN rows[r]
              ELSE [c \in DOMAIN held |->
                      IF held[c] # loaded[c] THEN held[c] ELSE rows[s][c]]]

Resting == [pc |-> "idle", at |-> Never, list |-> {}, sid |-> None, held |-> NoRow,
            loaded |-> NoRow, todo |-> {}]
NoRequest == [pc |-> "idle", sid |-> None, op |-> "none", held |-> NoRow, loaded |-> NoRow]

Init ==
  /\ now = 1
  /\ timer = 1 + Interval
  /\ \E S \in SUBSET Schedule :
       \E stored \in [S -> {dto \in Dto : ValidFields(dto)}] :
         rows = [s \in S |-> RowOf(stored[s])]
  /\ engine = Resting
  /\ request = NoRequest
  /\ mode = [d \in Device |-> None]
  /\ sent = [s \in Schedule |-> {}]
  /\ excused = {}
  /\ expected = {}
  /\ failures = 0
  /\ requests = 0

\* Time passes; a timer that is due fires before it passes by.
Advance ==
  /\ now < MaxTime
  /\ engine.pc # "idle" \/ now < timer
  /\ now' = now + 1
  /\ UNCHANGED <<timer, rows, engine, request, mode, history, failures, requests>>

-----------------------------------------------------------------------------
(* Requests of users. *)

Ask == requests < MaxRequests /\ requests' = requests + 1

\* A new row has an id that no row had before.
New(s) ==
  /\ s \notin Ids /\ sent[s] = {} /\ s \notin excused
  /\ engine.sid # s /\ \A e \in engine.list : e.sid # s

Create(s, dto) ==
  /\ Ask
  /\ New(s)
  /\ ValidFields(dto)
  /\ rows' = [r \in Ids \cup {s} |-> IF r = s THEN RowOf(dto) ELSE rows[r]]
  /\ UNCHANGED <<now, timer, engine, request, mode, history, failures>>

\* Faulty variant: nobody looks whether the row was found.
FindUnchecked(s, op) ==
  /\ Ask
  /\ request.pc = "idle"
  /\ request' = [NoRequest EXCEPT !.sid = s, !.op = op, !.held = Lookup(s),
                   !.pc = IF op = "update" THEN "preload" ELSE
                          IF op = "toggle" THEN "load" ELSE "delete"]
  /\ UNCHANGED <<now, timer, rows, engine, mode, history, failures>>

\* findOne: update, toggle and remove read the row first (404 if there is none).
Find(s, op) ==
  /\ Ask
  /\ request.pc = "idle" /\ s \in Ids
  /\ request' = [NoRequest EXCEPT !.sid = s, !.op = op, !.held = rows[s],
                   !.pc = IF op = "update" THEN "preload" ELSE
                          IF op = "toggle" THEN "load" ELSE "delete"]
  /\ UNCHANGED <<now, timer, rows, engine, mode, history, failures>>

\* preload reads the row again and applies the edit; an unknown id saves
\* nothing.  The edit was validated with the row found before.
Preload(edit) ==
  LET s == request.sid IN
  /\ request.pc = "preload"
  /\ ValidFields(Edited(request.held, edit))
  /\ request' = IF s \in Ids
                  THEN [request EXCEPT !.pc = "load", !.held = Edited(rows[s], edit)]
                  ELSE NoRequest
  /\ UNCHANGED <<now, timer, rows, engine, mode, history, failures, requests>>

Toggled(row) == [row EXCEPT !.enabled = ~@]

RequestLoad ==
  /\ request.pc = "load"
  /\ request' = [request EXCEPT !.pc = "save", !.loaded = Lookup(request.sid),
                   !.held = IF request.op = "toggle" THEN Toggled(@) ELSE @]
  /\ UNCHANGED <<now, timer, rows, engine, mode, history, failures, requests>>

\* A stale entity writes lastExecutedAt back; an edit moves the schedule.
RequestSave ==
  LET s == request.sid
      moved == \E c \in {"type", "slot", "last"} :
                 \/ request.loaded = NoRow
                 \/ request.held[c] # request.loaded[c]
  IN
  /\ request.pc = "save"
  /\ rows' = Written(s, request.held, request.loaded)
  /\ excused' = IF moved THEN excused \cup {s} ELSE excused
  /\ request' = NoRequest
  /\ UNCHANGED <<now, timer, engine, mode, sent, expected, failures, requests>>

Remove ==
  /\ request.pc = "delete"
  /\ rows' = [r \in Ids \ {request.sid} |-> rows[r]]
  /\ request' = NoRequest
  /\ UNCHANGED <<now, timer, engine, mode, history, failures, requests>>

-----------------------------------------------------------------------------
(* The engine. *)

\* Same local minute; the date counts.
SameMinute(t, u) == Local[t].date = Local[u].date /\ Local[t].time = Local[u].time

Falls(row, t) == Local[t].day \in row.slot.days /\ Local[t].time = row.slot.time

\* Faulty variants: no check of the last execution; one that forgets the date.
ShouldExecuteAgain(row, t) ==
  IF row.type = "one_time" THEN row.executeAt <= t ELSE Falls(row, t)

ShouldExecuteOncePerTime(row, t) ==
  IF row.type = "one_time"
    THEN row.executeAt <= t /\ row.last = Never
    ELSE Falls(row, t) /\ ~(row.last # Never /\ Local[row.last].time = row.slot.time)

ShouldExecute(row, t) ==
  IF row.type = "one_time"
    THEN row.executeAt # Never /\ row.executeAt <= t /\ row.last = Never
    ELSE /\ Falls(row, t)
         /\ ~ /\ row.last # Never
              /\ Local[row.last].date = Local[t].date
              /\ Local[row.last].time = row.slot.time

\* The clock is set back by less than a day: a reading of the hour that was
\* recorded in between two equal readings has their date.
NoReturn ==
  \A t, u, v \in Time :
    t <= u /\ u <= v /\ SameMinute(t, v) /\ Local[u].time = Local[t].time =>
      Local[u].date = Local[t].date

\* What a user would say is due: never fired for this minute (at all, if it is
\* a one-time schedule), whatever the row remembers.
Due(s, row, t) ==
  /\ s \notin excused
  /\ IF row.type = "one_time"
       THEN row.executeAt # Never /\ row.executeAt <= t /\ sent[s] = {}
       ELSE Falls(row, t) /\ \A e \in sent[s] : ~SameMinute(e[2], t)

\* The clock of the model stops at MaxTime, the timer does not (bound).
Capped(t) == IF t > MaxTime THEN MaxTime ELSE t

\* The interval fires.  While a run is executing it returns at once, which is
\* the same as firing later.
Fire ==
  /\ engine.pc = "idle"
  /\ now >= timer
  /\ \E delay \in (Interval - Jitter)..(Interval + Jitter) : timer' = Capped(now + delay)
  /\ engine' = [Resting EXCEPT !.pc = "find"]
  /\ expected' = {}
  /\ UNCHANGED <<now, rows, request, mode, sent, excused, failures, requests>>

\* The time of the run is taken after the query.
LoadSchedules ==
  LET enabled == {s \in Ids : rows[s].enabled} IN
  /\ engine.pc = "find"
  /\ engine' = [engine EXCEPT !.pc = "loop", !.at = now,
                  !.list = {[sid |-> s, row |-> rows[s]] : s \in enabled}]
  /\ expected' = {<<s, now>> : s \in {r \in enabled : Due(r, rows[r], now)}}
  /\ UNCHANGED <<now, timer, rows, request, mode, sent, excused, failures, requests>>

\* Intl.DateTimeFormat throws on a time zone it does not know; nothing
\* validates timezone.
Throws(row) == row.type = "recurring" /\ ~row.slot.known

\* Such a schedule ends the run, with the schedules that come after it.
RunThrows ==
  /\ engine.pc = "loop"
  /\ \E e \in engine.list : Throws(e.row)
  /\ engine' = Resting
  /\ expected' = {}
  /\ UNCHANGED <<now, timer, rows, request, mode, sent, excused, failures, requests>>

\* The next schedule: skipped, or its command is sent to its devices in turn.
NextSchedule ==
  /\ engine.pc = "loop"
  /\ \E e \in engine.list :
       LET left == engine.list \ {e} IN
       /\ ~Throws(e.row)
       /\ engine' = IF ShouldExecute(e.row, engine.at)
                      THEN [engine EXCEPT !.pc = "send", !.list = left, !.sid = e.sid,
                              !.held = e.row, !.todo = Targets(e.row)]
                      ELSE [engine EXCEPT !.list = left]
  /\ UNCHANGED <<now, timer, rows, request, mode, history, failures, requests>>

Finished ==
  /\ engine.pc = "loop" /\ engine.list = {}
  /\ engine' = Resting
  /\ UNCHANGED <<now, timer, rows, request, mode, history, failures, requests>>

Send ==
  LET s == engine.sid IN
  /\ engine.pc = "send"
  /\ \E d \in engine.todo :
       /\ sent' = [sent EXCEPT ![s] = @ \cup {<<d, engine.at>>}]
       /\ engine' = [engine EXCEPT !.todo = @ \ {d},
                       !.pc = IF engine.todo = {d} THEN "apply" ELSE "send"]
  /\ UNCHANGED <<now, timer, rows, request, mode, excused, expected, failures, requests>>

\* applyModeChange and applyControlModeChange, then the assignments to the
\* entity up to the save.
Apply ==
  LET row == engine.held IN
  /\ engine.pc = "apply"
  /\ mode' = [d \in Device |->
                IF row.mode # None /\ d \in Targets(row) THEN row.mode ELSE mode[d]]
  /\ engine' = [engine EXCEPT !.pc = "load",
                  !.held.last = engine.at,
                  !.held.enabled = @ /\ row.type # "one_time"]
  /\ UNCHANGED <<now, timer, rows, request, history, failures, requests>>

EngineLoad ==
  /\ engine.pc = "load"
  /\ engine' = [engine EXCEPT !.pc = "save", !.loaded = Lookup(engine.sid)]
  /\ UNCHANGED <<now, timer, rows, request, mode, history, failures, requests>>

\* What remains of a run when it is done with a schedule.
Onwards == [Resting EXCEPT !.pc = "loop", !.at = engine.at, !.list = engine.list]

EngineSave ==
  /\ engine.pc = "save"
  /\ rows' = Written(engine.sid, engine.held, engine.loaded)
  /\ engine' = [Onwards EXCEPT !.pc = "notify"]
  /\ UNCHANGED <<now, timer, request, mode, history, failures, requests>>

\* The lookups for the push notification, which is not awaited.
Notify ==
  /\ engine.pc = "notify"
  /\ engine' = [engine EXCEPT !.pc = "loop"]
  /\ UNCHANGED <<now, timer, rows, request, mode, history, failures, requests>>

-----------------------------------------------------------------------------
Failing == failures < MaxFailures /\ failures' = failures + 1 /\ expected' = {}

\* A publish to a device of a group fails: the others still get the command,
\* and the schedule counts as executed.
SendFailsInGroup ==
  /\ Failing
  /\ engine.pc = "send" /\ engine.held.device = None
  /\ excused' = excused \cup {engine.sid}
  /\ \E d \in engine.todo :
       engine' = [engine EXCEPT !.todo = @ \ {d},
                    !.pc = IF engine.todo = {d} THEN "apply" ELSE "send"]
  /\ UNCHANGED <<now, timer, rows, request, mode, sent, requests>>

\* Faulty variant: a one-time schedule is spent by a failed attempt.
ExecuteFailsSpent ==
  /\ Failing
  /\ \/ engine.pc = "send" /\ engine.held.device # None
     \/ engine.pc = "apply"
  /\ rows' = [s \in Ids |-> IF s = engine.sid THEN [rows[s] EXCEPT !.last = engine.at]
                                              ELSE rows[s]]
  /\ excused' = excused \cup {engine.sid}
  /\ engine' = Onwards
  /\ UNCHANGED <<now, timer, request, mode, sent, requests>>

\* The only publish of a single-device schedule, or a change of mode, fails:
\* the schedule is not saved and the next run sees it as not executed.
ExecuteFails ==
  /\ Failing
  /\ \/ engine.pc = "send" /\ engine.held.device # None
     \/ engine.pc = "apply"
  /\ excused' = excused \cup {engine.sid}
  /\ engine' = Onwards
  /\ UNCHANGED <<now, timer, rows, request, mode, sent, requests>>

\* A query outside the try of execute fails: the run ends with the schedules
\* it has not come to.
RunFails ==
  /\ Failing
  /\ engine.pc \in {"find", "load", "save", "notify"}
  /\ excused' = IF engine.sid = None THEN excused ELSE excused \cup {engine.sid}
  /\ engine' = Resting
  /\ UNCHANGED <<now, timer, rows, request, mode, sent, requests>>

\* The process dies and restarts; the first tick comes an interval later.
Crash ==
  /\ Failing
  /\ excused' = IF engine.sid = None THEN excused ELSE excused \cup {engine.sid}
  /\ engine' = Resting
  /\ request' = NoRequest
  /\ timer' = Capped(now + Interval)
  /\ UNCHANGED <<now, rows, mode, sent, requests>>

EngineStep ==
  \/ Fire \/ LoadSchedules \/ NextSchedule \/ RunThrows \/ Finished
  \/ Send \/ Apply \/ EngineLoad \/ EngineSave \/ Notify

Failure == SendFailsInGroup \/ ExecuteFails \/ RunFails \/ Crash

RequestStep ==
  \/ \E s \in Schedule, dto \in Dto : Create(s, dto)
  \/ \E s \in Schedule, op \in {"update", "toggle", "remove"} : Find(s, op)
  \/ \E edit \in Edit : Preload(edit)
  \/ RequestLoad \/ RequestSave \/ Remove

Next == Advance \/ EngineStep \/ Failure \/ RequestStep

Spec == Init /\ [][Next]_vars

\* Time passes, the timer fires and the event loop resumes the run.
FairSpec == Spec /\ WF_vars(Advance) /\ WF_vars(EngineStep)

-----------------------------------------------------------------------------
(***************************************************************************)
(* Properties                                                               *)
(***************************************************************************)

\* Every variable has its type.
TypeOK ==
  /\ now \in Time
  /\ timer \in Nat
  /\ Ids \subseteq Schedule
  /\ \A s \in Ids : rows[s] \in Row
  /\ engine.pc \in {"idle", "find", "loop", "send", "apply", "load", "save", "notify"}
  /\ engine.at \in Time \cup {Never}
  /\ engine.pc \in {"send", "apply", "load", "save"} =>
       engine.sid \in Schedule /\ engine.held \in Row /\ engine.todo \subseteq Device
  /\ \A e \in engine.list : e.sid \in Schedule /\ e.row \in Row
  /\ request.pc \in {"idle", "preload", "load", "save", "delete"}
  /\ request.pc # "idle" => request.sid \in Schedule /\ request.held \in Row
  /\ mode \in [Device -> {dto.mode : dto \in Dto} \cup {None}]
  /\ \A s \in Schedule : sent[s] \subseteq Device \X Time
  /\ excused \subseteq Schedule /\ expected \subseteq Schedule \X Time

\* No schedule fires twice for one local minute, even when the clock is set
\* back an hour and the minute comes again, and a one-time schedule fires once,
\* while users toggle, edit and remove schedules under the running engine.  The
\* excuses: the execution was cut short by a failure or a crash before its
\* save, or an edit moved the schedule or wrote back the lastExecutedAt it had
\* read before.
FiresOnce ==
  \A s \in Schedule \ excused : \A e, f \in sent[s] :
    e[2] # f[2] =>
      /\ ~SameMinute(e[2], f[2])
      /\ s \in Ids => rows[s].type # "one_time"

\* When a run has ended without a failure, every schedule that was due when it
\* loaded the schedules has been sent to each of its devices: neither what the
\* row remembers of earlier executions nor a concurrent edit holds it back.
DueWasSent ==
  engine.pc = "idle" =>
    \A e \in expected : e[1] \in Ids => \A d \in Targets(rows[e[1]]) : <<d, e[2]>> \in sent[e[1]]

Waiting(s) ==
  /\ s \in Ids
  /\ rows[s].type = "one_time" /\ rows[s].enabled
  /\ rows[s].executeAt <= now

Poisoned == \E s \in Ids : rows[s].enabled /\ Throws(rows[s])

\* A one-time schedule that stays enabled past its time is fired in the end,
\* however late it is and however many runs fail or die before it, unless a
\* schedule with an unknown time zone ends every run.
OneTimeFires ==
  \A s \in Schedule : Waiting(s) ~> (~Waiting(s) \/ sent[s] # {} \/ Poisoned)

=============================================================================
