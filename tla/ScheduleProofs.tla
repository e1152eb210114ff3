--------------------------- MODULE ScheduleProofs ---------------------------
(***************************************************************************)
(* Proofs about ScheduleEngine for every set of schedules, devices, edits   *)
(* and every clock: type correctness, and that no schedule fires twice for  *)
(* one local minute.                                                        *)
(***************************************************************************)
EXTENDS ScheduleEngine, TLAPS

-----------------------------------------------------------------------------
(* Rows. *)

Columns == {"type", "slot", "executeAt", "device", "mode", "enabled", "last"}

LEMMA NewRow == ASSUME NEW dto \in Dto PROVE RowOf(dto) \in Row
  BY ConstantsAssumption DEF RowOf, Row, Slots

LEMMA EditedRow ==
  ASSUME NEW row \in Row, NEW edit \in Edit
  PROVE  /\ Edited(row, edit) \in Row
         /\ Edited(row, edit).device = row.device
  <1>1. DOMAIN row = Columns
    BY DEF Row, Columns
  <1>2. "slot" \in DOMAIN edit => edit.slot \in Slots
    BY DEF Slots
  <1>. QED  BY <1>1, <1>2, ConstantsAssumption DEF Edited, Row, Columns

\* What save() makes of a row that was found.
Merged(held, loaded, row) ==
  [c \in DOMAIN held |-> IF held[c] # loaded[c] THEN held[c] ELSE row[c]]

LEMMA MergedRow ==
  ASSUME NEW held \in Row, NEW loaded \in Row, NEW row \in Row
  PROVE  /\ Merged(held, loaded, row) \in Row
         /\ \A c \in {"type", "slot", "last"} :
              Merged(held, loaded, row)[c] = IF held[c] # loaded[c] THEN held[c] ELSE row[c]
  BY DEF Row, Merged

LEMMA NoRowIsNone == NoRow \notin Row
  BY DEF NoRow, Row, Types

-----------------------------------------------------------------------------
(* Types. *)

Held == Row \cup {NoRow}

EngineType ==
  [pc : {"idle", "find", "loop", "send", "apply", "load", "save", "notify"},
   at : Time \cup {Never}, list : SUBSET [sid : Schedule, row : Row],
   sid : Schedule \cup {None}, held : Held, loaded : Held, todo : SUBSET Device]

RequestType ==
  [pc : {"idle", "preload", "load", "save", "delete"}, sid : Schedule \cup {None},
   op : {"none", "update", "toggle", "remove"}, held : Held, loaded : Held]

Executing == engine.pc \in {"send", "apply", "load", "save"}

TRows == Ids \subseteq Schedule /\ \A s \in Ids : rows[s] \in Row

TEngine ==
  /\ engine \in EngineType
  /\ engine.pc \notin {"idle", "find"} => engine.at \in Time
  /\ IF Executing THEN engine.sid \in Schedule /\ engine.held \in Row ELSE engine.sid = None

TRequest ==
  /\ request \in RequestType
  /\ request.pc # "idle" => request.sid \in Schedule /\ request.held \in Row

THistory ==
  /\ sent \in [Schedule -> SUBSET (Device \X Time)]
  /\ excused \subseteq Schedule
  /\ expected \subseteq Schedule \X Time

TRest ==
  /\ now \in Time /\ timer \in Nat
  /\ mode \in [Device -> {dto.mode : dto \in Dto} \cup {None}]

Typed == TRows /\ TEngine /\ TRequest /\ THistory /\ TRest

LEMMA TypedImplies == Typed => TypeOK
  BY DEF Typed, TypeOK, TRows, TEngine, TRequest, THistory, TRest, EngineType, RequestType,
         Executing, Held

LEMMA RestingType == Resting \in EngineType /\ NoRequest \in RequestType
  BY DEF Resting, NoRequest, EngineType, RequestType, Held, Time, Never

LEMMA TypedInit == Init => Typed
  <1>. SUFFICES ASSUME Init PROVE Typed
    OBVIOUS
  <1>1. TRows
    BY NewRow DEF Init, TRows, Ids
  <1>2. TEngine /\ TRequest
    BY RestingType DEF Init, TEngine, TRequest, Executing, Resting, NoRequest
  <1>3. THistory /\ TRest
    BY ConstantsAssumption DEF Init, THistory, TRest, Time
  <1>. QED  BY <1>1, <1>2, <1>3 DEF Typed

LEMMA LookupType == TRows => \A s : Lookup(s) \in Held
  BY DEF TRows, Lookup, Held

LEMMA WrittenType ==
  ASSUME TRows, NEW s \in Schedule, NEW held \in Row, NEW loaded \in Held,
         rows' = Written(s, held, loaded)
  PROVE  TRows'
  <1>1. CASE loaded = NoRow
    BY <1>1 DEF Written, TRows, Ids
  <1>2. CASE loaded # NoRow
    <2>1. loaded \in Row
      BY <1>2 DEF Held
    <2>2. Ids' = Ids /\ \A r \in Ids :
            rows'[r] = IF r # s THEN rows[r] ELSE Merged(held, loaded, rows[s])
      BY <1>2 DEF Written, Ids, Merged
    <2>. QED  BY <2>1, <2>2, MergedRow DEF TRows
  <1>. QED  BY <1>1, <1>2

\* Which steps write the table.
LEMMA TypedRows == Typed /\ [Next]_vars => TRows'
  <1>. SUFFICES ASSUME Typed, [Next]_vars PROVE TRows'
    OBVIOUS
  <1>1. CASE rows' = rows
    BY <1>1 DEF Typed, TRows, Ids
  <1>2. ASSUME NEW s \in Schedule, NEW dto \in Dto, Create(s, dto) PROVE TRows'
    BY <1>2, NewRow DEF Create, Typed, TRows, Ids
  <1>3. CASE Remove
    BY <1>3 DEF Remove, Typed, TRows, Ids
  <1>4. CASE RequestSave
    BY <1>4, WrittenType DEF RequestSave, Typed, TRequest, RequestType
  <1>5. CASE EngineSave
    BY <1>5, WrittenType DEF EngineSave, Typed, TEngine, EngineType, Executing
  <1>. QED
    BY <1>1, <1>2, <1>3, <1>4, <1>5
       DEF Next, Advance, EngineStep, Failure, RequestStep, Fire, LoadSchedules, NextSchedule,
           RunThrows, Finished, Send, Apply, EngineLoad, Notify, SendFailsInGroup, ExecuteFails,
           RunFails, Crash, Find, Preload, RequestLoad, vars

LEMMA TypedEngine == Typed /\ [Next]_vars => TEngine'
  <1>. SUFFICES ASSUME Typed, [Next]_vars PROVE TEngine'
    OBVIOUS
  <1>. USE DEF Typed, TEngine, EngineType, Executing
  <1>1. CASE engine' = engine
    BY <1>1
  <1>2. CASE Fire
    BY <1>2, RestingType DEF Fire, Resting
  <1>3. CASE LoadSchedules
    <2>. DEFINE L == {[sid |-> s, row |-> rows[s]] : s \in {r \in Ids : rows[r].enabled}}
    <2>1. L \in SUBSET [sid : Schedule, row : Row]
      BY DEF TRows
    <2>2. engine.pc = "find" /\ engine' = [engine EXCEPT !.pc = "loop", !.at = now, !.list = L]
      BY <1>3 DEF LoadSchedules
    <2>. HIDE DEF L
    <2>. QED  BY <2>1, <2>2 DEF TRest
  <1>4. CASE NextSchedule
    <2>1. PICK e \in engine.list :
            engine' = IF ShouldExecute(e.row, engine.at)
                        THEN [engine EXCEPT !.pc = "send", !.list = engine.list \ {e},
                                !.sid = e.sid, !.held = e.row, !.todo = Targets(e.row)]
                        ELSE [engine EXCEPT !.list = engine.list \ {e}]
      BY <1>4 DEF NextSchedule
    <2>2. e.sid \in Schedule /\ e.row \in Row /\ engine.list \ {e} \in SUBSET [sid : Schedule, row : Row]
      OBVIOUS
    <2>3. Targets(e.row) \in SUBSET Device
      BY <2>2 DEF Targets, Row
    <2>4. engine.pc = "loop"
      BY <1>4 DEF NextSchedule
    <2>. QED  BY <2>1, <2>2, <2>3, <2>4 DEF Held
  <1>5. CASE engine' = Resting
    BY <1>5, RestingType DEF Resting
  <1>6. CASE Send
    BY <1>6 DEF Send
  <1>7. CASE Apply
    <2>1. [engine.held EXCEPT !.last = engine.at, !.enabled = @ /\ engine.held.type # "one_time"] \in Row
      BY <1>7 DEF Apply, Row
    <2>. QED  BY <1>7, <2>1 DEF Apply, Held
  <1>8. CASE EngineLoad
    BY <1>8, LookupType DEF EngineLoad
  <1>9. CASE EngineSave
    BY <1>9, RestingType DEF EngineSave, Onwards, Resting
  <1>10. CASE Notify
    BY <1>10 DEF Notify
  <1>11. CASE SendFailsInGroup
    BY <1>11 DEF SendFailsInGroup
  <1>12. CASE ExecuteFails
    BY <1>12, RestingType DEF ExecuteFails, Onwards, Resting
  <1>. QED
    BY <1>1, <1>2, <1>3, <1>4, <1>5, <1>6, <1>7, <1>8, <1>9, <1>10, <1>11, <1>12
       DEF Next, Advance, EngineStep, Failure, RequestStep, RunThrows, Finished, RunFails, Crash,
           Create, Find, Preload, RequestLoad, RequestSave, Remove, vars

LEMMA TypedRequest == Typed /\ [Next]_vars => TRequest'
  <1>. SUFFICES ASSUME Typed, [Next]_vars PROVE TRequest'
    OBVIOUS
  <1>. USE DEF Typed, TRequest, RequestType
  <1>1. CASE request' = request
    BY <1>1
  <1>2. CASE request' = NoRequest
    BY <1>2, RestingType DEF NoRequest
  <1>3. ASSUME NEW s \in Schedule, NEW op \in {"update", "toggle", "remove"}, Find(s, op)
        PROVE  TRequest'
    BY <1>3, RestingType DEF Find, NoRequest, TRows, Held
  <1>4. ASSUME NEW edit \in Edit, Preload(edit) PROVE TRequest'
    <2>1. request.sid \in Ids => Edited(rows[request.sid], edit) \in Row
      BY EditedRow DEF TRows
    <2>. QED  BY <1>4, <2>1, RestingType DEF Preload, NoRequest, Held
  <1>5. CASE RequestLoad
    <2>1. \A r \in Row : Toggled(r) \in Row
      BY DEF Toggled, Row
    <2>. QED  BY <1>5, <2>1, LookupType DEF RequestLoad, Held
  <1>. QED
    BY <1>1, <1>2, <1>3, <1>4, <1>5
       DEF Next, Advance, EngineStep, Failure, RequestStep, Fire, LoadSchedules, NextSchedule,
           RunThrows, Finished, Send, Apply, EngineLoad, EngineSave, Notify, SendFailsInGroup,
           ExecuteFails, RunFails, Crash, Create, RequestSave, Remove, vars

LEMMA TypedHistory == Typed /\ [Next]_vars => THistory'
  <1>. SUFFICES ASSUME Typed, [Next]_vars PROVE THistory'
    OBVIOUS
  <1>. USE DEF Typed, THistory
  <1>1. CASE UNCHANGED <<sent, expected>> /\ excused' = excused
    BY <1>1
  <1>2. CASE sent' = sent /\ expected' \in {expected, {}}
             /\ excused' \in {excused, excused \cup {engine.sid}, excused \cup {request.sid}}
             /\ (engine.sid \in Schedule \/ excused' # excused \cup {engine.sid})
             /\ (request.sid \in Schedule \/ excused' # excused \cup {request.sid})
    BY <1>2
  <1>3. CASE LoadSchedules
    BY <1>3 DEF LoadSchedules, TRows, TRest
  <1>4. CASE Send
    BY <1>4 DEF Send, TEngine, Executing, EngineType
  <1>5. CASE Failure
    BY <1>5 DEF Failure, SendFailsInGroup, ExecuteFails, RunFails, Crash, Failing, TEngine,
                Executing, EngineType
  <1>6. CASE RequestSave
    BY <1>6 DEF RequestSave, TRequest
  <1>. QED
    BY <1>1, <1>2, <1>3, <1>4, <1>5, <1>6
       DEF Next, Advance, EngineStep, RequestStep, Fire, NextSchedule,
           RunThrows, Finished, Apply, EngineLoad, EngineSave, Notify, Create, Find, Preload,
           RequestLoad, Remove, vars, history

LEMMA CappedNat == \A t \in Nat : Capped(t) \in Nat
  BY ConstantsAssumption DEF Capped

LEMMA TypedRest == Typed /\ [Next]_vars => TRest'
  <1>. SUFFICES ASSUME Typed, [Next]_vars PROVE TRest'
    OBVIOUS
  <1>. USE DEF Typed, TRest
  <1>1. CASE UNCHANGED <<now, timer, mode>>
    BY <1>1
  <1>2. CASE Advance
    BY <1>2, ConstantsAssumption DEF Advance, Time
  <1>3. CASE Fire
    <2>1. PICK delay \in (Interval - Jitter)..(Interval + Jitter) : timer' = Capped(now + delay)
      BY <1>3 DEF Fire
    <2>2. now + delay \in Nat
      BY ConstantsAssumption DEF Time
    <2>. QED  BY <1>3, <2>1, <2>2, CappedNat DEF Fire
  <1>4. CASE Crash
    <2>1. now + Interval \in Nat
      BY ConstantsAssumption DEF Time
    <2>. QED  BY <1>4, <2>1, CappedNat DEF Crash
  <1>5. CASE Apply
    BY <1>5 DEF Apply, TEngine, Executing, Row
  <1>. QED
    BY <1>1, <1>2, <1>3, <1>4, <1>5
       DEF Next, EngineStep, Failure, RequestStep, LoadSchedules, NextSchedule,
           RunThrows, Finished, Send, EngineLoad, EngineSave, Notify, SendFailsInGroup,
           ExecuteFails, RunFails, Create, Find, Preload, RequestLoad, RequestSave, Remove, vars

LEMMA TypedStep == Typed /\ [Next]_vars => Typed'
  BY TypedRows, TypedEngine, TypedRequest, TypedHistory, TypedRest DEF Typed

\* Every variable keeps its type, through edits, failures and crashes: the
\* engine never sends, loads or saves without a schedule it holds a row of,
\* and a request in flight always holds a row.
THEOREM TypeInvariant == Spec => []TypeOK
  <1>1. Spec => []Typed
    BY TypedInit, TypedStep, PTL DEF Spec
  <1>. QED  BY <1>1, TypedImplies, PTL

-----------------------------------------------------------------------------
(* No schedule fires twice for one local minute.  The engine decides by what  *)
(* the row remembers of the last execution, so the invariant says that what   *)
(* was sent is remembered: by the row, by the copy in the list of the run,    *)
(* and by the entity the run holds once it has noted the execution.           *)

Core(r) == <<r.type, r.slot, r.last>>

\* Row r, read at time t or before, remembers that <<device, tick>> e was sent.
Remembers(e, r, t) ==
  /\ r.last \in Time /\ e[2] <= r.last /\ r.last <= t
  /\ IF r.type = "one_time"
       THEN e[2] = r.last
       ELSE /\ Local[r.last].time = r.slot.time
            /\ Local[e[2]].time = r.slot.time

RowsRemember ==
  \A s \in Ids \ excused : s # engine.sid => \A e \in sent[s] : Remembers(e, rows[s], now)

\* The copies in the list: one of each schedule, as the table has it.
ListRemembers ==
  \A x \in engine.list :
    /\ x.sid # engine.sid
    /\ \A y \in engine.list : y.sid = x.sid => y = x
    /\ x.sid \notin excused =>
         /\ \A e \in sent[x.sid] : Remembers(e, x.row, engine.at)
         /\ x.sid \in Ids => Core(rows[x.sid]) = Core(x.row)

\* The schedule being sent was due, and what was sent for it before this run is
\* remembered by its row.
SendingIsDue ==
  engine.pc \in {"send", "apply"} /\ engine.sid \notin excused =>
    /\ ShouldExecute(engine.held, engine.at)
    /\ \A e \in sent[engine.sid] : e[2] = engine.at \/ Remembers(e, engine.held, engine.at)
    /\ engine.sid \in Ids => Core(rows[engine.sid]) = Core(engine.held)

\* The schedule being saved: the entity remembers this run, too, and the save
\* will find that only lastExecutedAt differs.
SavingRemembers ==
  engine.pc \in {"load", "save"} /\ engine.sid \notin excused =>
    /\ \A e \in sent[engine.sid] : Remembers(e, engine.held, engine.at)
    /\ engine.held.last = engine.at
    /\ engine.sid \in Ids =>
         /\ engine.held.type = rows[engine.sid].type
         /\ engine.held.slot = rows[engine.sid].slot
         /\ engine.pc = "save" /\ engine.loaded # NoRow =>
              Core(rows[engine.sid]) = Core(engine.loaded)

NotAhead == engine.at <= now

Memory ==
  /\ RowsRemember /\ ListRemembers /\ SendingIsDue /\ SavingRemembers /\ NotAhead

\* No two commands of a schedule are for one minute.
SentApart ==
  \A s \in Schedule \ excused : \A e, f \in sent[s] : e[2] # f[2] => ~SameMinute(e[2], f[2])

LEMMA MemoryInit == Init => Memory /\ SentApart
  <1>. SUFFICES ASSUME Init PROVE Memory /\ SentApart
    OBVIOUS
  <1>1. \A s \in Schedule : sent[s] = {}
    BY DEF Init
  <1>2. Ids \subseteq Schedule
    BY DEF Init, Ids
  <1>3. engine.pc = "idle" /\ engine.list = {} /\ engine.at = 0 /\ now = 1
    BY DEF Init, Resting, Never
  <1>. QED
    BY <1>1, <1>2, <1>3
       DEF Memory, RowsRemember, ListRemembers, SendingIsDue, SavingRemembers, NotAhead, SentApart

LEMMA RemembersLater ==
  ASSUME NEW t \in Int, NEW u \in Int, t <= u, NEW e \in Device \X Time, NEW r, NEW q,
         Core(r) = Core(q), Remembers(e, r, t)
  PROVE  Remembers(e, q, u)
  BY DEF Remembers, Core, Time

\* One-time schedules fire once, the others once a minute.
LEMMA MemoryImplies == Typed /\ Memory /\ SentApart => FiresOnce
  <1>. SUFFICES ASSUME Typed, Memory, SentApart, NEW s \in Schedule \ excused,
                       NEW e \in sent[s], NEW f \in sent[s], e[2] # f[2]
                PROVE  /\ ~SameMinute(e[2], f[2])
                       /\ s \in Ids => rows[s].type # "one_time"
    BY DEF FiresOnce
  <1>1. ~SameMinute(e[2], f[2])
    BY DEF SentApart
  <1>2. ASSUME s \in Ids, rows[s].type = "one_time" PROVE FALSE
    <2>1. CASE s # engine.sid
      BY <1>2, <2>1 DEF Memory, RowsRemember, Remembers
    <2>2. CASE s = engine.sid
      <3>1. Executing
        BY <2>2, ConstantsAssumption DEF Typed, TEngine
      <3>2. CASE engine.pc \in {"send", "apply"}
        <4>1. engine.held.type = "one_time"
          BY <1>2, <2>2, <3>2 DEF Memory, SendingIsDue, Core
        <4>2. engine.held.last = Never
          BY <2>2, <3>2, <4>1 DEF Memory, SendingIsDue, ShouldExecute
        <4>3. \A g \in sent[s] : g[2] = engine.at
          BY <2>2, <3>2, <4>2 DEF Memory, SendingIsDue, Remembers, Never, Time
        <4>. QED  BY <4>3
      <3>3. CASE engine.pc \in {"load", "save"}
        BY <1>2, <2>2, <3>3 DEF Memory, SavingRemembers, Remembers
      <3>. QED  BY <3>1, <3>2, <3>3 DEF Executing
    <2>. QED  BY <2>1, <2>2
  <1>. QED  BY <1>1, <1>2

\* Steps that leave the engine alone: time passes, and users change the table.
LEMMA TablePreserves ==
  ASSUME Typed, Memory, now' \in Time, now <= now', engine' = engine, sent' = sent,
         excused \subseteq excused',
         \A s \in Ids' \ excused' :
           (s \in Ids /\ Core(rows'[s]) = Core(rows[s])) \/ New(s)
  PROVE  Memory'
  <1>. USE DEF Memory
  <1>0. /\ now \in Int /\ now' \in Int
        /\ \A s \in Schedule : sent[s] \subseteq Device \X Time
        /\ Ids \subseteq Schedule
    BY DEF Typed, TRest, THistory, TRows, Time
  <1>1. RowsRemember'
    <2>. SUFFICES ASSUME NEW s \in Ids' \ excused', s # engine.sid, NEW e \in sent[s]
                  PROVE  Remembers(e, rows'[s], now')
      BY DEF RowsRemember, Remembers
    <2>1. s \in Ids /\ Core(rows'[s]) = Core(rows[s])
      BY DEF New
    <2>2. Remembers(e, rows[s], now)
      BY <2>1 DEF RowsRemember
    <2>. QED  BY <1>0, <2>1, <2>2, RemembersLater
  <1>2. ListRemembers'
    <2>1. ASSUME NEW x \in engine.list, x.sid \in Ids', x.sid \notin excused'
          PROVE  Core(rows'[x.sid]) = Core(x.row)
      BY <2>1 DEF ListRemembers, New
    <2>. QED  BY <2>1 DEF ListRemembers, Remembers, Core
  <1>3. SendingIsDue'
    BY DEF SendingIsDue, New, Remembers, Core, ShouldExecute, Falls
  <1>4. SavingRemembers'
    BY DEF SavingRemembers, New, Remembers, Core
  <1>5. NotAhead'
    BY <1>0 DEF NotAhead, Typed, TEngine, EngineType, Time, Never
  <1>. QED  BY <1>1, <1>2, <1>3, <1>4, <1>5

\* Steps in which the engine lets go of what it held, which is excused.
LEMMA EnginePreserves ==
  ASSUME Typed, Memory, UNCHANGED <<now, rows, sent>>,
         excused \subseteq excused', engine.sid # None => engine.sid \in excused',
         engine'.sid = None, engine'.pc \notin {"send", "apply", "load", "save"},
         engine'.list \subseteq engine.list,
         engine'.list # {} => engine'.at = engine.at,
         engine'.at \in {Never, engine.at}
  PROVE  Memory'
  <1>. USE DEF Memory
  <1>1. RowsRemember'
    BY DEF RowsRemember, Remembers, Ids, Typed, TRows
  <1>2. ListRemembers'
    <2>1. \A x \in engine.list : x.sid \in Schedule
      BY DEF Typed, TEngine, EngineType
    <2>. QED  BY <2>1, ConstantsAssumption DEF ListRemembers, Remembers, Core, Ids
  <1>3. SendingIsDue' /\ SavingRemembers'
    BY DEF SendingIsDue, SavingRemembers
  <1>4. NotAhead'
    BY DEF NotAhead, Typed, TRest, Time, Never
  <1>. QED  BY <1>1, <1>2, <1>3, <1>4

\* A request that is not excused saves neither type nor slot nor last.
LEMMA RequestSaveCore ==
  ASSUME Typed, RequestSave, NEW r \in Ids' \ excused'
  PROVE  r \in Ids /\ Core(rows'[r]) = Core(rows[r])
  <1>. DEFINE s == request.sid
              held == request.held
              loaded == request.loaded
  <1>1. s \in Schedule /\ held \in Row /\ loaded \in Held
    BY DEF RequestSave, Typed, TRequest, RequestType
  <1>2. CASE r # s
    BY <1>2 DEF RequestSave, Written, Ids, Core
  <1>3. CASE r = s
    <2>1. loaded # NoRow /\ \A c \in {"type", "slot", "last"} : held[c] = loaded[c]
      BY <1>3 DEF RequestSave
    <2>2. loaded \in Row /\ Ids' = Ids /\ rows'[r] = Merged(held, loaded, rows[s])
      BY <1>1, <1>3, <2>1 DEF RequestSave, Written, Ids, Merged, Held
    <2>3. rows[s] \in Row
      BY <1>3, <2>2 DEF Typed, TRows
    <2>4. \A c \in {"type", "slot", "last"} : rows'[r][c] = rows[s][c]
      BY <1>1, <2>1, <2>2, <2>3, MergedRow
    <2>5. rows'[r].type = rows[s].type /\ rows'[r].slot = rows[s].slot /\ rows'[r].last = rows[s].last
      BY <2>4
    <2>. QED  BY <1>3, <2>2, <2>5 DEF Core
  <1>. QED  BY <1>2, <1>3

LEMMA SavePreserves ==
  ASSUME Typed, Memory, RequestSave
  PROVE  Memory'
  <1>1. excused \subseteq excused' /\ now' = now /\ engine' = engine /\ sent' = sent
    BY DEF RequestSave
  <1>2. now' \in Time /\ now <= now'
    BY <1>1, ConstantsAssumption DEF Typed, TRest, Time
  <1>. QED  BY <1>1, <1>2, RequestSaveCore, TablePreserves

LEMMA RequestPreserves ==
  ASSUME Typed, Memory, RequestStep \/ Advance \/ UNCHANGED vars
  PROVE  Memory'
  <1>1. CASE UNCHANGED rows /\ UNCHANGED <<engine, sent, excused>> /\ now' \in Time /\ now <= now'
    BY <1>1, TablePreserves DEF Ids, Core
  <1>2. now \in Time /\ now <= now /\ (Advance => now' \in Time /\ now <= now')
    BY ConstantsAssumption DEF Typed, TRest, Advance, Time
  <1>3. ASSUME NEW s \in Schedule, NEW dto \in Dto, Create(s, dto) PROVE Memory'
    BY <1>2, <1>3, TablePreserves DEF Create, history, Ids, Core
  <1>4. CASE Remove
    BY <1>2, <1>4, TablePreserves DEF Remove, history, Ids, Core
  <1>. QED
    BY <1>1, <1>2, <1>3, <1>4, SavePreserves
       DEF RequestStep, Find, Preload, RequestLoad, Advance, vars, history

\* Fire, an end of the run, a failure or a crash.
LEMMA LettingGoPreserves ==
  ASSUME Typed, Memory,
         Fire \/ RunThrows \/ Finished \/ Notify \/ ExecuteFails \/ RunFails \/ Crash
  PROVE  Memory'
  <1>1. engine \in EngineType /\ (~Executing => engine.sid = None)
    BY DEF Typed, TEngine
  <1>2. CASE Fire \/ RunThrows \/ Finished \/ RunFails \/ Crash
    <2>1. engine'.sid = None /\ engine'.list = {} /\ engine'.at = Never
          /\ engine'.pc \notin {"send", "apply", "load", "save"}
      BY <1>2 DEF Fire, RunThrows, Finished, RunFails, Crash, Resting
    <2>2. engine.sid # None => engine.sid \in excused'
      BY <1>1, <1>2 DEF Fire, RunThrows, Finished, RunFails, Crash, Executing
    <2>3. UNCHANGED <<now, rows, sent>> /\ excused \subseteq excused'
      BY <1>2 DEF Fire, RunThrows, Finished, RunFails, Crash, history
    <2>. QED  BY <2>1, <2>2, <2>3, EnginePreserves
  <1>3. CASE Notify
    <2>1. engine'.sid = None /\ engine'.list = engine.list /\ engine'.at = engine.at
          /\ engine'.pc = "loop" /\ engine.sid = None
      BY <1>1, <1>3 DEF Notify, Executing, EngineType
    <2>2. UNCHANGED <<now, rows, sent>> /\ excused \subseteq excused'
      BY <1>3 DEF Notify, history
    <2>. QED  BY <2>1, <2>2, EnginePreserves
  <1>4. CASE ExecuteFails
    <2>1. engine'.sid = None /\ engine'.list = engine.list /\ engine'.at = engine.at
          /\ engine'.pc = "loop"
      BY <1>4 DEF ExecuteFails, Onwards, Resting
    <2>2. UNCHANGED <<now, rows, sent>> /\ excused \subseteq excused' /\ engine.sid \in excused'
      BY <1>4 DEF ExecuteFails
    <2>. QED  BY <2>1, <2>2, EnginePreserves
  <1>. QED  BY <1>2, <1>3, <1>4

\* The list copies what the table remembers, at the time of the run.
LEMMA LoadPreserves ==
  ASSUME Typed, Memory, LoadSchedules
  PROVE  Memory'
  <1>. USE DEF Memory
  <1>. DEFINE L == {[sid |-> s, row |-> rows[s]] : s \in {r \in Ids : rows[r].enabled}}
  <1>1. engine.pc = "find" /\ engine' = [engine EXCEPT !.pc = "loop", !.at = now, !.list = L]
        /\ UNCHANGED <<now, rows, sent, excused>>
    BY DEF LoadSchedules
  <1>2. \A x \in L : x.sid \in Ids /\ x.row = rows[x.sid] /\ x = [sid |-> x.sid, row |-> rows[x.sid]]
    OBVIOUS
  <1>. HIDE DEF L
  <1>3. engine.sid = None /\ engine'.sid = None /\ engine'.list = L /\ engine'.at = now /\ engine'.pc = "loop"
    BY <1>1 DEF Typed, TEngine, EngineType, Executing
  <1>4. \A s \in Ids : s # None
    BY ConstantsAssumption DEF Typed, TRows
  <1>5. RowsRemember'
    BY <1>1, <1>3, <1>4 DEF RowsRemember, Remembers, Ids
  <1>6. ListRemembers'
    BY <1>1, <1>2, <1>3, <1>4 DEF ListRemembers, RowsRemember, Remembers, Core, Ids
  <1>7. SendingIsDue' /\ SavingRemembers'
    BY <1>1, <1>3 DEF SendingIsDue, SavingRemembers
  <1>8. NotAhead'
    BY <1>1, <1>3 DEF NotAhead, Typed, TRest, Time
  <1>. QED  BY <1>5, <1>6, <1>7, <1>8

LEMMA NextSchedulePreserves ==
  ASSUME Typed, Memory, NextSchedule
  PROVE  Memory'
  <1>. USE DEF Memory
  <1>1. PICK x \in engine.list :
          engine' = IF ShouldExecute(x.row, engine.at)
                      THEN [engine EXCEPT !.pc = "send", !.list = engine.list \ {x},
                              !.sid = x.sid, !.held = x.row, !.todo = Targets(x.row)]
                      ELSE [engine EXCEPT !.list = engine.list \ {x}]
    BY DEF NextSchedule
  <1>2. engine.pc = "loop" /\ engine.sid = None /\ UNCHANGED <<now, rows, sent, excused>>
    BY DEF NextSchedule, history, Typed, TEngine, Executing
  <1>3. engine \in EngineType
    BY DEF Typed, TEngine
  <1>4. CASE ~ShouldExecute(x.row, engine.at)
    <2>1. engine'.sid = None /\ engine'.list \subseteq engine.list /\ engine'.at = engine.at
          /\ engine'.pc = "loop"
      BY <1>1, <1>2, <1>3, <1>4 DEF EngineType
    <2>. QED  BY <1>2, <2>1, EnginePreserves
  <1>5. CASE ShouldExecute(x.row, engine.at)
    <2>1. /\ engine'.pc = "send" /\ engine'.list = engine.list \ {x} /\ engine'.sid = x.sid
          /\ engine'.held = x.row /\ engine'.at = engine.at
      BY <1>1, <1>3, <1>5 DEF EngineType
    <2>2. \A s \in Ids : s # None
      BY ConstantsAssumption DEF Typed, TRows
    <2>3. RowsRemember'
      BY <1>2, <2>1, <2>2 DEF RowsRemember, Remembers, Ids
    <2>4. ListRemembers'
      BY <1>2, <2>1 DEF ListRemembers, Remembers, Core, Ids
    <2>5. SendingIsDue'
      BY <1>2, <1>5, <2>1 DEF ListRemembers, SendingIsDue, Remembers, Core, Ids, ShouldExecute, Falls
    <2>6. SavingRemembers' /\ NotAhead'
      BY <1>2, <2>1 DEF SavingRemembers, NotAhead
    <2>. QED  BY <2>3, <2>4, <2>5, <2>6
  <1>. QED  BY <1>4, <1>5

\* A command goes out for the schedule the engine holds.
LEMMA SendPreserves ==
  ASSUME Typed, Memory, Send
  PROVE  Memory'
  <1>. USE DEF Memory
  <1>. DEFINE s == engine.sid
  <1>1. PICK d \in engine.todo :
          /\ sent' = [sent EXCEPT ![s] = @ \cup {<<d, engine.at>>}]
          /\ engine' = [engine EXCEPT !.todo = @ \ {d},
                          !.pc = IF engine.todo = {d} THEN "apply" ELSE "send"]
    BY DEF Send
  <1>2. engine.pc = "send" /\ UNCHANGED <<now, rows, excused>>
    BY DEF Send
  <1>3. engine \in EngineType /\ s \in Schedule /\ engine.at \in Time /\ s # None
    BY <1>2, ConstantsAssumption DEF Typed, TEngine, Executing
  <1>4. engine'.pc \in {"send", "apply"} /\ engine'.list = engine.list /\ engine'.sid = s
        /\ engine'.held = engine.held /\ engine'.at = engine.at
    BY <1>1, <1>2, <1>3 DEF EngineType
  <1>5. sent'[s] = sent[s] \cup {<<d, engine.at>>} /\ \A r \in Schedule \ {s} : sent'[r] = sent[r]
    BY <1>1, <1>3 DEF Typed, THistory
  <1>6. Ids \subseteq Schedule /\ \A x \in engine.list : x.sid \in Schedule
    BY <1>3 DEF Typed, TRows, EngineType
  <1>. HIDE DEF s
  <1>7. RowsRemember'
    BY <1>2, <1>4, <1>5, <1>6 DEF s, RowsRemember, Remembers, Ids
  <1>8. ListRemembers'
    <2>1. \A x \in engine.list : x.sid # s
      BY DEF s, ListRemembers
    <2>. QED  BY <1>2, <1>4, <1>5, <1>6, <2>1 DEF s, ListRemembers, Remembers, Core, Ids
  <1>9. SendingIsDue'
    <2>1. ASSUME s \notin excused
          PROVE  /\ ShouldExecute(engine.held, engine.at)
                 /\ \A e \in sent'[s] : e[2] = engine.at \/ Remembers(e, engine.held, engine.at)
                 /\ s \in Ids => Core(rows[s]) = Core(engine.held)
      BY <1>2, <1>5, <2>1 DEF s, SendingIsDue
    <2>. QED
      BY <1>2, <1>4, <2>1 DEF SendingIsDue, Remembers, Core, Ids, ShouldExecute, Falls
  <1>10. SavingRemembers' /\ NotAhead'
    BY <1>2, <1>4 DEF SavingRemembers, NotAhead
  <1>. QED  BY <1>7, <1>8, <1>9, <1>10

\* A publish that fails is excused.
LEMMA SendFailsPreserves ==
  ASSUME Typed, Memory, SendFailsInGroup
  PROVE  Memory'
  <1>. USE DEF Memory
  <1>1. UNCHANGED <<now, rows, sent>> /\ excused' = excused \cup {engine.sid}
    BY DEF SendFailsInGroup
  <1>2. engine'.sid = engine.sid /\ engine'.list = engine.list /\ engine'.at = engine.at
        /\ engine'.pc \in {"send", "apply"}
    BY DEF SendFailsInGroup, Typed, TEngine, EngineType
  <1>3. RowsRemember' /\ ListRemembers'
    BY <1>1, <1>2 DEF RowsRemember, ListRemembers, Remembers, Core, Ids
  <1>4. SendingIsDue' /\ SavingRemembers' /\ NotAhead'
    BY <1>1, <1>2 DEF SendingIsDue, SavingRemembers, NotAhead
  <1>. QED  BY <1>3, <1>4

\* The entity notes the execution.
LEMMA ApplyPreserves ==
  ASSUME Typed, Memory, Apply
  PROVE  Memory'
  <1>. USE DEF Memory
  <1>. DEFINE s == engine.sid
              held == [engine.held EXCEPT !.last = engine.at,
                         !.enabled = @ /\ engine.held.type # "one_time"]
  <1>1. engine.pc = "apply" /\ UNCHANGED <<now, rows, sent, excused>>
    BY DEF Apply, history
  <1>2. engine \in EngineType /\ s \in Schedule /\ engine.at \in Time /\ engine.held \in Row
    BY <1>1 DEF Typed, TEngine, Executing
  <1>3. held.type = engine.held.type /\ held.slot = engine.held.slot /\ held.last = engine.at
    BY <1>2 DEF Row
  <1>. HIDE DEF held
  <1>4. engine'.sid = s /\ engine'.list = engine.list /\ engine'.at = engine.at
        /\ engine'.pc = "load" /\ engine'.held = held
    BY <1>2 DEF held, Apply, EngineType
  <1>5. RowsRemember' /\ ListRemembers'
    BY <1>1, <1>4 DEF RowsRemember, ListRemembers, Remembers, Core, Ids
  <1>6. ASSUME s \notin excused, NEW e \in sent[s] PROVE Remembers(e, held, engine.at)
    <2>1. ShouldExecute(engine.held, engine.at)
          /\ (e[2] = engine.at \/ Remembers(e, engine.held, engine.at))
      BY <1>1, <1>6 DEF SendingIsDue
    <2>2. CASE engine.held.type = "one_time"
      <3>1. e[2] = engine.at
        BY <2>1, <2>2 DEF ShouldExecute, Remembers, Never, Time
      <3>. QED  BY <1>2, <1>3, <2>2, <3>1 DEF Remembers, Time
    <2>3. CASE engine.held.type # "one_time"
      <3>1. Local[engine.at].time = engine.held.slot.time
        BY <2>1, <2>3 DEF ShouldExecute, Falls
      <3>2. Local[e[2]].time = engine.held.slot.time
        BY <2>1, <2>3, <3>1 DEF Remembers
      <3>3. e[2] <= engine.at
        <4>1. e[2] \in Time
          BY <1>2 DEF Typed, THistory
        <4>. QED  BY <1>2, <2>1, <4>1 DEF Remembers, Time
      <3>. QED  BY <1>2, <1>3, <2>3, <3>1, <3>2, <3>3 DEF Remembers, Time
    <2>. QED  BY <2>2, <2>3
  <1>7. SavingRemembers'
    <2>1. s \notin excused /\ s \in Ids => engine.held.type = rows[s].type /\ engine.held.slot = rows[s].slot
      BY <1>1 DEF SendingIsDue, Core
    <2>. QED  BY <1>1, <1>3, <1>4, <1>6, <2>1 DEF SavingRemembers, Remembers, Ids
  <1>8. SendingIsDue' /\ NotAhead'
    BY <1>1, <1>4 DEF SendingIsDue, NotAhead
  <1>. QED  BY <1>5, <1>7, <1>8

LEMMA EngineLoadPreserves ==
  ASSUME Typed, Memory, EngineLoad
  PROVE  Memory'
  <1>. USE DEF Memory
  <1>1. engine.pc = "load" /\ UNCHANGED <<now, rows, sent, excused>>
    BY DEF EngineLoad, history
  <1>2. engine'.sid = engine.sid /\ engine'.list = engine.list /\ engine'.at = engine.at
        /\ engine'.pc = "save" /\ engine'.held = engine.held
        /\ engine'.loaded = Lookup(engine.sid)
    BY DEF EngineLoad, Typed, TEngine, EngineType
  <1>3. RowsRemember' /\ ListRemembers'
    BY <1>1, <1>2 DEF RowsRemember, ListRemembers, Remembers, Core, Ids
  <1>4. SavingRemembers'
    BY <1>1, <1>2 DEF SavingRemembers, Remembers, Core, Ids, Lookup
  <1>5. SendingIsDue' /\ NotAhead'
    BY <1>1, <1>2 DEF SendingIsDue, NotAhead
  <1>. QED  BY <1>3, <1>4, <1>5

\* Once saved, the row is as the entity, whether it was there or not.
LEMMA EngineSaveCore ==
  ASSUME Typed, Memory, EngineSave, engine.sid \in Ids', engine.sid \notin excused
  PROVE  Core(rows'[engine.sid]) = Core(engine.held)
  <1>. DEFINE s == engine.sid
              held == engine.held
              loaded == engine.loaded
  <1>1. engine.pc = "save" /\ rows' = Written(s, held, loaded)
    BY DEF EngineSave
  <1>2. held \in Row /\ loaded \in Held
    BY <1>1 DEF Typed, TEngine, EngineType, Executing
  <1>3. CASE loaded = NoRow
    BY <1>1, <1>3 DEF Written, Ids, Core
  <1>4. CASE loaded # NoRow
    <2>1. loaded \in Row /\ s \in Ids /\ rows'[s] = Merged(held, loaded, rows[s])
      BY <1>1, <1>2, <1>4 DEF Written, Ids, Merged, Held
    <2>2. rows[s] \in Row
      BY <2>1 DEF Typed, TRows
    <2>3. /\ held.type = rows[s].type /\ held.slot = rows[s].slot
          /\ Core(rows[s]) = Core(loaded)
      BY <1>1, <1>4, <2>1 DEF Memory, SavingRemembers
    <2>4. \A c \in {"type", "slot", "last"} :
            rows'[s][c] = IF held[c] # loaded[c] THEN held[c] ELSE rows[s][c]
      BY <1>2, <2>1, <2>2, MergedRow
    <2>5. rows'[s].type = held.type /\ rows'[s].slot = held.slot /\ rows'[s].last = held.last
      BY <2>3, <2>4 DEF Core
    <2>. QED  BY <2>5 DEF Core
  <1>. QED  BY <1>3, <1>4

LEMMA EngineSavePreserves ==
  ASSUME Typed, Memory, EngineSave
  PROVE  Memory'
  <1>. USE DEF Memory
  <1>. DEFINE s == engine.sid
              held == engine.held
  <1>1. engine.pc = "save" /\ UNCHANGED <<now, sent, excused>> /\ rows' = Written(s, held, engine.loaded)
    BY DEF EngineSave, history
  <1>2. s \in Schedule /\ held \in Row /\ engine.at \in Int /\ now \in Int
    BY <1>1 DEF Typed, TEngine, EngineType, Executing, TRest, Time
  <1>3. engine'.sid = None /\ engine'.list = engine.list /\ engine'.at = engine.at
        /\ engine'.pc = "notify"
    BY DEF EngineSave, Onwards, Resting
  <1>4. \A r \in Ids' \ {s} : r \in Ids /\ rows'[r] = rows[r]
    BY <1>1 DEF Written, Ids
  <1>5. ASSUME s \in Ids', s \notin excused
        PROVE  Core(rows'[s]) = Core(held)
    BY <1>5, EngineSaveCore
  <1>6. ASSUME s \notin excused, NEW e \in sent[s] PROVE Remembers(e, held, engine.at)
    BY <1>1, <1>6 DEF SavingRemembers
  <1>7. engine.at <= now /\ \A r \in Schedule : sent[r] \subseteq Device \X Time
    BY DEF NotAhead, Typed, THistory
  <1>. HIDE DEF held
  <1>8. RowsRemember'
    <2>. SUFFICES ASSUME NEW r \in Ids' \ excused, NEW e \in sent[r]
                  PROVE  Remembers(e, rows'[r], now)
      BY <1>1 DEF RowsRemember, Remembers
    <2>1. CASE r = s
      BY <1>2, <1>5, <1>6, <1>7, <2>1, RemembersLater
    <2>2. CASE r # s
      BY <1>4, <2>2 DEF RowsRemember
    <2>. QED  BY <2>1, <2>2
  <1>9. ListRemembers'
    <2>1. \A x \in engine.list : x.sid # s /\ x.sid # None
      BY ConstantsAssumption DEF ListRemembers, Typed, TEngine, EngineType
    <2>. QED  BY <1>1, <1>3, <1>4, <2>1 DEF ListRemembers, Remembers, Core
  <1>10. SendingIsDue' /\ SavingRemembers' /\ NotAhead'
    BY <1>1, <1>3 DEF SendingIsDue, SavingRemembers, NotAhead
  <1>. QED  BY <1>8, <1>9, <1>10

LEMMA MemoryStep == Typed /\ Memory /\ [Next]_vars => Memory'
  BY RequestPreserves, LettingGoPreserves, LoadPreserves, NextSchedulePreserves, SendPreserves,
     SendFailsPreserves, ApplyPreserves, EngineLoadPreserves, EngineSavePreserves
     DEF Next, EngineStep, Failure

\* What is sent now is apart from what was sent in earlier runs.
LEMMA ApartStep == NoReturn /\ Typed /\ Memory /\ SentApart /\ [Next]_vars => SentApart'
  <1>. SUFFICES ASSUME NoReturn, Typed, Memory, SentApart, [Next]_vars PROVE SentApart'
    OBVIOUS
  <1>1. CASE sent' = sent /\ excused \subseteq excused'
    BY <1>1 DEF SentApart, SameMinute
  <1>2. CASE Send
    <2>. DEFINE s == engine.sid
    <2>1. engine.pc = "send" /\ excused' = excused /\ s \in Schedule /\ engine.at \in Time
      BY <1>2 DEF Send, Typed, TEngine, Executing
    <2>2. PICK d \in engine.todo : sent' = [sent EXCEPT ![s] = @ \cup {<<d, engine.at>>}]
      BY <1>2 DEF Send
    <2>3. sent'[s] = sent[s] \cup {<<d, engine.at>>} /\ \A r \in Schedule \ {s} : sent'[r] = sent[r]
      BY <2>1, <2>2 DEF Typed, THistory
    <2>. HIDE DEF s
    <2>4. ASSUME s \notin excused, NEW f \in sent[s], f[2] # engine.at
          PROVE  ~SameMinute(f[2], engine.at)
      <3>1. Remembers(f, engine.held, engine.at) /\ ShouldExecute(engine.held, engine.at)
        BY <2>1, <2>4 DEF s, Memory, SendingIsDue
      <3>2. engine.held.type # "one_time"
        BY <3>1 DEF Remembers, ShouldExecute, Time, Never
      <3>3. f[2] \in Time
        BY <2>1 DEF Typed, THistory
      <3>4. CASE SameMinute(f[2], engine.at)
        <4>1. Local[engine.held.last].date = Local[f[2]].date
          BY <2>1, <3>1, <3>2, <3>3, <3>4 DEF NoReturn, Remembers
        <4>. QED  BY <3>1, <3>2, <3>4, <4>1 DEF ShouldExecute, Remembers, SameMinute, Time, Never
      <3>. QED  BY <3>4
    <2>. SUFFICES ASSUME NEW r \in Schedule \ excused, NEW e \in sent'[r], NEW f \in sent'[r],
                         e[2] # f[2]
                  PROVE  ~SameMinute(e[2], f[2])
      BY <2>1 DEF SentApart, SameMinute
    <2>5. CASE e \in sent[r] /\ f \in sent[r]
      BY <2>5 DEF SentApart
    <2>6. CASE e \notin sent[r] \/ f \notin sent[r]
      <3>1. r = s /\ (e[2] = engine.at \/ f[2] = engine.at)
        BY <2>3, <2>6
      <3>2. (e[2] # engine.at => e \in sent[s]) /\ (f[2] # engine.at => f \in sent[s])
        BY <2>3, <3>1
      <3>. QED  BY <2>4, <3>1, <3>2 DEF SameMinute
    <2>. QED  BY <2>5, <2>6
  <1>. QED
    BY <1>1, <1>2
       DEF Next, Advance, EngineStep, Failure, RequestStep, Fire, LoadSchedules, NextSchedule,
           RunThrows, Finished, Apply, EngineLoad, EngineSave, Notify, SendFailsInGroup,
           ExecuteFails, RunFails, Crash, Create, Find, Preload, RequestLoad, RequestSave, Remove,
           vars, history

\* Unless its execution was cut short or an edit moved it, no schedule fires
\* twice for one local minute and a one-time schedule fires once, whatever
\* users do to the table while the engine runs, provided the clock is never set
\* back by a day or more.
THEOREM FiresOnceADay == NoReturn => (Spec => []FiresOnce)
  <1>. SUFFICES ASSUME NoReturn PROVE Spec => []FiresOnce
    OBVIOUS
  <1>. DEFINE Inv == Typed /\ Memory /\ SentApart
  <1>1. Init => Inv
    BY TypedInit, MemoryInit
  <1>2. Inv /\ [Next]_vars => Inv'
    BY TypedStep, MemoryStep, ApartStep
  <1>3. Inv => FiresOnce
    BY MemoryImplies
  <1>. HIDE DEF Inv
  <1>. QED  BY <1>1, <1>2, <1>3, PTL DEF Spec

-----------------------------------------------------------------------------
(* A run that ends without a failure has sent all that was due.  The memory   *)
(* of a row must not be more than what was sent, either, and the copies of a  *)
(* row must reach the same devices.                                           *)

RememberedWasSent ==
  \A s \in Ids \ excused : rows[s].last # Never => \E e \in sent[s] : e[2] = rows[s].last

\* A request in flight holds a row of the table: only another request removes.
RequestHoldsRow ==
  /\ request.pc # "idle" =>
       /\ request.sid \in Ids
       /\ request.held.device = rows[request.sid].device
  /\ request.pc = "save" =>
       /\ request.loaded # NoRow
       /\ request.loaded.device = rows[request.sid].device

EngineHoldsRow ==
  /\ \A x \in engine.list : x.sid \in Ids => x.row.device = rows[x.sid].device
  /\ Executing /\ engine.sid \in Ids =>
       /\ engine.held.device = rows[engine.sid].device
       /\ engine.pc = "save" /\ engine.loaded # NoRow =>
            engine.loaded.device = rows[engine.sid].device

\* The schedule being executed: sent to all its devices but those still to do.
SendsAll ==
  Executing /\ (engine.sid \notin excused \/ expected # {}) =>
    /\ \A d \in Targets(engine.held) :
         <<d, engine.at>> \in sent[engine.sid] \/ (engine.pc = "send" /\ d \in engine.todo)
    /\ engine.pc # "send" => \E d \in Device : <<d, engine.at>> \in sent[engine.sid]

\* A schedule that is due waits for its turn, is being executed, or was sent.
InList(s) == \E y \in engine.list : y.sid = s /\ ShouldExecute(y.row, engine.at)

Done(s, t) ==
  /\ \E d \in Device : <<d, t>> \in sent[s]
  /\ s \in Ids => \A d \in Targets(rows[s]) : <<d, t>> \in sent[s]

DueIsSent ==
  \A x \in expected :
    \/ Done(x[1], x[2])
    \/ /\ engine.pc # "idle"
       /\ (Executing /\ engine.sid = x[1]) \/ InList(x[1])

ExpectedNow == engine.pc # "idle" => \A x \in expected : x[2] = engine.at

DueInv ==
  /\ RememberedWasSent /\ RequestHoldsRow /\ EngineHoldsRow /\ SendsAll /\ DueIsSent /\ ExpectedNow

LEMMA DueInit == Init => DueInv
  BY DEF Init, DueInv, RememberedWasSent, RequestHoldsRow, EngineHoldsRow, SendsAll, DueIsSent,
         ExpectedNow, Resting, NoRequest, Executing, RowOf, Ids

\* The memory of the rows stays true.
LEMMA RememberedStep == Typed /\ Memory /\ DueInv /\ [Next]_vars => RememberedWasSent'
  <1>. SUFFICES ASSUME Typed, Memory, DueInv, [Next]_vars,
                       NEW s \in Ids' \ excused', rows'[s].last # Never
                PROVE  \E e \in sent'[s] : e[2] = rows'[s].last
    BY DEF RememberedWasSent, Never
  <1>. USE DEF DueInv, RememberedWasSent
  <1>1. CASE s \in Ids /\ s \notin excused /\ rows'[s].last = rows[s].last /\ sent[s] \subseteq sent'[s]
    BY <1>1
  <1>2. CASE RequestSave
    BY <1>1, <1>2, RequestSaveCore DEF RequestSave, Core
  <1>3. ASSUME NEW r \in Schedule, NEW dto \in Dto, Create(r, dto)
        PROVE  \E e \in sent'[s] : e[2] = rows'[s].last
    BY <1>1, <1>3 DEF Create, RowOf, Ids, history
  <1>4. CASE Remove
    BY <1>1, <1>4 DEF Remove, Ids, history
  <1>5. CASE EngineSave
    <2>1. UNCHANGED <<sent, excused>> /\ engine.pc = "save"
      BY <1>5 DEF EngineSave, history
    <2>2. CASE s # engine.sid
      BY <1>1, <1>5, <2>1, <2>2 DEF EngineSave, Written, Ids
    <2>3. CASE s = engine.sid
      <3>1. rows'[s].last = engine.at
        BY <1>5, <2>1, <2>3, EngineSaveCore DEF Core, Memory, SavingRemembers
      <3>2. PICK d \in Device : <<d, engine.at>> \in sent[s]
        BY <2>1, <2>3 DEF SendsAll, Executing
      <3>. QED  BY <2>1, <3>1, <3>2
    <2>. QED  BY <2>2, <2>3
  <1>6. CASE Send
    <2>1. UNCHANGED <<rows, excused>> /\ s \in Schedule
      BY <1>6 DEF Send, Ids, Typed, TRows
    <2>2. sent[s] \subseteq sent'[s]
      BY <1>6, <2>1 DEF Send, Typed, THistory
    <2>. QED  BY <1>1, <2>1, <2>2 DEF Ids
  <1>7. CASE UNCHANGED <<rows, sent>> /\ excused \subseteq excused'
    BY <1>1, <1>7 DEF Ids
  <1>. QED
    BY <1>2, <1>3, <1>4, <1>5, <1>6, <1>7
       DEF Next, Advance, EngineStep, Failure, RequestStep, Fire, LoadSchedules, NextSchedule,
           RunThrows, Finished, Apply, EngineLoad, Notify, SendFailsInGroup,
           ExecuteFails, RunFails, Crash, Find, Preload, RequestLoad, vars, history

\* No step changes the device of a row, nor does an edit.
LEMMA DeviceStays ==
  Typed /\ DueInv /\ [Next]_vars =>
    \A s \in Ids' : \/ s \in Ids /\ rows'[s].device = rows[s].device
                    \/ New(s) /\ engine' = engine
                    \/ /\ EngineSave /\ s = engine.sid /\ s \notin Ids
                       /\ rows'[s].device = engine.held.device
  <1>. SUFFICES ASSUME Typed, DueInv, [Next]_vars, NEW s \in Ids'
                PROVE  \/ s \in Ids /\ rows'[s].device = rows[s].device
                       \/ New(s) /\ engine' = engine
                       \/ /\ EngineSave /\ s = engine.sid /\ s \notin Ids
                          /\ rows'[s].device = engine.held.device
    OBVIOUS
  <1>. USE DEF DueInv
  <1>1. \A held, loaded, row \in Row :
          held.device = loaded.device \/ held.device = row.device =>
            Merged(held, loaded, row).device = row.device
    BY DEF Merged, Row
  <1>2. CASE RequestSave
    <2>. DEFINE r == request.sid
    <2>1. /\ r \in Ids /\ request.loaded # NoRow /\ request.held.device = rows[r].device
          /\ request.held \in Row /\ request.loaded \in Row /\ rows[r] \in Row
      BY <1>2 DEF RequestSave, RequestHoldsRow, Typed, TRequest, RequestType, TRows, Held
    <2>2. Ids' = Ids /\ \A q \in Ids :
            rows'[q] = IF q # r THEN rows[q] ELSE Merged(request.held, request.loaded, rows[r])
      BY <1>2, <2>1 DEF RequestSave, Written, Ids, Merged
    <2>. QED  BY <1>1, <2>1, <2>2
  <1>3. ASSUME NEW r \in Schedule, NEW dto \in Dto, Create(r, dto)
        PROVE  (s \in Ids /\ rows'[s].device = rows[s].device) \/ (New(s) /\ engine' = engine)
    BY <1>3 DEF Create, Ids
  <1>4. CASE Remove
    BY <1>4 DEF Remove, Ids
  <1>5. CASE EngineSave
    <2>1. engine.pc = "save" /\ rows' = Written(engine.sid, engine.held, engine.loaded)
          /\ engine.held \in Row /\ engine.loaded \in Held
      BY <1>5 DEF EngineSave, Typed, TEngine, Executing, EngineType
    <2>2. CASE s # engine.sid
      BY <2>1, <2>2 DEF Written, Ids
    <2>3. CASE s = engine.sid /\ engine.loaded = NoRow
      BY <1>5, <2>1, <2>3 DEF Written, Ids, EngineHoldsRow, Executing
    <2>4. CASE s = engine.sid /\ engine.loaded # NoRow
      <3>1. s \in Ids /\ rows'[s] = Merged(engine.held, engine.loaded, rows[s])
            /\ engine.loaded \in Row /\ rows[s] \in Row
        BY <2>1, <2>4 DEF Written, Ids, Merged, Held, Typed, TRows
      <3>2. engine.held.device = rows[s].device
        BY <2>1, <2>4, <3>1 DEF EngineHoldsRow, Executing
      <3>. QED  BY <1>1, <2>1, <3>1, <3>2
    <2>. QED  BY <2>2, <2>3, <2>4
  <1>6. CASE rows' = rows
    BY <1>6 DEF Ids
  <1>. QED
    BY <1>2, <1>3, <1>4, <1>5, <1>6
       DEF Next, Advance, EngineStep, Failure, RequestStep, Fire, LoadSchedules, NextSchedule,
           RunThrows, Finished, Send, Apply, EngineLoad, Notify, SendFailsInGroup,
           ExecuteFails, RunFails, Crash, Find, Preload, RequestLoad, vars, history

LEMMA RequestHoldsStep == Typed /\ DueInv /\ [Next]_vars => RequestHoldsRow'
  <1>. SUFFICES ASSUME Typed, DueInv, [Next]_vars PROVE RequestHoldsRow'
    OBVIOUS
  <1>. USE DEF DueInv, RequestHoldsRow
  <1>0. request \in RequestType
    BY DEF Typed, TRequest
  <1>1. CASE request' = NoRequest
    BY <1>1 DEF NoRequest
  <1>2. CASE request' = request /\ Ids \subseteq Ids'
    BY <1>2, DeviceStays DEF New, EngineSave
  <1>3. ASSUME NEW s \in Schedule, NEW op \in {"update", "toggle", "remove"}, Find(s, op)
        PROVE  RequestHoldsRow'
    BY <1>3 DEF Find, NoRequest, Ids
  <1>4. ASSUME NEW edit \in Edit, Preload(edit)
        PROVE  RequestHoldsRow'
    <2>1. Edited(rows[request.sid], edit).device = rows[request.sid].device
      <3>1. rows[request.sid] \in Row
        BY <1>4 DEF Preload, Typed, TRows
      <3>. QED  BY <3>1, EditedRow
    <2>2. request.pc = "preload" /\ request.sid \in Ids /\ UNCHANGED rows
      BY <1>4 DEF Preload
    <2>3. request' = [request EXCEPT !.pc = "load", !.held = Edited(rows[request.sid], edit)]
      BY <1>4, <2>2 DEF Preload
    <2>. QED  BY <1>0, <2>1, <2>2, <2>3 DEF Ids, RequestType
  <1>5. CASE RequestLoad
    <2>1. request.pc = "load" /\ request.sid \in Ids /\ UNCHANGED rows /\ request.held \in Row
      BY <1>5 DEF RequestLoad, Typed, TRequest
    <2>2. Lookup(request.sid) = rows[request.sid] /\ rows[request.sid] \in Row
      BY <2>1 DEF Lookup, Typed, TRows
    <2>3. \A r \in Row : Toggled(r).device = r.device
      BY DEF Toggled, Row
    <2>. QED  BY <1>0, <1>5, <2>1, <2>2, <2>3, NoRowIsNone DEF RequestLoad, Ids, RequestType
  <1>6. Ids \subseteq Ids' \/ Remove
    BY DEF Next, Advance, EngineStep, Failure, RequestStep, Fire, LoadSchedules, NextSchedule,
           RunThrows, Finished, Send, Apply, EngineLoad, EngineSave, Notify, SendFailsInGroup,
           ExecuteFails, RunFails, Crash, Create, Find, Preload, RequestLoad, RequestSave, vars,
           history, Ids, Written
  <1>. QED
    BY <1>1, <1>2, <1>3, <1>4, <1>5, <1>6
       DEF Next, Advance, EngineStep, Failure, RequestStep, Fire, LoadSchedules, NextSchedule,
           RunThrows, Finished, Send, Apply, EngineLoad, EngineSave, Notify, SendFailsInGroup,
           ExecuteFails, RunFails, Crash, Create, RequestSave, Remove, vars, history

LEMMA EngineHoldsStep == Typed /\ Memory /\ DueInv /\ [Next]_vars => EngineHoldsRow'
  <1>. SUFFICES ASSUME Typed, Memory, DueInv, [Next]_vars PROVE EngineHoldsRow'
    OBVIOUS
  <1>. USE DEF DueInv, EngineHoldsRow, Executing
  <1>0. engine \in EngineType
    BY DEF Typed, TEngine
  <1>1. CASE engine' = engine /\ ~EngineSave
    BY <1>1, DeviceStays DEF New
  <1>2. CASE engine'.list = {} /\ engine'.pc \notin {"send", "apply", "load", "save"}
    BY <1>2
  <1>3. CASE /\ engine'.list \subseteq engine.list /\ UNCHANGED rows
             /\ engine'.pc \notin {"send", "apply", "load", "save"}
    BY <1>3 DEF Ids
  <1>4. CASE LoadSchedules
    <2>. DEFINE L == {[sid |-> s, row |-> rows[s]] : s \in {r \in Ids : rows[r].enabled}}
    <2>1. engine' = [engine EXCEPT !.pc = "loop", !.at = now, !.list = L] /\ UNCHANGED rows
      BY <1>4 DEF LoadSchedules
    <2>2. \A x \in L : x.row = rows[x.sid]
      OBVIOUS
    <2>. HIDE DEF L
    <2>. QED  BY <1>0, <2>1, <2>2 DEF Ids, EngineType
  <1>5. CASE NextSchedule
    <2>1. PICK x \in engine.list :
            engine' = IF ShouldExecute(x.row, engine.at)
                        THEN [engine EXCEPT !.pc = "send", !.list = engine.list \ {x},
                                !.sid = x.sid, !.held = x.row, !.todo = Targets(x.row)]
                        ELSE [engine EXCEPT !.list = engine.list \ {x}]
      BY <1>5 DEF NextSchedule
    <2>2. engine.pc = "loop" /\ UNCHANGED rows
      BY <1>5 DEF NextSchedule
    <2>. QED  BY <1>0, <2>1, <2>2 DEF Ids, EngineType
  <1>6. CASE /\ engine'.list = engine.list /\ engine'.sid = engine.sid /\ UNCHANGED rows
             /\ engine'.held.device = engine.held.device /\ engine'.pc # "save" /\ Executing
    BY <1>6 DEF Ids
  <1>7. CASE Send \/ SendFailsInGroup
    BY <1>0, <1>6, <1>7 DEF Send, SendFailsInGroup, EngineType
  <1>8. CASE Apply
    <2>1. engine.held \in Row
      BY <1>8 DEF Apply, Typed, TEngine
    <2>2. [engine.held EXCEPT !.last = engine.at, !.enabled = @ /\ engine.held.type # "one_time"].device
            = engine.held.device
      BY <2>1 DEF Row
    <2>. QED  BY <1>0, <1>6, <1>8, <2>2 DEF Apply, EngineType
  <1>9. CASE EngineLoad
    BY <1>0, <1>9 DEF EngineLoad, EngineType, Ids, Lookup
  <1>10. CASE EngineSave
    <2>1. engine'.list = engine.list /\ engine'.pc = "notify"
      BY <1>10 DEF EngineSave, Onwards, Resting
    <2>2. \A x \in engine.list : x.sid # engine.sid
      BY DEF Memory, ListRemembers
    <2>3. \A s \in Ids' \ {engine.sid} : s \in Ids /\ rows'[s].device = rows[s].device
      BY <1>10 DEF EngineSave, Written, Ids
    <2>. QED  BY <2>1, <2>2, <2>3
  <1>11. CASE Fire \/ RunThrows \/ Finished \/ RunFails \/ Crash
    BY <1>2, <1>11 DEF Fire, RunThrows, Finished, RunFails, Crash, Resting
  <1>12. CASE Notify \/ ExecuteFails
    BY <1>0, <1>3, <1>12 DEF Notify, ExecuteFails, Onwards, Resting, EngineType
  <1>. QED
    BY <1>1, <1>4, <1>5, <1>7, <1>8, <1>9, <1>10, <1>11, <1>12
       DEF Next, Advance, EngineStep, Failure, RequestStep, Create, Find, Preload, RequestLoad,
           RequestSave, Remove, vars, EngineSave

LEMMA SendsAllStep == Typed /\ DueInv /\ [Next]_vars => SendsAll'
  <1>. SUFFICES ASSUME Typed, DueInv, [Next]_vars PROVE SendsAll'
    OBVIOUS
  <1>. USE DEF DueInv, SendsAll, Executing
  <1>0. engine \in EngineType
    BY DEF Typed, TEngine
  <1>1. CASE /\ engine' = engine /\ sent' = sent /\ expected' = expected
             /\ excused \subseteq excused'
    BY <1>1
  <1>2. CASE engine'.pc \notin {"send", "apply", "load", "save"}
    BY <1>2
  <1>3. CASE NextSchedule
    <2>1. PICK x \in engine.list :
            engine' = IF ShouldExecute(x.row, engine.at)
                        THEN [engine EXCEPT !.pc = "send", !.list = engine.list \ {x},
                                !.sid = x.sid, !.held = x.row, !.todo = Targets(x.row)]
                        ELSE [engine EXCEPT !.list = engine.list \ {x}]
      BY <1>3 DEF NextSchedule
    <2>2. engine.pc = "loop"
      BY <1>3 DEF NextSchedule
    <2>. QED  BY <1>0, <2>1, <2>2 DEF EngineType
  <1>4. CASE Send
    <2>. DEFINE s == engine.sid
    <2>1. engine.pc = "send" /\ UNCHANGED <<excused, expected>> /\ s \in Schedule
      BY <1>4 DEF Send, Typed, TEngine
    <2>2. PICK d \in engine.todo :
            /\ sent' = [sent EXCEPT ![s] = @ \cup {<<d, engine.at>>}]
            /\ engine' = [engine EXCEPT !.todo = @ \ {d},
                            !.pc = IF engine.todo = {d} THEN "apply" ELSE "send"]
      BY <1>4 DEF Send
    <2>3. sent'[s] = sent[s] \cup {<<d, engine.at>>}
      BY <2>1, <2>2 DEF Typed, THistory
    <2>4. /\ engine'.sid = s /\ engine'.held = engine.held /\ engine'.at = engine.at
          /\ engine'.todo = engine.todo \ {d} /\ d \in Device
          /\ engine'.pc = IF engine.todo = {d} THEN "apply" ELSE "send"
      BY <1>0, <2>2 DEF EngineType
    <2>. HIDE DEF s
    <2>5. ASSUME s \notin excused \/ expected # {}, NEW t \in Targets(engine.held)
          PROVE  <<t, engine.at>> \in sent'[s] \/ (engine'.pc = "send" /\ t \in engine'.todo)
      BY <2>1, <2>3, <2>4, <2>5 DEF s
    <2>. QED  BY <2>1, <2>3, <2>4, <2>5
  <1>5. CASE Apply
    <2>1. engine.held \in Row /\ engine.pc = "apply"
      BY <1>5 DEF Apply, Typed, TEngine
    <2>. DEFINE held == [engine.held EXCEPT !.last = engine.at,
                           !.enabled = @ /\ engine.held.type # "one_time"]
    <2>2. held.device = engine.held.device
      BY <2>1 DEF Row
    <2>3. engine' = [engine EXCEPT !.pc = "load", !.held = held]
      BY <1>0, <1>5 DEF Apply, EngineType
    <2>. HIDE DEF held
    <2>4. Targets(held) = Targets(engine.held)
      BY <2>2 DEF Targets
    <2>5. UNCHANGED <<sent, excused, expected>>
      BY <1>5 DEF Apply, history
    <2>6. engine'.held = held /\ engine'.pc = "load" /\ engine'.sid = engine.sid /\ engine'.at = engine.at
      BY <1>0, <2>3 DEF EngineType
    <2>. QED  BY <2>1, <2>4, <2>5, <2>6
  <1>6. CASE EngineLoad
    BY <1>0, <1>6 DEF EngineLoad, EngineType, history
  <1>7. CASE SendFailsInGroup
    <2>1. engine'.sid = engine.sid /\ engine.sid \in excused' /\ expected' = {}
      BY <1>0, <1>7 DEF SendFailsInGroup, Failing, EngineType
    <2>. QED  BY <2>1
  <1>8. CASE LoadSchedules \/ EngineSave \/ Notify \/ ExecuteFails
    BY <1>0, <1>2, <1>8 DEF LoadSchedules, EngineSave, Notify, ExecuteFails, Onwards, Resting, EngineType
  <1>9. CASE Fire \/ RunThrows \/ Finished \/ RunFails \/ Crash
    BY <1>2, <1>9 DEF Fire, RunThrows, Finished, RunFails, Crash, Resting
  <1>. QED
    BY <1>1, <1>3, <1>4, <1>5, <1>6, <1>7, <1>8, <1>9
       DEF Next, Advance, EngineStep, Failure, RequestStep, Create, Find, Preload, RequestLoad,
           RequestSave, Remove, vars, history

\* What is due for a user is due for the engine: the memory is not too long.
LEMMA DueExecutes ==
  ASSUME Typed, RememberedWasSent, NEW s \in Ids, Due(s, rows[s], now)
  PROVE  ShouldExecute(rows[s], now)
  <1>1. rows[s].last # Never => \E e \in sent[s] : e[2] = rows[s].last
    BY DEF RememberedWasSent, Due
  <1>. QED  BY <1>1 DEF Due, ShouldExecute, SameMinute, Falls

\* What is done stays done: an id is not used again, a device does not change.
LEMMA DoneStays ==
  ASSUME Typed, DueInv, [Next]_vars, ~EngineSave, NEW s \in Schedule, NEW t, Done(s, t)
  PROVE  Done(s, t)'
  <1>1. sent[s] \subseteq sent'[s]
    BY DEF Next, Advance, EngineStep, Failure, RequestStep, Fire, LoadSchedules, NextSchedule,
           RunThrows, Finished, Send, Apply, EngineLoad, Notify, SendFailsInGroup,
           ExecuteFails, RunFails, Crash, Create, Find, Preload, RequestLoad, RequestSave, Remove,
           vars, history, Typed, THistory
  <1>2. s \in Ids' => s \in Ids /\ rows'[s].device = rows[s].device
    BY DeviceStays DEF Done, New
  <1>. QED  BY <1>1, <1>2 DEF Done, Targets

LEMMA DueStep == Typed /\ Memory /\ DueInv /\ [Next]_vars => DueIsSent' /\ ExpectedNow'
  <1>. SUFFICES ASSUME Typed, Memory, DueInv, [Next]_vars PROVE DueIsSent' /\ ExpectedNow'
    OBVIOUS
  <1>. USE DEF DueInv, DueIsSent, ExpectedNow, Executing
  <1>0. engine \in EngineType /\ \A x \in expected : x[1] \in Schedule
    BY DEF Typed, TEngine, THistory
  <1>1. CASE expected' = {}
    BY <1>1
  <1>2. CASE expected' = expected /\ engine' = engine /\ ~EngineSave
    BY <1>0, <1>2, DoneStays DEF InList
  <1>3. CASE LoadSchedules
    <2>. DEFINE L == {[sid |-> s, row |-> rows[s]] : s \in {r \in Ids : rows[r].enabled}}
    <2>1. /\ engine' = [engine EXCEPT !.pc = "loop", !.at = now, !.list = L]
          /\ \A x \in expected' : x[2] = now /\ x[1] \in Ids /\ rows[x[1]].enabled
                                  /\ Due(x[1], rows[x[1]], now)
      BY <1>3 DEF LoadSchedules
    <2>2. \A x \in expected' : [sid |-> x[1], row |-> rows[x[1]]] \in L
      BY <2>1
    <2>. HIDE DEF L
    <2>3. engine'.pc = "loop" /\ engine'.at = now /\ engine'.list = L
      BY <1>0, <2>1 DEF EngineType
    <2>4. ASSUME NEW x \in expected' PROVE InList(x[1])'
      <3>1. ShouldExecute(rows[x[1]], now)
        BY <2>1, DueExecutes
      <3>. QED  BY <2>2, <2>3, <3>1 DEF InList, ShouldExecute, Falls
    <2>. QED  BY <2>1, <2>3, <2>4
  <1>4. CASE NextSchedule
    <2>1. PICK x \in engine.list :
            engine' = IF ShouldExecute(x.row, engine.at)
                        THEN [engine EXCEPT !.pc = "send", !.list = engine.list \ {x},
                                !.sid = x.sid, !.held = x.row, !.todo = Targets(x.row)]
                        ELSE [engine EXCEPT !.list = engine.list \ {x}]
      BY <1>4 DEF NextSchedule
    <2>2. engine.pc = "loop" /\ expected' = expected /\ ~EngineSave
      BY <1>4 DEF NextSchedule, history, EngineSave
    <2>3. /\ engine'.at = engine.at /\ engine'.list = engine.list \ {x}
          /\ engine'.pc \in {"loop", "send"}
          /\ ShouldExecute(x.row, engine.at) => engine'.pc = "send" /\ engine'.sid = x.sid
      BY <1>0, <2>1, <2>2 DEF EngineType
    <2>4. ASSUME NEW y \in expected, ~Done(y[1], y[2])
          PROVE  (engine'.pc = "send" /\ engine'.sid = y[1]) \/ InList(y[1])'
      <3>1. PICK z \in engine.list : z.sid = y[1] /\ ShouldExecute(z.row, engine.at)
        BY <2>2, <2>4 DEF InList
      <3>2. CASE z = x
        BY <2>3, <3>1, <3>2
      <3>3. CASE z # x
        BY <2>3, <3>1, <3>3 DEF InList, ShouldExecute, Falls
      <3>. QED  BY <3>2, <3>3
    <2>. QED  BY <1>0, <2>2, <2>3, <2>4, DoneStays
  <1>5. CASE Finished
    <2>1. engine' = Resting /\ engine.pc = "loop" /\ engine.list = {} /\ expected' = expected
          /\ ~EngineSave
      BY <1>5 DEF Finished, history, EngineSave
    <2>2. \A y \in expected : Done(y[1], y[2])
      BY <2>1 DEF InList
    <2>. QED  BY <1>0, <2>1, <2>2, DoneStays DEF Resting
  <1>6. CASE Send \/ Apply \/ EngineLoad \/ Notify
    <2>1. expected' = expected /\ engine'.sid = engine.sid /\ engine'.list = engine.list
          /\ engine'.at = engine.at /\ ~EngineSave /\ engine'.pc # "idle" /\ engine.pc # "idle"
          /\ (Executing => engine'.pc \in {"send", "apply", "load", "save"})
      BY <1>0, <1>6 DEF Send, Apply, EngineLoad, Notify, EngineSave, EngineType, history
    <2>2. \A s : InList(s) => InList(s)'
      BY <2>1 DEF InList, ShouldExecute, Falls
    <2>. QED  BY <1>0, <2>1, <2>2, DoneStays
  <1>7. CASE EngineSave
    <2>. DEFINE s == engine.sid
    <2>1. engine.pc = "save" /\ expected' = expected /\ sent' = sent /\ excused' = excused
      BY <1>7 DEF EngineSave, history
    <2>2. engine'.pc = "notify" /\ engine'.list = engine.list /\ engine'.at = engine.at
          /\ rows' = Written(s, engine.held, engine.loaded)
      BY <1>7 DEF EngineSave, Onwards, Resting
    <2>3. \A r \in Ids' \ {s} : r \in Ids /\ rows'[r] = rows[r]
      BY <2>2 DEF Written, Ids
    <2>4. s \in Ids' => rows'[s].device = engine.held.device
      <3>1. s \in Ids => engine.held.device = rows[s].device
        BY <2>1 DEF EngineHoldsRow
      <3>2. engine'.pc # engine.pc
        BY <2>1, <2>2
      <3>. QED  BY <3>1, <3>2, DeviceStays
    <2>5. ASSUME NEW y \in expected, y[1] = s
          PROVE  Done(y[1], y[2])'
      <3>1. /\ \A d \in Targets(engine.held) : <<d, engine.at>> \in sent[s]
            /\ \E d \in Device : <<d, engine.at>> \in sent[s]
        BY <2>1 DEF SendsAll
      <3>2. s \in Ids' => Targets(rows'[s]) = Targets(engine.held)
        BY <2>4 DEF Targets
      <3>3. y[2] = engine.at
        BY <2>1
      <3>. QED  BY <2>1, <2>5, <3>1, <3>2, <3>3 DEF Done, Targets
    <2>6. ASSUME NEW y \in expected, y[1] # s
          PROVE  Done(y[1], y[2])' \/ InList(y[1])'
      <3>1. InList(y[1]) => InList(y[1])'
        BY <2>2 DEF InList, ShouldExecute, Falls
      <3>2. Done(y[1], y[2]) => Done(y[1], y[2])'
        BY <2>1, <2>3, <2>6 DEF Done
      <3>. QED  BY <2>6, <3>1, <3>2
    <2>. QED  BY <2>1, <2>2, <2>5, <2>6
  <1>. QED
    BY <1>1, <1>2, <1>3, <1>4, <1>5, <1>6, <1>7
       DEF Next, Advance, EngineStep, Failure, RequestStep, Fire, RunThrows, SendFailsInGroup,
           ExecuteFails, RunFails, Crash, Failing, Create, Find, Preload, RequestLoad, RequestSave,
           Remove, vars, history, EngineSave

LEMMA DueInvStep == Typed /\ Memory /\ DueInv /\ [Next]_vars => DueInv'
  BY RememberedStep, RequestHoldsStep, EngineHoldsStep, SendsAllStep, DueStep DEF DueInv

\* A run that ended without a failure has sent every schedule that was due to
\* each of its devices: what the rows remember holds nothing back, and neither
\* edits nor removals under the run lose a schedule, whatever the clock does.
THEOREM NothingDueIsHeldBack == Spec => []DueWasSent
  <1>. DEFINE Inv == Typed /\ Memory /\ DueInv
  <1>1. Init => Inv
    BY TypedInit, MemoryInit, DueInit
  <1>2. Inv /\ [Next]_vars => Inv'
    BY TypedStep, MemoryStep, DueInvStep
  <1>3. Inv => DueWasSent
    BY DEF DueInv, DueIsSent, DueWasSent, Done, Executing
  <1>. HIDE DEF Inv
  <1>. QED  BY <1>1, <1>2, <1>3, PTL DEF Spec

=============================================================================
