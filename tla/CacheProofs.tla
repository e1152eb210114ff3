----------------------------- MODULE CacheProofs -----------------------------
(***************************************************************************)
(* Proofs about ZoneConfig, and with it about CacheAside and                *)
(* CommandRouting, for any number of devices, gateways, zones and requests  *)
(* in flight, and any time to live.                                         *)
(***************************************************************************)
EXTENDS ZoneConfig, TLAPS

-----------------------------------------------------------------------------
(* Types. *)

Fields == {"kind", "pc", "of", "arg", "key", "data", "configs", "held", "loaded", "members",
           "left", "parent", "late"}

\* What the key of a request in the cache is about.
Keyed(j) ==
  \/ j.kind \in {"command", "response", "mode_response"} /\ j.of \in Device /\ j.key = <<"route", j.of>>
  \/ j.kind = "acl" /\ j.of \in Gateway /\ j.key = <<"owned", j.of>>
  \/ /\ j.kind = "telemetry" /\ j.of \in Device
     /\ j.key \in {<<"configs", j.of>>, <<"context", j.of>>}

\* What a request knows at each step.
KeyedAt(j) ==
  /\ j.pc \in {"load", "load_rules", "fill", "use"} => Keyed(j)
  /\ j.pc = "load_rules" => j.kind = "telemetry" /\ j.key = <<"context", j.of>>
  /\ j.pc = "use" /\ j.kind = "telemetry" => j.key = <<"context", j.of>>

\* Requests that find a device and save it.
Edits == {"rename"} \cup Moves \cup Switches

About(j) ==
  /\ j.kind = "mode_response" => j.of \in Device /\ j.arg \in Mode
  /\ j.kind = "schedule" => j.of \in Device \cup Zone /\ j.arg \in Mode
  /\ j.kind \in Edits => j.of \in Device /\ j.arg \in DeviceUpdate /\ j.kind = DeviceKind(j.arg)
  /\ j.kind = "update" => j.of \in Zone /\ j.arg \in ZoneUpdate
  /\ j.kind \in {"toggle", "remove"} => j.of \in Zone
  /\ j.kind \in {"config", "threshold"} => j.of \in Device \cup Zone /\ j.arg \in RuleSet

HoldsAt(j) ==
  /\ j.pc \in {"load_zone", "save", "wait"} =>
       j.kind \in {"update", "toggle"} /\ j.held \in ZoneRow /\ j.held.there
  /\ j.pc = "wait" => j.left \subseteq Device
  /\ j.pc = "save" => j.loaded \in ZoneRow
  /\ j.pc = "remove" => j.kind = "remove"
  /\ j.pc = "invalidate" => j.kind \in {"mode_response", "update", "schedule", "config", "threshold"}
  /\ j.pc \in {"preload_device", "load_device", "save_device"} => j.kind \in Edits
  /\ j.pc \in {"load_device", "save_device"} => j.held \in DeviceRow
  /\ j.pc = "save_device" => j.loaded \in DeviceRow
  /\ j.pc = "set_mode" => j.kind = "schedule"

JobType(j) ==
  /\ DOMAIN j = Fields /\ j.late \in BOOLEAN
  /\ j.pc # "idle" => j.kind \in scope \cup {"command"}
  /\ KeyedAt(j) /\ About(j) /\ HoldsAt(j)

TJobs == DOMAIN job = Request /\ \A r \in Request : JobType(job[r])

TTables ==
  /\ devices \in [Device -> DeviceRow]
  /\ zones \in [Zone -> ZoneRow]
  /\ rules \in [Device \cup Zone -> Rules]
  /\ \A d \in Device : devices[d].zone # None => zones[devices[d].zone].there

TCache ==
  /\ DOMAIN cache = CacheKey
  /\ \A k \in CacheKey :
       /\ DOMAIN cache[k] = {"data", "loadedAt", "excused"}
       /\ cache[k].loadedAt \in Int /\ -1 <= cache[k].loadedAt /\ cache[k].loadedAt <= now

TClock == now \in Nat /\ now <= MaxTime

Typed == TJobs /\ TTables /\ TCache /\ TClock

LEMMA TypedImplies == Typed => TypeOK
  BY ConstantsAssumption
     DEF Typed, TypeOK, TJobs, JobType, TTables, TCache, TClock, DeviceRow, ZoneRow

LEMMA IdleType == JobType(Idle)
  BY DEF Idle, JobType, Fields, KeyedAt, About, HoldsAt, Edits, Moves, Switches

LEMMA TypedInit == Init => Typed
  <1>. SUFFICES ASSUME Init PROVE Typed
    OBVIOUS
  <1>1. TJobs
    BY IdleType DEF Init, TJobs, JobType
  <1>2. TTables
    BY DEF Init, TTables
  <1>3. TCache
    BY DEF Init, TCache, NoEntry
  <1>4. TClock
    BY ConstantsAssumption DEF Init, TClock
  <1>. QED  BY <1>1, <1>2, <1>3, <1>4 DEF Typed

\* Lookups: of a request with the fields of a job.
LEMMA LookUpLastFields ==
  ASSUME NEW j, DOMAIN j = Fields
  PROVE  LET k == LookUpLast(j) IN
         /\ DOMAIN k = Fields
         /\ k.pc \in {"use", "load"}
         /\ k.pc = "use" => Hit(j.key) /\ k.data = cache[j.key].data
         /\ k.kind = j.kind /\ k.of = j.of /\ k.arg = j.arg /\ k.key = j.key
         /\ k.configs = j.configs /\ k.late = j.late
  BY DEF LookUpLast, Fields

LEMMA GotFields ==
  ASSUME NEW j, DOMAIN j = Fields, NEW data, Keyed(j)
  PROVE  LET k == Got(j, data) IN
         /\ DOMAIN k = Fields
         /\ k.kind = j.kind /\ k.of = j.of /\ k.arg = j.arg /\ k.late = j.late
         /\ \/ /\ j.key = <<"configs", j.of>> /\ k.configs = data
               /\ k.key = <<"context", j.of>> /\ k.pc \in {"use", "load"}
               /\ k.pc = "use" => Hit(k.key) /\ k.data = cache[k.key].data
            \/ /\ j.key[1] # "configs" /\ k.pc = "use" /\ k.data = data
               /\ k.key = j.key /\ k.configs = j.configs
  <1>1. CASE j.key[1] = "configs"
    <2>. DEFINE i == [j EXCEPT !.key = <<"context", j.of>>, !.configs = data]
    <2>1. /\ DOMAIN i = Fields /\ i.kind = j.kind /\ i.of = j.of /\ i.arg = j.arg /\ i.late = j.late
          /\ i.configs = data /\ i.key = <<"context", j.of>>
      BY DEF Fields
    <2>2. j.key = <<"configs", j.of>>
      BY <1>1 DEF Keyed
    <2>3. Got(j, data) = LookUpLast(i)
      BY <1>1 DEF Got
    <2>. HIDE DEF i
    <2>. QED  BY <2>1, <2>2, <2>3, LookUpLastFields
  <1>2. CASE j.key[1] # "configs"
    BY <1>2 DEF Got, Fields
  <1>. QED  BY <1>1, <1>2

LEMMA LookUpFields ==
  ASSUME NEW j, DOMAIN j = Fields, Keyed(j)
  PROVE  LET k == LookUp(j) IN
         \/ Hit(j.key) /\ k = Got(j, cache[j.key].data)
         \/ /\ DOMAIN k = Fields /\ k.pc = "load"
            /\ k.kind = j.kind /\ k.of = j.of /\ k.arg = j.arg /\ k.key = j.key /\ k.late = j.late
            /\ k.configs = j.configs
  BY DEF LookUp, Fields

LEMMA GotType ==
  ASSUME NEW j, DOMAIN j = Fields, NEW data, Keyed(j), j.late \in BOOLEAN, About(j),
         j.kind \in scope \cup {"command"}
  PROVE  JobType(Got(j, data))
  <1>. DEFINE k == Got(j, data)
  <1>1. /\ DOMAIN k = Fields /\ k.kind = j.kind /\ k.of = j.of /\ k.arg = j.arg /\ k.late = j.late
        /\ k.pc \in {"use", "load"}
        /\ \/ j.key = <<"configs", j.of>> /\ k.key = <<"context", j.of>>
           \/ j.key[1] # "configs" /\ k.pc = "use" /\ k.key = j.key
    BY GotFields
  <1>. HIDE DEF k
  <1>2. Keyed(k) /\ KeyedAt(k)
    BY <1>1 DEF Keyed, KeyedAt
  <1>3. About(k) /\ HoldsAt(k)
    BY <1>1 DEF About, HoldsAt
  <1>4. JobType(k)
    BY <1>1, <1>2, <1>3 DEF JobType
  <1>. QED  BY <1>4 DEF k

LEMMA LookUpType ==
  ASSUME NEW j, DOMAIN j = Fields, Keyed(j), j.late \in BOOLEAN, About(j),
         j.kind \in scope \cup {"command"}
  PROVE  JobType(LookUp(j))
  <1>1. CASE LookUp(j) = Got(j, cache[j.key].data)
    BY <1>1, GotType
  <1>2. CASE LookUp(j) # Got(j, cache[j.key].data)
    <2>. DEFINE k == LookUp(j)
    <2>1. /\ DOMAIN k = Fields /\ k.kind = j.kind /\ k.of = j.of /\ k.arg = j.arg
          /\ k.late = j.late /\ k.pc = "load" /\ k.key = j.key
      BY <1>2, LookUpFields
    <2>. HIDE DEF k
    <2>2. JobType(k)
      BY <2>1 DEF JobType, Keyed, KeyedAt, About, HoldsAt
    <2>. QED  BY <2>2 DEF k
  <1>. QED  BY <1>1, <1>2

\* Steps of one request.
LEMMA BecomeType ==
  ASSUME Typed, NEW r \in Request, NEW j, JobType(j), Become(r, j), scope' = scope
  PROVE  TJobs'
  BY DEF Typed, TJobs, Become, JobType

LEMMA FinishType ==
  ASSUME Typed, NEW r \in Request, Finish(r), scope' = scope
  PROVE  TJobs'
  BY IdleType, BecomeType DEF Finish

LEMMA GotoType ==
  ASSUME Typed, NEW r \in Request, NEW step, Goto(r, step), scope' = scope,
         \/ step = "invalidate" /\ job[r].kind \in {"mode_response", "update", "schedule", "config", "threshold"}
         \/ step = "remove" /\ job[r].kind = "remove",
         job[r].pc # "idle"
  PROVE  TJobs'
  <1>. DEFINE j == [job[r] EXCEPT !.pc = step]
  <1>1. /\ DOMAIN j = Fields /\ j.late = job[r].late /\ j.kind = job[r].kind /\ j.of = job[r].of
        /\ j.arg = job[r].arg /\ j.pc = step /\ JobType(job[r])
    BY DEF Typed, TJobs, JobType, Fields
  <1>. HIDE DEF j
  <1>2. JobType(j)
    BY <1>1 DEF JobType, KeyedAt, About, HoldsAt
  <1>. QED  BY <1>2, BecomeType DEF Goto, j

\* What arrives: a lookup of a key, or a request that starts with another query.
Arrives(r, j) ==
  /\ DOMAIN j = Fields /\ j.late = FALSE /\ About(j) /\ j.kind \in scope
  /\ \/ Keyed(j) /\ j.key[1] # "context" /\ Become(r, LookUp(j))
     \/ /\ j.pc \in {"find", "preload", "write", "preload_device", "set_mode"} /\ Become(r, j)
        /\ j.pc = "preload_device" => j.kind \in Edits
        /\ j.pc = "set_mode" => j.kind = "schedule"
  /\ job[r].pc = "idle" /\ UNCHANGED <<now, tables, cache, scope, gone>>

LEMMA StartLookUp ==
  ASSUME NEW r, NEW j, DOMAIN j = Fields, j.late = FALSE, About(j), Keyed(j),
         j.key[1] # "context", Start(r, LookUp(j))
  PROVE  Arrives(r, j)
  <1>1. LookUp(j).kind = j.kind
    BY LookUpFields, GotFields
  <1>. QED  BY <1>1 DEF Start, Arrives

LEMMA ArriveForms ==
  ASSUME NEW r \in Request, Arrive(r)
  PROVE  \E j : Arrives(r, j)
  <1>1. CASE SendCommand(r)
    <2>1. PICK d \in Device, c \in PumpCommand :
            Start(r, LookUp([Idle EXCEPT !.kind = "command", !.of = d, !.arg = c, !.key = <<"route", d>>]))
      BY <1>1 DEF SendCommand
    <2>. DEFINE j == [Idle EXCEPT !.kind = "command", !.of = d, !.arg = c, !.key = <<"route", d>>]
    <2>2. DOMAIN j = Fields /\ j.kind = "command" /\ j.of = d /\ j.key = <<"route", d>> /\ j.late = FALSE
      BY DEF Idle, Fields
    <2>3. Start(r, LookUp(j))
      BY <2>1
    <2>. HIDE DEF j
    <2>4. Keyed(j) /\ About(j) /\ j.key[1] # "context"
      BY <2>2 DEF Keyed, About, Edits, Moves, Switches
    <2>5. Arrives(r, j)
      BY <2>2, <2>3, <2>4, StartLookUp
    <2>. QED  BY <2>5
  <1>2. CASE DeviceResponse(r)
    <2>1. PICK d \in Device, c \in Command :
            Start(r, LookUp([Idle EXCEPT !.kind = IF c \in PumpCommand THEN "response" ELSE "mode_response",
                               !.of = d, !.arg = c, !.key = <<"route", d>>]))
      BY <1>2 DEF DeviceResponse
    <2>. DEFINE j == [Idle EXCEPT !.kind = IF c \in PumpCommand THEN "response" ELSE "mode_response",
                        !.of = d, !.arg = c, !.key = <<"route", d>>]
    <2>2. DOMAIN j = Fields /\ j.of = d /\ j.arg = c /\ j.key = <<"route", d>> /\ j.late = FALSE
          /\ j.kind \in {"response", "mode_response"} /\ (j.kind = "mode_response" => c \in Mode)
      BY DEF Idle, Fields, Command
    <2>3. Start(r, LookUp(j))
      BY <2>1
    <2>. HIDE DEF j
    <2>4. Keyed(j) /\ About(j) /\ j.key[1] # "context"
      BY <2>2 DEF Keyed, About, Edits, Moves, Switches
    <2>5. Arrives(r, j)
      BY <2>2, <2>3, <2>4, StartLookUp
    <2>. QED  BY <2>5
  <1>3. CASE CheckAcl(r)
    <2>1. PICK g \in Gateway, d \in Device :
            Start(r, LookUp([Idle EXCEPT !.kind = "acl", !.of = g, !.arg = d, !.key = <<"owned", g>>]))
      BY <1>3 DEF CheckAcl
    <2>. DEFINE j == [Idle EXCEPT !.kind = "acl", !.of = g, !.arg = d, !.key = <<"owned", g>>]
    <2>2. DOMAIN j = Fields /\ j.kind = "acl" /\ j.of = g /\ j.key = <<"owned", g>> /\ j.late = FALSE
      BY DEF Idle, Fields
    <2>3. Start(r, LookUp(j))
      BY <2>1
    <2>. HIDE DEF j
    <2>4. Keyed(j) /\ About(j) /\ j.key[1] # "context"
      BY <2>2 DEF Keyed, About, Edits, Moves, Switches
    <2>5. Arrives(r, j)
      BY <2>2, <2>3, <2>4, StartLookUp
    <2>. QED  BY <2>5
  <1>4. CASE Telemetry(r)
    <2>1. PICK d \in Device :
            Start(r, LookUp([Idle EXCEPT !.kind = "telemetry", !.of = d, !.key = <<"configs", d>>]))
      BY <1>4 DEF Telemetry
    <2>. DEFINE j == [Idle EXCEPT !.kind = "telemetry", !.of = d, !.key = <<"configs", d>>]
    <2>2. DOMAIN j = Fields /\ j.kind = "telemetry" /\ j.of = d /\ j.key = <<"configs", d>> /\ j.late = FALSE
      BY DEF Idle, Fields
    <2>3. Start(r, LookUp(j))
      BY <2>1
    <2>. HIDE DEF j
    <2>4. Keyed(j) /\ About(j) /\ j.key[1] # "context"
      BY <2>2 DEF Keyed, About, Edits, Moves, Switches
    <2>5. Arrives(r, j)
      BY <2>2, <2>3, <2>4, StartLookUp
    <2>. QED  BY <2>5
  <1>5. ASSUME NEW j, Start(r, j), DOMAIN j = Fields, j.late = FALSE, About(j),
               \/ j.pc \in {"find", "preload", "write"}
               \/ j.pc = "preload_device" /\ j.kind \in Edits
               \/ j.pc = "set_mode" /\ j.kind = "schedule"
        PROVE  Arrives(r, j)
    BY <1>5 DEF Start, Arrives
  <1>6. CASE TogglePump(r)
    <2>1. PICK z \in Zone, c \in PumpCommand :
            Start(r, [Idle EXCEPT !.kind = "toggle", !.pc = "find", !.of = z, !.arg = c])
      BY <1>6 DEF TogglePump
    <2>. DEFINE j == [Idle EXCEPT !.kind = "toggle", !.pc = "find", !.of = z, !.arg = c]
    <2>2. DOMAIN j = Fields /\ j.late = FALSE /\ j.kind = "toggle" /\ j.of = z /\ j.pc = "find"
      BY DEF Idle, Fields
    <2>. QED  BY <1>5, <2>1, <2>2 DEF About, Edits, Moves, Switches
  <1>7. CASE UpdateZone(r)
    <2>1. PICK z \in Zone, dto \in ZoneUpdate :
            Start(r, [Idle EXCEPT !.kind = "update", !.pc = "preload", !.of = z, !.arg = dto])
      BY <1>7 DEF UpdateZone
    <2>. DEFINE j == [Idle EXCEPT !.kind = "update", !.pc = "preload", !.of = z, !.arg = dto]
    <2>2. DOMAIN j = Fields /\ j.late = FALSE /\ j.kind = "update" /\ j.of = z /\ j.pc = "preload" /\ j.arg = dto
      BY DEF Idle, Fields
    <2>. QED  BY <1>5, <2>1, <2>2 DEF About, Edits, Moves, Switches
  <1>8. CASE RemoveZone(r)
    <2>1. PICK z \in Zone : Start(r, [Idle EXCEPT !.kind = "remove", !.pc = "find", !.of = z])
      BY <1>8 DEF RemoveZone
    <2>. DEFINE j == [Idle EXCEPT !.kind = "remove", !.pc = "find", !.of = z]
    <2>2. DOMAIN j = Fields /\ j.late = FALSE /\ j.kind = "remove" /\ j.of = z /\ j.pc = "find"
      BY DEF Idle, Fields
    <2>. QED  BY <1>5, <2>1, <2>2 DEF About, Edits, Moves, Switches
  <1>9. CASE EditRules(r)
    <2>1. PICK x \in Device \cup Zone, new \in RuleSet, kind \in {"config", "threshold"} :
            Start(r, [Idle EXCEPT !.kind = kind, !.pc = "write", !.of = x, !.arg = new])
      BY <1>9 DEF EditRules
    <2>. DEFINE j == [Idle EXCEPT !.kind = kind, !.pc = "write", !.of = x, !.arg = new]
    <2>2. DOMAIN j = Fields /\ j.late = FALSE /\ j.kind = kind /\ j.of = x /\ j.pc = "write" /\ j.arg = new
      BY DEF Idle, Fields
    <2>. QED  BY <1>5, <2>1, <2>2 DEF About, Edits, Moves, Switches
  <1>10. CASE UpdateDevice(r)
    <2>1. PICK d \in Device, dto \in DeviceUpdate :
            Start(r, [Idle EXCEPT !.kind = DeviceKind(dto), !.pc = "preload_device", !.of = d, !.arg = dto])
      BY <1>10 DEF UpdateDevice
    <2>. DEFINE j == [Idle EXCEPT !.kind = DeviceKind(dto), !.pc = "preload_device", !.of = d, !.arg = dto]
    <2>2. DOMAIN j = Fields /\ j.late = FALSE /\ j.kind = DeviceKind(dto) /\ j.of = d
          /\ j.pc = "preload_device" /\ j.arg = dto
      BY DEF Idle, Fields
    <2>3. j.kind \in Edits
      BY <2>2 DEF DeviceKind, Edits, Moves, Switches
    <2>. QED  BY <1>5, <2>1, <2>2, <2>3 DEF About, Edits, Moves, Switches
  <1>11. CASE ScheduleMode(r)
    <2>1. PICK x \in Device \cup Zone, m \in Mode :
            Start(r, [Idle EXCEPT !.kind = "schedule", !.pc = "set_mode", !.of = x, !.arg = m])
      BY <1>11 DEF ScheduleMode
    <2>. DEFINE j == [Idle EXCEPT !.kind = "schedule", !.pc = "set_mode", !.of = x, !.arg = m]
    <2>2. DOMAIN j = Fields /\ j.late = FALSE /\ j.kind = "schedule" /\ j.of = x /\ j.pc = "set_mode"
          /\ j.arg = m
      BY DEF Idle, Fields
    <2>. QED  BY <1>5, <2>1, <2>2 DEF About, Edits, Moves, Switches
  <1>. QED
    BY <1>1, <1>2, <1>3, <1>4, <1>6, <1>7, <1>8, <1>9, <1>10, <1>11 DEF Arrive

LEMMA ArriveType ==
  ASSUME Typed, NEW r \in Request, Arrive(r)
  PROVE  TJobs'
  <1>1. PICK j : Arrives(r, j)
    BY ArriveForms
  <1>2. CASE Keyed(j) /\ Become(r, LookUp(j))
    BY <1>1, <1>2, LookUpType, BecomeType DEF Arrives
  <1>3. CASE ~(Keyed(j) /\ Become(r, LookUp(j)))
    <2>1. JobType(j) /\ Become(r, j)
      BY <1>1, <1>3 DEF Arrives, JobType, KeyedAt, HoldsAt
    <2>. QED  BY <1>1, <1>3, <2>1, BecomeType DEF Arrives
  <1>. QED  BY <1>1, <1>2, <1>3 DEF Arrives

LEMMA MergeType ==
  ASSUME NEW row \in ZoneRow, NEW held \in ZoneRow, NEW loaded \in ZoneRow
  PROVE  /\ Merge(row, held, loaded) \in ZoneRow
         /\ held.there /\ row.there => Merge(row, held, loaded).there
         /\ held.there /\ ~loaded.there => Merge(row, held, loaded).there
  <1>1. row.there /\ loaded.there => Merge(row, held, loaded) \in {row, Changed(row, held, loaded)}
    BY DEF Merge
  <1>2. Changed(row, held, loaded) \in ZoneRow
        /\ (held.there /\ row.there => Changed(row, held, loaded).there)
    BY DEF Changed, ZoneRow
  <1>. QED  BY <1>1, <1>2 DEF Merge, ZoneRow

\* What is saved of a device.
LEMMA ChangedType ==
  ASSUME NEW row \in DeviceRow, NEW held \in DeviceRow, NEW loaded \in DeviceRow
  PROVE  /\ Changed(row, held, loaded) \in DeviceRow
         /\ \A c \in {"gateway", "zone", "mode", "pump"} :
              Changed(row, held, loaded)[c] = IF held[c] # loaded[c] THEN held[c] ELSE row[c]
  BY DEF Changed, DeviceRow

LEMMA GivenType ==
  ASSUME NEW row \in DeviceRow, NEW dto \in DeviceUpdate
  PROVE  LET held == [row EXCEPT !.zone = Given(@, dto.zone), !.mode = Given(@, dto.mode),
                                 !.pump = Given(@, dto.pump)] IN
         /\ held \in DeviceRow
         /\ held.gateway = row.gateway /\ held.zone = Given(row.zone, dto.zone)
         /\ held.mode = Given(row.mode, dto.mode) /\ held.pump = Given(row.pump, dto.pump)
  <1>1. dto \in [zone : Zone \cup {None, Keep}, mode : Mode \cup {None, Keep}, pump : BOOLEAN \cup {Keep}]
    BY ConstantsAssumption
  <1>2. /\ Given(row.zone, dto.zone) \in Zone \cup {None} /\ Given(row.mode, dto.mode) \in Mode \cup {None}
        /\ Given(row.pump, dto.pump) \in BOOLEAN
    BY <1>1 DEF Given, DeviceRow
  <1>. QED  BY <1>2 DEF DeviceRow

LEMMA SetRow ==
  ASSUME NEW row \in ZoneRow
  PROVE  /\ \A on \in BOOLEAN :
              [row EXCEPT !.pump = on] \in ZoneRow /\ [row EXCEPT !.pump = on].there = row.there
         /\ \A m \in Mode :
              [row EXCEPT !.mode = m] \in ZoneRow /\ [row EXCEPT !.mode = m].there = row.there
         /\ \A dto \in ZoneUpdate :
              LET new == [row EXCEPT !.all = Given(@, dto.all), !.mode = Given(@, dto.mode),
                                     !.pump = Given(@, dto.pump)] IN
              new \in ZoneRow /\ new.there = row.there
  <1>1. ASSUME NEW dto \in ZoneUpdate
        PROVE  /\ Given(row.all, dto.all) \in BOOLEAN /\ Given(row.mode, dto.mode) \in Mode
               /\ Given(row.pump, dto.pump) \in BOOLEAN
    <2>1. dto \in [all : BOOLEAN \cup {Keep}, mode : Mode \cup {Keep}, pump : BOOLEAN \cup {Keep}]
      BY ConstantsAssumption
    <2>. QED  BY <2>1 DEF Given, ZoneRow
  <1>. QED  BY <1>1 DEF ZoneRow

\* Further steps of requests.
LEMMA HandleType ==
  ASSUME Typed, NEW r \in Request, Handle(r)
  PROVE  TJobs'
  <1>. DEFINE j == job[r]
  <1>0. JobType(j) /\ DOMAIN j = Fields /\ scope' = scope
    <2>1. scope' = scope
      BY DEF Handle, Load, LoadRules, Fill, Publish, UpdatePump, UpdateMode, Answer, Evaluate,
             ToggleFind, ToggleSend, ToggleLoad, ToggleSave, PreloadDevice, LoadDevice, SaveDevice,
             SetMode, Preload, LoadZone, SaveZone, RemoveFind, Remove, WriteRules, Invalidate, bounds
    <2>. QED  BY <2>1 DEF Typed, TJobs, JobType
  <1>1. CASE Load(r)
    <2>1. PICK step, data : /\ (step = "fill" \/ (step = "load_rules" /\ j.key[1] = "context"))
                            /\ Become(r, [j EXCEPT !.pc = step, !.data = data])
      BY <1>1 DEF Load
    <2>. DEFINE k == [j EXCEPT !.pc = step, !.data = data]
    <2>2. /\ DOMAIN k = Fields /\ k.pc = step /\ k.kind = j.kind /\ k.of = j.of /\ k.arg = j.arg
          /\ k.key = j.key /\ k.late = j.late
      BY <1>0 DEF Fields
    <2>3. j.pc = "load"
      BY <1>1 DEF Load
    <2>. HIDE DEF k
    <2>4. JobType(k)
      BY <1>0, <2>1, <2>2, <2>3 DEF JobType, KeyedAt, Keyed, About, HoldsAt
    <2>. QED  BY <1>0, <2>1, <2>4, BecomeType DEF k
  <1>2. CASE LoadRules(r)
    <2>1. PICK data : Become(r, [j EXCEPT !.pc = "fill", !.data = data])
      BY <1>0, <1>2 DEF LoadRules, Fields
    <2>. DEFINE k == [j EXCEPT !.pc = "fill", !.data = data]
    <2>2. /\ DOMAIN k = Fields /\ k.pc = "fill" /\ k.kind = j.kind /\ k.of = j.of /\ k.arg = j.arg
          /\ k.key = j.key /\ k.late = j.late
      BY <1>0 DEF Fields
    <2>3. j.pc = "load_rules"
      BY <1>2 DEF LoadRules
    <2>. HIDE DEF k
    <2>4. JobType(k)
      BY <1>0, <2>2, <2>3 DEF JobType, KeyedAt, Keyed, About, HoldsAt
    <2>. QED  BY <1>0, <2>1, <2>4, BecomeType DEF k
  <1>3. CASE Fill(r)
    <2>1. j.pc = "fill" /\ Become(r, Got(j, j.data))
      BY <1>3 DEF Fill
    <2>. QED  BY <1>0, <2>1, GotType, BecomeType DEF JobType, KeyedAt
  <1>4. CASE Finish(r)
    BY <1>0, <1>4, FinishType
  <1>5. CASE UpdateMode(r) \/ SetMode(r) \/ SaveZone(r) \/ RemoveFind(r) \/ WriteRules(r)
    BY <1>0, <1>4, <1>5, GotoType DEF UpdateMode, SetMode, SaveZone, RemoveFind, WriteRules, JobType, HoldsAt
  <1>6. CASE ToggleFind(r)
    <2>. DEFINE k == [j EXCEPT !.pc = "wait", !.held = zones[j.of], !.members = Members(j.of),
                        !.left = Members(j.of)]
    <2>1. /\ DOMAIN k = Fields /\ k.pc = "wait" /\ k.kind = "toggle" /\ k.of = j.of /\ k.arg = j.arg
          /\ k.late = j.late /\ k.held = zones[j.of] /\ k.left \subseteq Device
      BY <1>0, <1>6 DEF Fields, ToggleFind, Members
    <2>2. zones[j.of] \in ZoneRow
      BY <1>0, <1>6 DEF JobType, About, ToggleFind, Typed, TTables
    <2>3. Finish(r) \/ (zones[j.of].there /\ Become(r, k))
      BY <1>6 DEF ToggleFind
    <2>. HIDE DEF k
    <2>4. zones[j.of].there => JobType(k)
      BY <1>0, <1>6, <2>1, <2>2 DEF JobType, KeyedAt, About, HoldsAt, ToggleFind
    <2>. QED  BY <1>0, <1>4, <2>3, <2>4, BecomeType
  <1>7. ASSUME NEW q \in Request, ToggleSend(r, q) PROVE TJobs'
    <2>1. PICK d \in j.left :
            job' = [job EXCEPT ![r].left = @ \ {d},
                      ![q] = LookUp([Idle EXCEPT !.kind = "command", !.of = d, !.arg = j.arg,
                                                 !.key = <<"route", d>>, !.parent = r])]
      BY <1>7 DEF ToggleSend
    <2>. DEFINE i == [Idle EXCEPT !.kind = "command", !.of = d, !.arg = j.arg,
                                  !.key = <<"route", d>>, !.parent = r]
                k == [j EXCEPT !.left = @ \ {d}]
    <2>2. j.pc = "wait" /\ job[q].pc = "idle" /\ d \in Device /\ j.left \subseteq Device
      BY <1>0, <1>7 DEF ToggleSend, JobType, HoldsAt
    <2>3. DOMAIN i = Fields /\ i.kind = "command" /\ i.of = d /\ i.key = <<"route", d>> /\ i.late = FALSE
      BY DEF Idle, Fields
    <2>4. job' = [job EXCEPT ![r] = k, ![q] = LookUp(i)]
      BY <2>1
    <2>5. /\ DOMAIN k = Fields /\ k.pc = j.pc /\ k.kind = j.kind /\ k.of = j.of /\ k.arg = j.arg
          /\ k.key = j.key /\ k.late = j.late /\ k.held = j.held /\ k.loaded = j.loaded
          /\ k.left = j.left \ {d}
      BY <1>0 DEF Fields
    <2>. HIDE DEF i, k
    <2>6. JobType(k)
      BY <1>0, <2>2, <2>5 DEF JobType, KeyedAt, Keyed, About, HoldsAt
    <2>7. JobType(LookUp(i))
      BY <2>2, <2>3, LookUpType DEF Keyed, About, Edits, Moves, Switches
    <2>. QED  BY <1>0, <2>2, <2>4, <2>6, <2>7 DEF Typed, TJobs, JobType
  <1>8. CASE ToggleLoad(r)
    <2>. DEFINE k == [j EXCEPT !.pc = "save", !.loaded = zones[j.of], !.left = Members(j.of),
                         !.held.pump = j.arg = "PUMP_ON"]
    <2>1. /\ DOMAIN k = Fields /\ k.pc = "save" /\ k.kind = j.kind /\ k.of = j.of /\ k.arg = j.arg
          /\ k.late = j.late /\ k.held = [j.held EXCEPT !.pump = j.arg = "PUMP_ON"]
          /\ k.loaded = zones[j.of]
      BY <1>0, <1>8 DEF Fields
    <2>2. j.pc = "wait" /\ j.held \in ZoneRow /\ j.held.there /\ j.of \in Zone
          /\ j.kind \in {"update", "toggle"}
      BY <1>0, <1>8 DEF ToggleLoad, JobType, HoldsAt, About
    <2>. HIDE DEF k
    <2>3. k.held \in ZoneRow /\ k.held.there
      <3>1. (j.arg = "PUMP_ON") \in BOOLEAN
        OBVIOUS
      <3>. QED  BY <2>1, <2>2, <3>1, SetRow
    <2>4. k.loaded \in ZoneRow
      BY <2>1, <2>2 DEF Typed, TTables
    <2>5. Become(r, k)
      BY <1>8 DEF ToggleLoad, k
    <2>6. JobType(k)
      BY <1>0, <2>1, <2>2, <2>3, <2>4 DEF JobType, KeyedAt, About, HoldsAt
    <2>. QED  BY <1>0, <2>5, <2>6, BecomeType
  <1>9. CASE Preload(r)
    <2>. DEFINE new == [zones[j.of] EXCEPT !.all = Given(@, j.arg.all), !.mode = Given(@, j.arg.mode),
                                           !.pump = Given(@, j.arg.pump)]
                k == [j EXCEPT !.pc = "load_zone", !.held = new]
    <2>1. /\ DOMAIN k = Fields /\ k.pc = "load_zone" /\ k.kind = "update" /\ k.of = j.of
          /\ k.arg = j.arg /\ k.late = j.late
          /\ k.held = new
      BY <1>0, <1>9 DEF Fields, Preload
    <2>2. j.of \in Zone /\ j.arg \in ZoneUpdate /\ zones[j.of] \in ZoneRow
      BY <1>0, <1>9 DEF Preload, JobType, About, Typed, TTables
    <2>3. k.held \in ZoneRow /\ (zones[j.of].there => k.held.there)
      BY <2>1, <2>2, SetRow
    <2>4. Finish(r) \/ (zones[j.of].there /\ Become(r, k))
      BY <1>9 DEF Preload
    <2>. HIDE DEF k
    <2>5. zones[j.of].there => JobType(k)
      BY <1>0, <1>9, <2>1, <2>2, <2>3 DEF JobType, KeyedAt, About, HoldsAt, Preload
    <2>. QED  BY <1>0, <1>4, <2>4, <2>5, BecomeType
  <1>10. CASE LoadZone(r)
    <2>. DEFINE k == [j EXCEPT !.pc = "save", !.loaded = zones[j.of]]
    <2>1. /\ DOMAIN k = Fields /\ k.pc = "save" /\ k.kind = j.kind /\ k.of = j.of
          /\ k.arg = j.arg /\ k.late = j.late /\ k.held = j.held /\ k.loaded = zones[j.of]
      BY <1>0, <1>10 DEF Fields
    <2>2. j.pc = "load_zone" /\ Become(r, k)
      BY <1>10 DEF LoadZone
    <2>3. j.of \in Zone /\ zones[j.of] \in ZoneRow
      BY <1>0, <2>2 DEF JobType, HoldsAt, About, Typed, TTables
    <2>. HIDE DEF k
    <2>4. JobType(k)
      BY <1>0, <2>1, <2>2, <2>3 DEF JobType, KeyedAt, About, HoldsAt
    <2>. QED  BY <1>0, <2>2, <2>4, BecomeType
  <1>11. CASE Publish(r) \/ UpdatePump(r) \/ Answer(r) \/ Evaluate(r) \/ ToggleSave(r) \/ SaveDevice(r)
              \/ Remove(r) \/ Invalidate(r)
    BY <1>4, <1>11 DEF Publish, UpdatePump, Answer, Evaluate, ToggleSave, SaveDevice, Remove, Invalidate
  <1>12. CASE PreloadDevice(r)
    <2>. DEFINE new == [devices[j.of] EXCEPT !.zone = Given(@, j.arg.zone), !.mode = Given(@, j.arg.mode),
                                             !.pump = Given(@, j.arg.pump)]
                k == [j EXCEPT !.pc = "load_device", !.held = new]
    <2>1. /\ DOMAIN k = Fields /\ k.pc = "load_device" /\ k.kind = j.kind /\ k.of = j.of
          /\ k.arg = j.arg /\ k.late = j.late /\ k.held = new
      BY <1>0 DEF Fields
    <2>2. j.pc = "preload_device" /\ Become(r, k)
      BY <1>12 DEF PreloadDevice
    <2>3. j.kind \in Edits /\ j.arg \in DeviceUpdate /\ devices[j.of] \in DeviceRow
      BY <1>0, <2>2 DEF JobType, HoldsAt, About, Typed, TTables
    <2>4. k.held \in DeviceRow
      BY <2>1, <2>3, GivenType
    <2>. HIDE DEF k
    <2>5. KeyedAt(k) /\ HoldsAt(k)
      BY <2>1, <2>3, <2>4 DEF KeyedAt, HoldsAt
    <2>6. About(k)
      BY <1>0, <2>1 DEF JobType, About
    <2>7. JobType(k)
      BY <1>0, <2>1, <2>2, <2>5, <2>6 DEF JobType
    <2>. QED  BY <1>0, <2>2, <2>7, BecomeType
  <1>13. CASE LoadDevice(r)
    <2>. DEFINE k == [j EXCEPT !.pc = "save_device", !.loaded = devices[j.of]]
    <2>1. /\ DOMAIN k = Fields /\ k.pc = "save_device" /\ k.kind = j.kind /\ k.of = j.of
          /\ k.arg = j.arg /\ k.late = j.late /\ k.held = j.held /\ k.loaded = devices[j.of]
      BY <1>0 DEF Fields
    <2>2. j.pc = "load_device" /\ Become(r, k)
      BY <1>13 DEF LoadDevice
    <2>3. j.kind \in Edits /\ j.held \in DeviceRow /\ devices[j.of] \in DeviceRow
      BY <1>0, <2>2 DEF JobType, HoldsAt, About, Typed, TTables
    <2>. HIDE DEF k
    <2>4. KeyedAt(k) /\ HoldsAt(k)
      BY <2>1, <2>3 DEF KeyedAt, HoldsAt
    <2>5. About(k)
      BY <1>0, <2>1 DEF JobType, About
    <2>6. JobType(k)
      BY <1>0, <2>1, <2>2, <2>4, <2>5 DEF JobType
    <2>. QED  BY <1>0, <2>2, <2>6, BecomeType
  <1>. QED
    BY <1>1, <1>2, <1>3, <1>5, <1>6, <1>7, <1>8, <1>9, <1>10, <1>11, <1>12, <1>13 DEF Handle

LEMMA TypedJobs == Typed /\ [Next]_vars => TJobs'
  <1>. SUFFICES ASSUME Typed, [Next]_vars PROVE TJobs'
    OBVIOUS
  <1>1. ASSUME NEW r \in Request, Reject(r) PROVE TJobs'
    BY <1>1, FinishType DEF Reject
  <1>2. CASE AssignGateway \/ UNCHANGED vars
    BY <1>2 DEF AssignGateway, vars, bounds, Typed, TJobs, JobType
  <1>3. CASE Restart
    BY <1>3, IdleType DEF Restart, Typed, TJobs, JobType
  <1>4. CASE Tick
    <2>1. scope' = scope /\ DOMAIN job = Request
          /\ job' = [r \in Request |-> IF r \in Active THEN [job[r] EXCEPT !.late = TRUE] ELSE job[r]]
      BY <1>4 DEF Tick, bounds, Typed, TJobs
    <2>2. ASSUME NEW r \in Request PROVE JobType([job[r] EXCEPT !.late = TRUE])
      <3>. DEFINE k == [job[r] EXCEPT !.late = TRUE]
      <3>1. JobType(job[r])
        BY DEF Typed, TJobs
      <3>2. /\ DOMAIN k = Fields /\ k.late = TRUE
            /\ \A f \in Fields \ {"late"} : k[f] = job[r][f]
        BY <3>1 DEF JobType
      <3>. HIDE DEF k
      <3>3. JobType(k)
        BY <3>1, <3>2 DEF JobType, KeyedAt, Keyed, About, HoldsAt, Fields
      <3>. QED  BY <3>3 DEF k
    <2>. QED  BY <2>1, <2>2 DEF Typed, TJobs, JobType
  <1>. QED  BY <1>1, <1>2, <1>3, <1>4, ArriveType, HandleType DEF Next

\* Which steps write the tables, and what stays of them.
LEMMA TypedTables == Typed /\ [Next]_vars => TTables'
  <1>. SUFFICES ASSUME Typed, [Next]_vars PROVE TTables'
    OBVIOUS
  <1>. USE DEF Typed, TTables
  <1>1. CASE UNCHANGED tables
    BY <1>1 DEF tables
  <1>2. ASSUME NEW d \in Device, NEW row \in DeviceRow, devices' = [devices EXCEPT ![d] = row],
               UNCHANGED <<zones, rules>>, row.zone # None => zones[row.zone].there
        PROVE  TTables'
    BY <1>2
  <1>3. ASSUME NEW r \in Request PROVE JobType(job[r])
    BY DEF TJobs
  <1>4. ASSUME NEW r \in Request, UpdatePump(r) PROVE TTables'
    <2>. DEFINE d == job[r].of
                row == [devices[d] EXCEPT !.pump = job[r].arg = "PUMP_ON"]
    <2>1. d \in Device
      BY <1>3, <1>4 DEF UpdatePump, JobType, KeyedAt, Keyed
    <2>2. row \in DeviceRow /\ row.zone = devices[d].zone
      <3>1. (job[r].arg = "PUMP_ON") \in BOOLEAN
        OBVIOUS
      <3>. QED  BY <2>1, <3>1 DEF DeviceRow
    <2>3. devices' = [devices EXCEPT ![d] = row] /\ UNCHANGED <<zones, rules>>
      BY <1>4 DEF UpdatePump, Write
    <2>. HIDE DEF row, d
    <2>4. row.zone # None => zones[row.zone].there
      BY <2>1, <2>2
    <2>. QED  BY <1>2, <2>1, <2>2, <2>3, <2>4
  <1>5. ASSUME NEW r \in Request, UpdateMode(r) PROVE TTables'
    <2>. DEFINE d == job[r].of
                row == [devices[d] EXCEPT !.mode = job[r].arg]
    <2>1. d \in Device /\ job[r].arg \in Mode
      BY <1>3, <1>5 DEF UpdateMode, JobType, About
    <2>2. row \in DeviceRow /\ row.zone = devices[d].zone
      BY <2>1 DEF DeviceRow
    <2>3. devices' = [devices EXCEPT ![d] = row] /\ UNCHANGED <<zones, rules>>
      BY <1>5 DEF UpdateMode, Write
    <2>. HIDE DEF row, d
    <2>4. row.zone # None => zones[row.zone].there
      BY <2>1, <2>2
    <2>. QED  BY <1>2, <2>1, <2>2, <2>3, <2>4
  <1>6. ASSUME NEW r \in Request, SaveDevice(r) PROVE TTables'
    <2>. DEFINE d == job[r].of
                row == Changed(devices[d], job[r].held, job[r].loaded)
    <2>1. job[r].pc = "save_device"
          /\ \/ UNCHANGED tables
             \/ /\ devices' = [devices EXCEPT ![d] = row] /\ UNCHANGED <<zones, rules>>
                /\ row.zone # None => zones[row.zone].there
      BY <1>6 DEF SaveDevice, Unannounced, Write
    <2>2. d \in Device /\ job[r].held \in DeviceRow /\ job[r].loaded \in DeviceRow
      BY <1>3, <2>1 DEF JobType, HoldsAt, About
    <2>3. row \in DeviceRow
      BY <2>2, ChangedType
    <2>. HIDE DEF row, d
    <2>. QED  BY <1>1, <1>2, <2>1, <2>2, <2>3
  <1>7. CASE AssignGateway
    <2>1. PICK d \in Device, g \in Gateway \cup {None} :
            devices' = [devices EXCEPT ![d].gateway = g] /\ UNCHANGED <<zones, rules>>
      BY <1>7 DEF AssignGateway, Unannounced, Write
    <2>. DEFINE row == [devices[d] EXCEPT !.gateway = g]
    <2>2. row \in DeviceRow /\ row.zone = devices[d].zone
      BY DEF DeviceRow
    <2>3. devices' = [devices EXCEPT ![d] = row]
      BY <2>1
    <2>. HIDE DEF row
    <2>. QED  BY <1>2, <2>1, <2>2, <2>3
  <1>8. ASSUME NEW z \in Zone, NEW row \in ZoneRow, zones[z].there => row.there,
               zones' = [zones EXCEPT ![z] = row]
        PROVE  /\ zones' \in [Zone -> ZoneRow]
               /\ \A y \in Zone : zones[y].there => zones'[y].there
               /\ zones'[z] = row
    BY <1>8
  <1>9. ASSUME NEW r \in Request, job[r].pc = "save"
        PROVE  LET row == Merge(zones[job[r].of], job[r].held, job[r].loaded) IN
               /\ job[r].of \in Zone /\ row \in ZoneRow
               /\ zones[job[r].of].there => row.there
    <2>1. job[r].of \in Zone /\ job[r].held \in ZoneRow /\ job[r].loaded \in ZoneRow /\ job[r].held.there
      BY <1>3, <1>9 DEF JobType, HoldsAt, About
    <2>. QED  BY <2>1, MergeType
  <1>10. ASSUME NEW r \in Request, SaveZone(r) PROVE TTables'
    <2>1. job[r].pc = "save" /\ UNCHANGED <<devices, rules>>
          /\ zones' = [zones EXCEPT ![job[r].of] = Merge(zones[job[r].of], job[r].held, job[r].loaded)]
      BY <1>10 DEF SaveZone, Write
    <2>2. zones' \in [Zone -> ZoneRow] /\ \A y \in Zone : zones[y].there => zones'[y].there
      BY <1>8, <1>9, <2>1
    <2>. QED  BY <2>1, <2>2 DEF DeviceRow
  <1>11. ASSUME NEW r \in Request, ToggleSave(r) PROVE TTables'
    <2>. DEFINE j == job[r]
                row == Merge(zones[j.of], j.held, j.loaded)
    <2>1. j.pc = "save" /\ UNCHANGED rules /\ zones' = [zones EXCEPT ![j.of] = row]
      BY <1>11 DEF ToggleSave, Unannounced, Write
    <2>2. PICK new \in [Device -> Zone \cup {None}] :
            /\ devices' = [d \in Device |-> [devices[d] EXCEPT !.zone = new[d]]]
            /\ \A d \in Device : new[d] # None => new[d] = devices[d].zone \/ (new[d] = j.of /\ row.there)
      <3>. DEFINE Zoned(d) == IF ~row.there THEN devices[d].zone
                              ELSE IF d \in j.members \ j.left THEN j.of
                              ELSE IF d \in j.left \ j.members THEN None
                              ELSE devices[d].zone
                  new == [d \in Device |-> Zoned(d)]
      <3>1. devices' = [d \in Device |-> [devices[d] EXCEPT !.zone = Zoned(d)]]
        BY <1>11 DEF ToggleSave, Unannounced, Write
      <3>2. new \in [Device -> Zone \cup {None}]
        BY <1>9, <2>1 DEF DeviceRow
      <3>. QED  BY <3>1, <3>2
    <2>3. zones' \in [Zone -> ZoneRow] /\ (\A y \in Zone : zones[y].there => zones'[y].there)
          /\ zones'[j.of] = row /\ j.of \in Zone
      BY <1>8, <1>9, <2>1
    <2>. HIDE DEF row, j
    <2>4. ASSUME NEW d \in Device
          PROVE  /\ devices'[d] \in DeviceRow
                 /\ devices'[d].zone # None => zones'[devices'[d].zone].there
      <3>1. devices[d] \in DeviceRow /\ new[d] \in Zone \cup {None}
            /\ devices'[d] = [devices[d] EXCEPT !.zone = new[d]]
        BY <2>2
      <3>2. devices'[d] \in DeviceRow /\ devices'[d].zone = new[d]
        BY <3>1 DEF DeviceRow
      <3>. QED  BY <2>2, <2>3, <3>2
    <2>. QED  BY <2>1, <2>2, <2>3, <2>4
  <1>12. ASSUME NEW r \in Request, Remove(r) PROVE TTables'
    <2>. DEFINE z == job[r].of
    <2>1. /\ devices' = [d \in Device |-> IF devices[d].zone = z THEN [devices[d] EXCEPT !.zone = None]
                                          ELSE devices[d]]
          /\ zones' = [zones EXCEPT ![z] = NoZone] /\ rules' = [rules EXCEPT ![z] = NoRules]
          /\ job[r].pc = "remove"
      BY <1>12 DEF Remove, Unannounced, Write
    <2>2. NoZone \in ZoneRow /\ NoRules \in Rules /\ z \in Zone
      <3>1. NoZone \in ZoneRow /\ NoRules \in Rules
        BY ConstantsAssumption DEF NoZone, ZoneRow, NoRules, Rules
      <3>. QED  BY <1>3, <2>1, <3>1 DEF JobType, HoldsAt, About
    <2>. HIDE DEF z
    <2>3. ASSUME NEW d \in Device
          PROVE  devices'[d] \in DeviceRow /\ devices'[d].zone # z
                 /\ (devices'[d].zone # None => devices'[d].zone = devices[d].zone)
      <3>1. devices[d] \in DeviceRow /\ z # None
        BY <2>2, ConstantsAssumption
      <3>2. [devices[d] EXCEPT !.zone = None] \in DeviceRow /\ [devices[d] EXCEPT !.zone = None].zone = None
        BY <3>1 DEF DeviceRow
      <3>. QED  BY <2>1, <3>1, <3>2
    <2>4. \A d \in Device : devices'[d].zone # None => zones'[devices'[d].zone].there
      <3>. SUFFICES ASSUME NEW d \in Device, devices'[d].zone # None
                    PROVE  zones'[devices'[d].zone].there
        OBVIOUS
      <3>1. devices'[d].zone \in Zone \ {z} /\ zones[devices'[d].zone].there
        BY <2>3 DEF DeviceRow
      <3>. QED  BY <2>1, <2>2, <3>1
    <2>. QED  BY <2>1, <2>2, <2>3, <2>4
  <1>13. ASSUME NEW r \in Request, WriteRules(r) PROVE TTables'
    <2>1. job[r].of \in Device \cup Zone /\ job[r].arg \in Rules
      BY <1>3, <1>13, ConstantsAssumption DEF WriteRules, JobType, About, Rules
    <2>2. UNCHANGED tables \/ (UNCHANGED <<devices, zones>> /\ rules' = [rules EXCEPT ![job[r].of] = job[r].arg])
      BY <1>13 DEF WriteRules, Write
    <2>. QED  BY <1>1, <2>1, <2>2
  <1>14. ASSUME NEW r \in Request, Arrive(r) PROVE TTables'
    BY <1>1, <1>14, ArriveForms DEF Arrives
  <1>15. ASSUME NEW r \in Request, SetMode(r) PROVE TTables'
    <2>. DEFINE x == job[r].of
                m == job[r].arg
    <2>1. job[r].pc = "set_mode" /\ x \in Device \cup Zone /\ m \in Mode
      BY <1>3, <1>15 DEF SetMode, JobType, HoldsAt, About
    <2>2. CASE x \in Device
      <3>. DEFINE row == [devices[x] EXCEPT !.mode = m]
      <3>1. row \in DeviceRow /\ row.zone = devices[x].zone
        BY <2>1, <2>2 DEF DeviceRow
      <3>2. devices' = [devices EXCEPT ![x] = row] /\ UNCHANGED <<zones, rules>>
        BY <1>15, <2>2 DEF SetMode, Write
      <3>. HIDE DEF row, x, m
      <3>3. row.zone # None => zones[row.zone].there
        BY <2>2, <3>1
      <3>. QED  BY <1>2, <2>2, <3>1, <3>2, <3>3
    <2>3. CASE x \notin Device
      <3>. DEFINE row == [zones[x] EXCEPT !.mode = m]
      <3>1. UNCHANGED tables \/ (zones' = [zones EXCEPT ![x] = row] /\ UNCHANGED <<devices, rules>>)
        BY <1>15, <2>3 DEF SetMode, Write
      <3>2. x \in Zone /\ row \in ZoneRow /\ row.there = zones[x].there
        BY <2>1, <2>3, SetRow
      <3>. HIDE DEF row, x, m
      <3>3. CASE zones' = [zones EXCEPT ![x] = row] /\ UNCHANGED <<devices, rules>>
        <4>1. zones' \in [Zone -> ZoneRow] /\ \A y \in Zone : zones[y].there => zones'[y].there
          BY <1>8, <3>2, <3>3
        <4>. QED  BY <3>3, <4>1 DEF DeviceRow
      <3>. QED  BY <1>1, <3>1, <3>3
    <2>. QED  BY <2>2, <2>3
  <1>16. ASSUME NEW r \in Request, Handle(r) PROVE TTables'
    BY <1>1, <1>4, <1>5, <1>6, <1>10, <1>11, <1>12, <1>13, <1>15, <1>16
       DEF Handle, Load, LoadRules, Fill, Publish, Answer, Evaluate, ToggleFind, ToggleSend,
           ToggleLoad, PreloadDevice, LoadDevice, Preload, LoadZone, RemoveFind, Invalidate
  <1>. QED
    BY <1>1, <1>7, <1>14, <1>16 DEF Next, Reject, Restart, Tick, vars

LEMMA TypedCache == Typed /\ [Next]_vars => TCache' /\ TClock'
  <1>. SUFFICES ASSUME Typed, [Next]_vars PROVE TCache' /\ TClock'
    OBVIOUS
  <1>. USE DEF Typed, TCache, TClock
  <1>1. CASE UNCHANGED <<now, cache>>
    BY <1>1
  <1>2. ASSUME UNCHANGED now, NEW ds, NEW zs, NEW rs, Unannounced(ds, zs, rs) PROVE TCache' /\ TClock'
    <2>1. \A k \in CacheKey : LET e == [cache[k] EXCEPT !.excused = TRUE] IN
            e.loadedAt = cache[k].loadedAt /\ DOMAIN e = DOMAIN cache[k]
      OBVIOUS
    <2>2. DOMAIN cache' = CacheKey
          /\ \A k \in CacheKey : cache'[k] = cache[k] \/ cache'[k] = [cache[k] EXCEPT !.excused = TRUE]
      BY <1>2 DEF Unannounced
    <2>. QED  BY <1>2, <2>1, <2>2
  <1>3. ASSUME UNCHANGED now, NEW keys, Drop(keys) PROVE TCache' /\ TClock'
    BY <1>3 DEF Drop, NoEntry
  <1>4. ASSUME NEW r \in Request, Fill(r) PROVE TCache' /\ TClock'
    BY <1>4 DEF Fill
  <1>5. CASE Tick
    BY <1>5, ConstantsAssumption DEF Tick, NoEntry
  <1>6. ASSUME NEW r \in Request, Arrive(r) PROVE TCache' /\ TClock'
    BY <1>1, <1>6, ArriveForms DEF Arrives
  <1>7. ASSUME NEW r \in Request, Handle(r) PROVE TCache' /\ TClock'
    BY <1>1, <1>2, <1>3, <1>4, <1>7
       DEF Handle, Load, LoadRules, Publish, UpdatePump, UpdateMode, Answer, Evaluate,
           ToggleFind, ToggleSend, ToggleLoad, ToggleSave, PreloadDevice, LoadDevice, SaveDevice,
           SetMode, Preload, LoadZone, SaveZone, RemoveFind, Remove, WriteRules, Invalidate
  <1>8. CASE AssignGateway \/ Restart
    BY <1>2, <1>3, <1>8 DEF AssignGateway, Restart
  <1>. QED
    BY <1>1, <1>5, <1>6, <1>7, <1>8 DEF Next, Reject, vars

LEMMA TypedStep == Typed /\ [Next]_vars => Typed'
  BY TypedJobs, TypedTables, TypedCache DEF Typed

\* Every variable keeps its type, and no device is ever in a zone that is gone:
\* not when a zone is removed between the steps of a toggle that saves it and
\* its devices, nor when a device is moved meanwhile.
THEOREM TypeInvariant == Spec => []TypeOK
  <1>1. Spec => []Typed
    BY TypedInit, TypedStep, PTL DEF Spec
  <1>. QED  BY <1>1, TypedImplies, PTL

-----------------------------------------------------------------------------
(* A change that is announced is seen.  The property is inductive: a write   *)
(* leaves its request about to invalidate every entry that it makes wrong.   *)

SeenAt(k) ==
  /\ k[1] \in {"configs", "context"} /\ Filled(k) /\ ~cache[k].excused
  /\ \A r \in Request : job[r].pc = "invalidate" => k \notin KeysOf(job[r])
  => cache[k].data = Loaded(k, devices, zones, rules)

\* No request leaves its invalidation out.
Stays ==
  \A q \in Request : job[q].pc = "invalidate" =>
    job'[q].pc = "invalidate" /\ job'[q].kind = job[q].kind /\ job'[q].of = job[q].of

\* Whether a request invalidates a key depends on the entry of that key alone.
LEMMA KeysLocal ==
  ASSUME NEW k \in CacheKey, NEW q \in Request, cache'[k] = cache[k],
         job'[q].kind = job[q].kind, job'[q].of = job[q].of
  PROVE  k \in KeysOf(job[q]) <=> (k \in KeysOf(job[q]))'
  <1>1. \A z : k \in ContextsOf(z) <=> (k \in ContextsOf(z))'
    BY DEF ContextsOf, Filled
  <1>. QED  BY <1>1 DEF KeysOf

LEMMA SeenKept ==
  ASSUME NEW k \in CacheKey, SeenAt(k), Stays, cache'[k] = cache[k],
         Loaded(k, devices, zones, rules)' = Loaded(k, devices, zones, rules)
  PROVE  SeenAt(k)'
  <1>. SUFFICES ASSUME k[1] \in {"configs", "context"}, Filled(k)', ~cache'[k].excused,
                       \A r \in Request : job'[r].pc = "invalidate" => k \notin KeysOf(job[r])'
                PROVE  cache'[k].data = Loaded(k, devices', zones', rules')
    BY DEF SeenAt
  <1>1. Filled(k) /\ ~cache[k].excused
    BY DEF Filled
  <1>2. ASSUME NEW r \in Request, job[r].pc = "invalidate" PROVE k \notin KeysOf(job[r])
    BY <1>2, KeysLocal DEF Stays
  <1>3. cache[k].data = Loaded(k, devices, zones, rules)
    BY <1>1, <1>2 DEF SeenAt
  <1>. QED  BY <1>3

\* A write leaves alone what it does not concern, and its request drops the rest.
LEMMA SeenWrite ==
  ASSUME NEW k \in CacheKey, SeenAt(k), Stays, cache' = cache,
         \/ Loaded(k, devices, zones, rules)' = Loaded(k, devices, zones, rules)
         \/ /\ cache[k].data = Loaded(k, devices, zones, rules) /\ Filled(k)
            => \E r \in Request : job'[r].pc = "invalidate" /\ (k \in KeysOf(job[r]))'
  PROVE  SeenAt(k)'
  <1>1. CASE Loaded(k, devices, zones, rules)' = Loaded(k, devices, zones, rules)
    BY <1>1, SeenKept
  <1>2. CASE /\ cache[k].data = Loaded(k, devices, zones, rules) /\ Filled(k)
             => \E r \in Request : job'[r].pc = "invalidate" /\ (k \in KeysOf(job[r]))'
    <2>. SUFFICES ASSUME k[1] \in {"configs", "context"}, Filled(k)', ~cache'[k].excused,
                         \A r \in Request : job'[r].pc = "invalidate" => k \notin KeysOf(job[r])'
                  PROVE  FALSE
      BY DEF SeenAt
    <2>1. Filled(k) /\ ~cache[k].excused
      BY DEF Filled
    <2>2. ASSUME NEW r \in Request, job[r].pc = "invalidate" PROVE k \notin KeysOf(job[r])
      BY <2>2, KeysLocal DEF Stays
    <2>3. cache[k].data = Loaded(k, devices, zones, rules)
      BY <2>1, <2>2 DEF SeenAt
    <2>. QED  BY <1>2, <2>1, <2>3
  <1>. QED  BY <1>1, <1>2

\* A request that was not about to invalidate takes a step.
LEMMA StaysBecome ==
  ASSUME DOMAIN job = Request, NEW r \in Request, job[r].pc # "invalidate", NEW j, Become(r, j)
  PROVE  Stays
  BY DEF Become, Stays

LEMMA SeenUnannounced ==
  ASSUME NEW k \in CacheKey, SeenAt(k), Stays, Typed, NEW ds, NEW zs, NEW rs, Unannounced(ds, zs, rs)
  PROVE  SeenAt(k)'
  <1>1. CASE cache'[k] = cache[k]
             /\ Loaded(k, devices, zones, rules)' = Loaded(k, devices, zones, rules)
    BY <1>1, SeenKept
  <1>2. CASE cache'[k] = [cache[k] EXCEPT !.excused = TRUE]
    <2>1. cache'[k].excused
      BY <1>2 DEF Typed, TCache
    <2>. QED  BY <2>1 DEF SeenAt
  <1>3. CASE ~Filled(k) /\ cache'[k] = cache[k]
    BY <1>3 DEF SeenAt, Filled
  <1>. QED  BY <1>1, <1>2, <1>3 DEF Unannounced, Write

LEMMA SeenStep ==
  ASSUME Typed, [Next]_vars, NEW k \in CacheKey, SeenAt(k)
  PROVE  SeenAt(k)'
  <1>0. DOMAIN job = Request /\ \A r \in Request : JobType(job[r])
    BY DEF Typed, TJobs
  <1>1. ASSUME Stays, UNCHANGED <<tables, cache>> PROVE SeenAt(k)'
    BY <1>1, SeenKept DEF tables
  <1>2. ASSUME NEW r \in Request, NEW j, Become(r, j), job[r].pc # "invalidate", UNCHANGED <<tables, cache>>
        PROVE  SeenAt(k)'
    BY <1>0, <1>1, <1>2, StaysBecome
  <1>3. ASSUME NEW r \in Request, Arrive(r) PROVE SeenAt(k)'
    BY <1>2, <1>3, ArriveForms DEF Arrives
  <1>4. ASSUME NEW r \in Request,
               Load(r) \/ LoadRules(r) \/ Publish(r) \/ Answer(r) \/ Evaluate(r) \/ ToggleFind(r)
               \/ ToggleLoad(r) \/ PreloadDevice(r) \/ LoadDevice(r) \/ Preload(r) \/ LoadZone(r)
               \/ RemoveFind(r) \/ Reject(r)
        PROVE  SeenAt(k)'
    BY <1>2, <1>4 DEF Load, LoadRules, Publish, Answer, Evaluate, ToggleFind, ToggleLoad, PreloadDevice,
         LoadDevice, Preload, LoadZone, RemoveFind, Reject, Finish, Goto
  <1>5. ASSUME NEW r \in Request, NEW q \in Request, ToggleSend(r, q) PROVE SeenAt(k)'
    <2>1. Stays
      BY <1>0, <1>5 DEF ToggleSend, Stays
    <2>. QED  BY <1>1, <1>5, <2>1 DEF ToggleSend
  <1>6. ASSUME NEW r \in Request, ToggleSave(r) \/ SaveDevice(r) \/ Remove(r) PROVE SeenAt(k)'
    <2>1. Stays
      BY <1>0, <1>6, StaysBecome DEF ToggleSave, SaveDevice, Remove, Finish
    <2>. QED  BY <1>1, <1>6, <2>1, SeenUnannounced DEF ToggleSave, SaveDevice, Remove
  <1>7. CASE AssignGateway
    <2>1. Stays
      BY <1>7 DEF AssignGateway, Stays
    <2>. QED  BY <1>7, <2>1, SeenUnannounced DEF AssignGateway
  <1>8. ASSUME NEW r \in Request, Fill(r) PROVE SeenAt(k)'
    <2>1. Stays
      BY <1>0, <1>8, StaysBecome DEF Fill
    <2>2. UNCHANGED <<devices, zones, rules>>
      BY <1>8 DEF Fill, tables
    <2>3. CASE k = job[r].key
      <3>1. cache'[k] = [data |-> job[r].data, loadedAt |-> now,
                         excused |-> job[r].data # Loaded(k, devices, zones, rules)]
        BY <1>8, <2>3 DEF Fill, Typed, TCache
      <3>2. \A d, w : ~[data |-> d, loadedAt |-> now, excused |-> d # w].excused => d = w
        BY Zenon
      <3>3. cache'[k].data = job[r].data
        BY <3>1
      <3>4. ~cache'[k].excused => job[r].data = Loaded(k, devices, zones, rules)
        <4>. SUFFICES ASSUME ~cache'[k].excused PROVE job[r].data = Loaded(k, devices, zones, rules)
          OBVIOUS
        <4>1. ~[data |-> job[r].data, loadedAt |-> now,
                excused |-> job[r].data # Loaded(k, devices, zones, rules)].excused
          BY <3>1, Zenon
        <4>. QED  BY <3>2, <4>1, Zenon
      <3>. QED  BY <2>2, <3>3, <3>4 DEF SeenAt
    <2>4. CASE k # job[r].key
      <3>1. cache'[k] = cache[k]
        BY <1>8, <2>4 DEF Fill, Typed, TCache
      <3>. QED  BY <2>1, <2>2, <3>1, SeenKept
    <2>. QED  BY <2>3, <2>4
  <1>9. ASSUME NEW r \in Request, UpdatePump(r) PROVE SeenAt(k)'
    <2>1. Stays
      BY <1>0, <1>9, StaysBecome DEF UpdatePump, Finish
    <2>2. \A d \in Device : devices'[d].mode = devices[d].mode /\ devices'[d].zone = devices[d].zone
      BY <1>9 DEF UpdatePump, Write, Typed, TTables, DeviceRow
    <2>3. cache' = cache /\ zones' = zones /\ rules' = rules
      BY <1>9 DEF UpdatePump, Write
    <2>4. CASE k[1] \in {"configs", "context"}
      <3>1. k[2] \in Device
        BY <2>4 DEF CacheKey
      <3>2. Loaded(k, devices, zones, rules)' = Loaded(k, devices, zones, rules)
        BY <2>2, <2>3, <2>4, <3>1 DEF Loaded
      <3>. QED  BY <2>1, <2>3, <3>2, SeenKept
    <2>. QED  BY <2>4 DEF SeenAt
  \* The mode of a device changes: its context is about to go.
  <1>10. ASSUME NEW r \in Request, job[r].pc # "invalidate", Goto(r, "invalidate"), cache' = cache,
                job[r].of \in Device, job[r].kind \in {"mode_response", "schedule"},
                zones' = zones, rules' = rules, devices' = [devices EXCEPT ![job[r].of].mode = job[r].arg]
         PROVE  SeenAt(k)'
    <2>1. Stays /\ cache' = cache
      BY <1>0, <1>10, StaysBecome DEF Goto
    <2>2. /\ zones' = zones /\ rules' = rules
          /\ \A d \in Device : d # job[r].of =>
               devices'[d].mode = devices[d].mode /\ devices'[d].zone = devices[d].zone
      BY <1>10 DEF Typed, TTables, DeviceRow
    <2>3. job[r].of \in Device /\ job[r].kind \in {"mode_response", "schedule"}
      BY <1>10
    <2>4. job'[r].pc = "invalidate" /\ job'[r].kind = job[r].kind /\ job'[r].of = job[r].of
      BY <1>0, <1>10 DEF Goto, Become, JobType, Fields
    <2>5. CASE k = <<"context", job[r].of>>
      <3>1. (k \in KeysOf(job[r]))'
        BY <2>3, <2>4, <2>5, ConstantsAssumption DEF KeysOf
      <3>. QED  BY <2>1, <2>4, <3>1, SeenWrite
    <2>6. CASE k[1] \in {"configs", "context"} /\ k # <<"context", job[r].of>>
      <3>1. k[2] \in Device /\ k = <<k[1], k[2]>>
        BY <2>6 DEF CacheKey
      <3>2. Loaded(k, devices, zones, rules)' = Loaded(k, devices, zones, rules)
        BY <2>2, <2>6, <3>1 DEF Loaded
      <3>. QED  BY <2>1, <3>2, SeenKept
    <2>. QED  BY <2>5, <2>6 DEF SeenAt
  \* A zone changes: the contexts that are cached with it are about to go.
  <1>11. ASSUME NEW z \in Zone, NEW r \in Request, Stays, cache' = cache, devices' = devices,
                \A y \in Zone \ {z} : zones'[y] = zones[y],
                \A x \in (Device \cup Zone) \ {z} : rules'[x] = rules[x],
                job'[r].pc = "invalidate", job'[r].of = z
         PROVE  SeenAt(k)'
    <2>1. CASE k[1] \in {"configs", "context"}
      <3>1. k[2] \in Device
        BY <2>1 DEF CacheKey
      <3>2. CASE k[1] = "context" /\ devices[k[2]].zone = z
        <4>1. SUFFICES ASSUME cache[k].data = Loaded(k, devices, zones, rules), Filled(k)
                       PROVE  (k \in KeysOf(job[r]))'
          BY <1>11, SeenWrite
        <4>2. cache[k].data.zone = z
          BY <3>2, <4>1 DEF Loaded
        <4>3. (k \in ContextsOf(z))'
          BY <1>11, <3>2, <4>1, <4>2 DEF ContextsOf, Filled
        <4>4. KeysOf(job[r])' = ContextsOf(z)'
          BY <1>11, ConstantsAssumption DEF KeysOf
        <4>. QED  BY <4>3, <4>4
      <3>3. CASE ~(k[1] = "context" /\ devices[k[2]].zone = z)
        <4>1. devices[k[2]].zone \in Zone \cup {None} /\ k[2] # z
          BY <3>1, ConstantsAssumption DEF Typed, TTables, DeviceRow
        <4>2. Loaded(k, devices, zones, rules)' = Loaded(k, devices, zones, rules)
          BY <1>11, <2>1, <3>1, <3>3, <4>1 DEF Loaded, ZoneIn, RulesIn
        <4>. QED  BY <1>11, <4>2, SeenKept
      <3>. QED  BY <3>2, <3>3
    <2>. QED  BY <2>1 DEF SeenAt
  <1>12. ASSUME NEW r \in Request, SaveZone(r) PROVE SeenAt(k)'
    <2>1. Stays /\ cache' = cache
      BY <1>0, <1>12, StaysBecome DEF SaveZone, Goto
    <2>2. job[r].of \in Zone
      BY <1>0, <1>12 DEF SaveZone, JobType, About
    <2>3. job'[r].pc = "invalidate" /\ job'[r].of = job[r].of
      BY <1>0, <1>12 DEF SaveZone, Goto, Become, JobType, Fields
    <2>4. devices' = devices /\ rules' = rules /\ \A y \in Zone \ {job[r].of} : zones'[y] = zones[y]
      BY <1>12 DEF SaveZone, Write, Typed, TTables
    <2>. QED  BY <1>11, <2>1, <2>2, <2>3, <2>4
  <1>13. ASSUME NEW r \in Request, WriteRules(r) PROVE SeenAt(k)'
    <2>1. CASE Finish(r) /\ UNCHANGED tables
      BY <1>2, <1>13, <2>1 DEF WriteRules, Finish
    <2>2. CASE Write(devices, zones, [rules EXCEPT ![job[r].of] = job[r].arg]) /\ Goto(r, "invalidate")
      <3>1. Stays /\ cache' = cache
        BY <1>0, <1>13, <2>2, StaysBecome DEF WriteRules, Goto
      <3>2. job[r].of \in Device \cup Zone /\ job[r].kind \in {"config", "threshold"}
        BY <1>0, <1>13 DEF WriteRules, JobType, About
      <3>3. job'[r].pc = "invalidate" /\ job'[r].of = job[r].of /\ job'[r].kind = job[r].kind
        BY <1>0, <2>2 DEF Goto, Become, JobType, Fields
      <3>4. /\ devices' = devices /\ zones' = zones
            /\ \A x \in (Device \cup Zone) \ {job[r].of} : rules'[x] = rules[x]
        BY <2>2 DEF Write, Typed, TTables
      <3>5. CASE job[r].of \in Zone
        BY <1>11, <3>1, <3>3, <3>4, <3>5
      <3>6. CASE job[r].of \in Device
        <4>1. job[r].of \notin Zone
          BY <3>6, ConstantsAssumption
        <4>2. CASE k = <<"configs", job[r].of>>
          <5>1. (k \in KeysOf(job[r]))'
            BY <3>2, <3>3, <4>1, <4>2 DEF KeysOf
          <5>. QED  BY <3>1, <3>3, <5>1, SeenWrite
        <4>3. CASE k[1] \in {"configs", "context"} /\ k # <<"configs", job[r].of>>
          <5>1. k[2] \in Device /\ k = <<k[1], k[2]>>
            BY <4>3 DEF CacheKey
          <5>2. devices[k[2]].zone \in Zone \cup {None}
            BY <5>1 DEF Typed, TTables, DeviceRow
          <5>3. Loaded(k, devices, zones, rules)' = Loaded(k, devices, zones, rules)
            BY <3>4, <4>1, <4>3, <5>1, <5>2 DEF Loaded, ZoneIn, RulesIn
          <5>. QED  BY <3>1, <5>3, SeenKept
        <4>. QED  BY <4>2, <4>3 DEF SeenAt
      <3>. QED  BY <3>2, <3>5, <3>6
    <2>. QED  BY <1>13, <2>1, <2>2 DEF WriteRules
  <1>14. ASSUME NEW r \in Request, Invalidate(r) PROVE SeenAt(k)'
    <2>1. UNCHANGED tables /\ job' = [job EXCEPT ![r] = Idle] /\ Drop(KeysOf(job[r]))
      BY <1>14 DEF Invalidate, Finish, Become
    <2>2. CASE k \in KeysOf(job[r])
      BY <2>1, <2>2 DEF Drop, NoEntry, SeenAt, Filled
    <2>3. CASE k \notin KeysOf(job[r])
      <3>. SUFFICES ASSUME k[1] \in {"configs", "context"}, Filled(k)', ~cache'[k].excused,
                           \A q \in Request : job'[q].pc = "invalidate" => k \notin KeysOf(job[q])'
                    PROVE  cache'[k].data = Loaded(k, devices', zones', rules')
        BY DEF SeenAt
      <3>1. cache'[k] = cache[k]
        BY <2>1, <2>3 DEF Drop
      <3>2. ASSUME NEW q \in Request, job[q].pc = "invalidate" PROVE k \notin KeysOf(job[q])
        <4>1. CASE q # r
          BY <1>0, <2>1, <3>1, <3>2, <4>1, KeysLocal
        <4>. QED  BY <2>3, <4>1
      <3>3. Filled(k) /\ ~cache[k].excused
        BY <3>1 DEF Filled
      <3>. QED  BY <2>1, <3>1, <3>2, <3>3 DEF SeenAt, tables
    <2>. QED  BY <2>2, <2>3
  <1>15. CASE Restart
    BY <1>15 DEF Restart, Drop, NoEntry, SeenAt, Filled
  <1>16. CASE Tick
    <2>1. UNCHANGED tables /\ (cache'[k] = NoEntry \/ cache'[k] = cache[k])
      BY <1>16 DEF Tick
    <2>2. Stays
      <3>1. ASSUME NEW q \in Request
            PROVE  job'[q].pc = job[q].pc /\ job'[q].kind = job[q].kind /\ job'[q].of = job[q].of
        <4>1. job'[q] = job[q] \/ job'[q] = [job[q] EXCEPT !.late = TRUE]
          BY <1>16 DEF Tick
        <4>. QED  BY <1>0, <4>1 DEF JobType, Fields
      <3>. QED  BY <3>1 DEF Stays
    <2>3. CASE cache'[k] = NoEntry
      BY <2>3 DEF NoEntry, SeenAt, Filled
    <2>. QED  BY <2>1, <2>2, <2>3, SeenKept DEF tables
  <1>17. CASE UNCHANGED vars
    BY <1>1, <1>17 DEF vars, Stays
  <1>18. ASSUME NEW r \in Request, UpdateMode(r) PROVE SeenAt(k)'
    <2>1. job[r].pc = "use" /\ job[r].of \in Device /\ job[r].kind = "mode_response"
      BY <1>0, <1>18 DEF UpdateMode, JobType, About
    <2>. QED  BY <1>10, <1>18, <2>1 DEF UpdateMode, Write
  <1>19. ASSUME NEW r \in Request, SetMode(r) PROVE SeenAt(k)'
    <2>1. job[r].pc = "set_mode" /\ job[r].of \in Device \cup Zone /\ job[r].kind = "schedule"
          /\ Goto(r, "invalidate") /\ cache' = cache
      BY <1>0, <1>19 DEF SetMode, JobType, HoldsAt, About
    <2>2. CASE job[r].of \in Device
      <3>1. zones' = zones /\ rules' = rules /\ devices' = [devices EXCEPT ![job[r].of].mode = job[r].arg]
        BY <1>19, <2>2 DEF SetMode, Write
      <3>. QED  BY <1>10, <2>1, <2>2, <3>1
    <2>3. CASE job[r].of \notin Device
      <3>1. devices' = devices /\ rules' = rules /\ \A y \in Zone \ {job[r].of} : zones'[y] = zones[y]
        BY <1>19, <2>3 DEF SetMode, Write, Typed, TTables, tables
      <3>2. Stays
        BY <1>0, <2>1, StaysBecome DEF Goto
      <3>3. job'[r].pc = "invalidate" /\ job'[r].of = job[r].of
        BY <1>0, <2>1 DEF Goto, Become, JobType, Fields
      <3>4. job[r].of \in Zone /\ \A x \in (Device \cup Zone) \ {job[r].of} : rules'[x] = rules[x]
        BY <2>1, <2>3, <3>1
      <3>. QED  BY <1>11, <2>1, <3>1, <3>2, <3>3, <3>4
    <2>. QED  BY <2>2, <2>3
  <1>. QED
    BY <1>3, <1>4, <1>5, <1>6, <1>7, <1>8, <1>9, <1>12, <1>13, <1>14, <1>15, <1>16, <1>17, <1>18, <1>19
       DEF Next, Handle

\* Once a change of a configuration, a threshold, a zone or an irrigation mode is
\* complete, the caches have it or nothing, whatever runs beside it.
THEOREM ChangesAreSeen == Spec => []UpdateSeen
  <1>1. UpdateSeen <=> \A k \in CacheKey : SeenAt(k)
    BY DEF UpdateSeen, SeenAt
  <1>2. Init => UpdateSeen
    BY DEF Init, UpdateSeen, Filled, NoEntry
  <1>3. UpdateSeen /\ Typed /\ [Next]_vars => UpdateSeen'
    <2>1. (\A k \in CacheKey : SeenAt(k)) /\ Typed /\ [Next]_vars => \A k \in CacheKey : SeenAt(k)'
      BY SeenStep
    <2>. QED  BY <2>1 DEF UpdateSeen, SeenAt
  <1>. QED  BY <1>2, <1>3, TypedInit, TypedStep, PTL DEF Spec

-----------------------------------------------------------------------------
(* What is used was in the database not long ago.  The invariant: the data    *)
(* of an entry were there one tick before it was filled, those a request has  *)
(* queried when it arrived, and those it took from a cache at most TTL before. *)

TGone ==
  /\ DOMAIN gone = Rows
  /\ \A x \in Rows : \A v \in gone[x] : v.until \in Int

Context(dev, row, rs) == [mode |-> dev.mode, zone |-> dev.zone, row |-> row, rules |-> rs]

\* The context of a device had these data since then, maybe a part at a time.
ContextWas(d, data, since) ==
  \E dev \in Recently(<<d, "row">>, since) : \E row, rs :
    /\ dev.zone \in Zone \cup {None} /\ data = Context(dev, row, rs)
    /\ IF dev.zone = None THEN row = NoZone /\ rs = NoRules
       ELSE row \in Recently(<<dev.zone, "row">>, since) /\ rs \in Recently(<<dev.zone, "rules">>, since)

\* The same before the thresholds of the zone are known.
PartWas(d, data, since) ==
  \E dev \in Recently(<<d, "row">>, since) : \E row :
    /\ dev.zone \in Zone /\ data = Context(dev, row, NoRules)
    /\ row \in Recently(<<dev.zone, "row">>, since)

Was(key, data, since) ==
  /\ key[1] = "route" => \E row \in Recently(<<key[2], "row">>, since) : data = row.gateway
  /\ key[1] = "owned" =>
       \A d \in data : d \in Device /\ \E row \in Recently(<<d, "row">>, since) : row.gateway = key[2]
  /\ key[1] = "configs" => data \in Recently(<<key[2], "rules">>, since)
  /\ key[1] = "context" => ContextWas(key[2], data, since)

TRecent ==
  \A k \in CacheKey : Filled(k) =>
    now - cache[k].loadedAt <= TTL /\ Was(k, cache[k].data, cache[k].loadedAt - 1)

\* Of a request that arrived then, or one tick later.
Fresh(j, arrival) ==
  /\ j.pc = "fill" => Was(j.key, j.data, arrival)
  /\ j.pc = "load_rules" => PartWas(j.of, j.data, arrival)
  /\ j.pc = "use" => Was(j.key, j.data, arrival - TTL)
  /\ j.pc \in {"load", "load_rules", "fill", "use"} /\ j.kind = "telemetry" /\ j.key = <<"context", j.of>>
     => j.configs \in Recently(<<j.of, "rules">>, arrival - TTL)

Arrival(j) == now - (IF j.late THEN 1 ELSE 0)

TFresh == \A r \in Request : Fresh(job[r], Arrival(job[r]))

Usable == Typed /\ TGone /\ TRecent /\ TFresh

LEMMA RowsIn ==
  /\ \A x \in Device \cup Zone : <<x, "row">> \in Rows /\ <<x, "rules">> \in Rows
  /\ \A k \in CacheKey :
       /\ k = <<k[1], k[2]>>
       /\ \/ k[1] \in {"route", "configs", "context"} /\ k[2] \in Device
          \/ k[1] = "owned" /\ k[2] \in Gateway
  BY DEF Rows, CacheKey

\* How a step changes the tables and their history.
Replaced ==
  gone' = [x \in Rows |->
    IF RowOf(devices, zones, rules, x) = RowOf(devices', zones', rules', x) THEN gone[x]
    ELSE gone[x] \cup {[value |-> RowOf(devices, zones, rules, x), until |-> now]}]

LEMMA TablesStep ==
  ASSUME [Next]_vars
  PROVE  UNCHANGED <<now, tables, gone>> \/ (now' = now /\ Replaced) \/ Tick
  <1>1. ASSUME NEW r \in Request, Arrive(r) PROVE UNCHANGED <<now, tables, gone>>
    BY <1>1, ArriveForms DEF Arrives
  <1>2. ASSUME NEW ds, NEW zs, NEW rs, Write(ds, zs, rs) PROVE Replaced
    BY <1>2 DEF Write, Replaced
  <1>3. ASSUME NEW ds, NEW zs, NEW rs, Unannounced(ds, zs, rs) PROVE Replaced
    BY <1>2, <1>3 DEF Unannounced
  <1>4. ASSUME NEW r \in Request, Handle(r)
        PROVE  UNCHANGED <<now, tables, gone>> \/ (now' = now /\ Replaced)
    <2>1. CASE Load(r) \/ LoadRules(r) \/ Fill(r) \/ Publish(r) \/ Answer(r) \/ Evaluate(r)
               \/ ToggleFind(r) \/ (\E q \in Request : ToggleSend(r, q)) \/ ToggleLoad(r)
               \/ PreloadDevice(r) \/ LoadDevice(r) \/ Preload(r) \/ LoadZone(r) \/ RemoveFind(r)
               \/ Invalidate(r)
      BY <2>1 DEF Load, LoadRules, Fill, Publish, Answer, Evaluate, ToggleFind, ToggleSend,
           ToggleLoad, PreloadDevice, LoadDevice, Preload, LoadZone, RemoveFind, Invalidate
    <2>2. CASE UpdatePump(r) \/ UpdateMode(r) \/ SaveZone(r)
      BY <1>2, <2>2 DEF UpdatePump, UpdateMode, SaveZone
    <2>3. CASE WriteRules(r) \/ SetMode(r)
      BY <1>2, <2>3 DEF WriteRules, SetMode
    <2>4. CASE ToggleSave(r) \/ SaveDevice(r) \/ Remove(r)
      BY <1>3, <2>4 DEF ToggleSave, SaveDevice, Remove
    <2>. QED  BY <1>4, <2>1, <2>2, <2>3, <2>4 DEF Handle
  <1>5. CASE AssignGateway
    BY <1>3, <1>5 DEF AssignGateway
  <1>6. CASE Restart \/ UNCHANGED vars \/ \E r \in Request : Reject(r)
    BY <1>6 DEF Restart, Reject, vars
  <1>. QED  BY <1>1, <1>4, <1>5, <1>6 DEF Next

LEMMA GoneStep == Typed /\ TGone /\ [Next]_vars => TGone'
  <1>. SUFFICES ASSUME Typed, TGone, [Next]_vars PROVE TGone'
    OBVIOUS
  <1>1. CASE now' = now /\ Replaced
    BY <1>1 DEF Replaced, TGone, Typed, TClock
  <1>2. CASE Tick
    BY <1>2 DEF Tick, TGone
  <1>3. CASE UNCHANGED <<now, tables, gone>>
    BY <1>3 DEF TGone
  <1>. QED  BY <1>1, <1>2, <1>3, TablesStep

LEMMA RecentWider ==
  ASSUME TGone, NEW x \in Rows, NEW s \in Int, NEW t \in Int, t <= s
  PROVE  Recently(x, s) \subseteq Recently(x, t)
  BY DEF TGone, Recently

\* A value that a row had since then is still one: what a write replaces is
\* remembered, and a tick forgets only what is older than the window.
LEMMA RecentKept ==
  ASSUME Typed, TGone, [Next]_vars, NEW x \in Rows, NEW s \in Int, s <= now, s >= now' - Window,
         NEW v \in Recently(x, s)
  PROVE  (v \in Recently(x, s))'
  <1>1. CASE now' = now /\ Replaced
    <2>1. gone'[x] = IF RowOf(devices, zones, rules, x) = RowOf(devices', zones', rules', x)
                       THEN gone[x]
                       ELSE gone[x] \cup {[value |-> RowOf(devices, zones, rules, x), until |-> now]}
      BY <1>1 DEF Replaced
    <2>2. CASE v = RowOf(devices, zones, rules, x)
      BY <2>1, <2>2 DEF Recently, Typed, TClock
    <2>3. CASE \E w \in gone[x] : w.until >= s /\ v = w.value
      BY <2>1, <2>3 DEF Recently
    <2>. QED  BY <2>2, <2>3 DEF Recently
  <1>2. CASE Tick
    <2>1. UNCHANGED <<devices, zones, rules>> /\ gone'[x] = {w \in gone[x] : w.until >= now' - Window}
          /\ now' = now + 1
      BY <1>2 DEF Tick, tables
    <2>2. now' \in Int /\ Window \in Int
      BY <2>1, ConstantsAssumption DEF Typed, TClock, Window
    <2>3. \A w \in gone[x] : w.until >= s => w \in gone'[x]
      BY <2>1, <2>2 DEF TGone
    <2>. QED  BY <2>1, <2>3 DEF Recently
  <1>3. CASE UNCHANGED <<now, tables, gone>>
    BY <1>3 DEF Recently, tables
  <1>. QED  BY <1>1, <1>2, <1>3, TablesStep

LEMMA RecentNow ==
  ASSUME NEW x, NEW s
  PROVE  RowOf(devices, zones, rules, x) \in Recently(x, s)
  BY DEF Recently

LEMMA WasWider ==
  ASSUME TGone, NEW key \in CacheKey, NEW data, NEW s \in Int, NEW t \in Int, t <= s, Was(key, data, s)
  PROVE  Was(key, data, t)
  <1>1. \A x \in Rows : Recently(x, s) \subseteq Recently(x, t)
    BY RecentWider
  <1>2. CASE key[1] = "context"
    <2>1. PICK dev, row, rs :
            /\ dev \in Recently(<<key[2], "row">>, s)
            /\ dev.zone \in Zone \cup {None} /\ data = Context(dev, row, rs)
            /\ IF dev.zone = None THEN row = NoZone /\ rs = NoRules
               ELSE row \in Recently(<<dev.zone, "row">>, s) /\ rs \in Recently(<<dev.zone, "rules">>, s)
      BY <1>2 DEF Was, ContextWas
    <2>2. dev \in Recently(<<key[2], "row">>, t)
      BY <1>1, <1>2, <2>1, RowsIn
    <2>3. dev.zone # None => row \in Recently(<<dev.zone, "row">>, t) /\ rs \in Recently(<<dev.zone, "rules">>, t)
      BY <1>1, <2>1, RowsIn
    <2>4. ContextWas(key[2], data, t)
      BY <2>1, <2>2, <2>3 DEF ContextWas
    <2>. QED  BY <1>2, <2>4 DEF Was
  <1>3. CASE key[1] # "context"
    BY <1>1, <1>3, RowsIn DEF Was
  <1>. QED  BY <1>2, <1>3

LEMMA WasKept ==
  ASSUME Typed, TGone, [Next]_vars, NEW key \in CacheKey, NEW data, NEW s \in Int,
         s <= now, s >= now' - Window, Was(key, data, s)
  PROVE  Was(key, data, s)'
  <1>1. \A x \in Rows : \A v \in Recently(x, s) : (v \in Recently(x, s))'
    BY RecentKept
  <1>2. CASE key[1] = "context"
    <2>1. PICK dev, row, rs :
            /\ dev \in Recently(<<key[2], "row">>, s)
            /\ dev.zone \in Zone \cup {None} /\ data = Context(dev, row, rs)
            /\ IF dev.zone = None THEN row = NoZone /\ rs = NoRules
               ELSE row \in Recently(<<dev.zone, "row">>, s) /\ rs \in Recently(<<dev.zone, "rules">>, s)
      BY <1>2 DEF Was, ContextWas
    <2>2. (dev \in Recently(<<key[2], "row">>, s))'
      BY <1>1, <1>2, <2>1, RowsIn
    <2>3. dev.zone # None => (row \in Recently(<<dev.zone, "row">>, s))' /\ (rs \in Recently(<<dev.zone, "rules">>, s))'
      BY <1>1, <2>1, RowsIn
    <2>4. ContextWas(key[2], data, s)'
      BY <2>1, <2>2, <2>3 DEF ContextWas
    <2>. QED  BY <1>2, <2>4 DEF Was
  <1>3. CASE key[1] # "context"
    BY <1>1, <1>3, RowsIn DEF Was
  <1>. QED  BY <1>2, <1>3

LEMMA PartKept ==
  ASSUME Typed, TGone, [Next]_vars, NEW d \in Device, NEW data, NEW s \in Int,
         s <= now, s >= now' - Window, PartWas(d, data, s)
  PROVE  PartWas(d, data, s)'
  <1>1. PICK dev, row :
          /\ dev \in Recently(<<d, "row">>, s)
          /\ dev.zone \in Zone /\ data = Context(dev, row, NoRules)
          /\ row \in Recently(<<dev.zone, "row">>, s)
    BY DEF PartWas
  <1>2. (dev \in Recently(<<d, "row">>, s))' /\ (row \in Recently(<<dev.zone, "row">>, s))'
    BY <1>1, RecentKept, RowsIn
  <1>. QED  BY <1>1, <1>2 DEF PartWas

\* What a query returns is in the database.
LEMMA WasNow ==
  ASSUME Typed, NEW key \in CacheKey, NEW s
  PROVE  Was(key, Loaded(key, devices, zones, rules), s)
  <1>. DEFINE x == key[2]
              data == Loaded(key, devices, zones, rules)
  <1>1. CASE key[1] \in {"route", "configs"}
    <2>1. x \in Device
      BY <1>1, RowsIn
    <2>2. devices[x] \in Recently(<<x, "row">>, s) /\ rules[x] \in Recently(<<x, "rules">>, s)
      BY <2>1, RecentNow DEF RowOf
    <2>. QED  BY <1>1, <2>2 DEF Was, Loaded
  <1>2. CASE key[1] = "owned"
    <2>1. data = {d \in Device : devices[d].gateway = x}
      BY <1>2 DEF Loaded
    <2>2. \A d \in Device : devices[d] \in Recently(<<d, "row">>, s)
      BY RecentNow DEF RowOf
    <2>. HIDE DEF data
    <2>3. Was(key, data, s)
      BY <1>2, <2>1, <2>2 DEF Was
    <2>. QED  BY <2>3 DEF data
  <1>3. CASE key[1] = "context"
    <2>. DEFINE dev == devices[x]
                row == ZoneIn(zones, dev.zone)
                rs == RulesIn(rules, dev.zone)
    <2>1. x \in Device /\ dev.zone \in Zone \cup {None}
      BY <1>3, RowsIn DEF Typed, TTables, DeviceRow
    <2>2. dev \in Recently(<<x, "row">>, s)
      BY <2>1, RecentNow DEF RowOf
    <2>3. dev.zone # None => row \in Recently(<<dev.zone, "row">>, s) /\ rs \in Recently(<<dev.zone, "rules">>, s)
      BY <2>1, RecentNow, ConstantsAssumption DEF RowOf, ZoneIn, RulesIn
    <2>4. dev.zone = None => row = NoZone /\ rs = NoRules
      BY DEF ZoneIn, RulesIn
    <2>5. data = Context(dev, row, rs)
      BY <1>3 DEF Loaded, Context
    <2>. HIDE DEF data, dev, row, rs
    <2>6. ContextWas(x, data, s)
      BY <2>1, <2>2, <2>3, <2>4, <2>5 DEF ContextWas
    <2>. QED  BY <1>3, <2>6 DEF Was, data
  <1>. QED  BY <1>1, <1>2, <1>3, RowsIn

LEMMA FreshKept ==
  ASSUME Typed, TGone, [Next]_vars, NEW j, KeyedAt(j), NEW t \in Int, t <= now, t >= now' - 1, Fresh(j, t)
  PROVE  Fresh(j, t)'
  <1>1. t - TTL \in Int /\ t - TTL <= now /\ t - TTL >= now' - Window /\ t >= now' - Window
    <2>1. now \in Int /\ now' \in Int /\ TTL \in Nat
      BY TypedStep, ConstantsAssumption DEF Typed, TClock
    <2>2. \A a, b, c \in Int : \A n \in Nat : a <= b /\ a >= c - 1 =>
            a - n \in Int /\ a - n <= b /\ a - n >= c - (n + 1) /\ a >= c - (n + 1)
      OBVIOUS
    <2>. QED  BY <2>1, <2>2 DEF Window
  <1>2. Keyed(j) => j.key \in CacheKey
    BY DEF Keyed, CacheKey
  <1>3. j.pc = "fill" => Was(j.key, j.data, t)'
    BY <1>1, <1>2, WasKept DEF Fresh, KeyedAt
  <1>4. j.pc = "load_rules" => PartWas(j.of, j.data, t)'
    BY <1>1, PartKept DEF Fresh, KeyedAt, Keyed
  <1>5. j.pc = "use" => Was(j.key, j.data, t - TTL)'
    BY <1>1, <1>2, WasKept DEF Fresh, KeyedAt
  <1>6. j.pc \in {"load", "load_rules", "fill", "use"} /\ j.kind = "telemetry" /\ j.key = <<"context", j.of>>
        => (j.configs \in Recently(<<j.of, "rules">>, t - TTL))'
    BY <1>1, RecentKept, RowsIn DEF Fresh, KeyedAt, Keyed
  <1>. QED  BY <1>3, <1>4, <1>5, <1>6 DEF Fresh

\* A hit returns what was there at most TTL before.
LEMMA HitWas ==
  ASSUME Typed, TGone, TRecent, NEW key \in CacheKey, Hit(key), NEW t \in Int, t <= now
  PROVE  Was(key, cache[key].data, t - TTL)
  <1>1. /\ cache[key].loadedAt \in Int /\ now - cache[key].loadedAt < TTL
        /\ Was(key, cache[key].data, cache[key].loadedAt - 1)
    BY DEF Hit, Young, TRecent, Typed, TCache
  <1>2. now \in Int /\ TTL \in Int
    BY ConstantsAssumption DEF Typed, TClock
  <1>3. \A a, b, c, n \in Int : a <= b /\ b - c < n => a - n \in Int /\ c - 1 \in Int /\ a - n <= c - 1
    OBVIOUS
  <1>4. t - TTL \in Int /\ cache[key].loadedAt - 1 \in Int /\ t - TTL <= cache[key].loadedAt - 1
    BY <1>1, <1>2, <1>3
  <1>. QED  BY <1>1, <1>4, WasWider

LEMMA KeyedKey == \A j : Keyed(j) => j.key \in CacheKey
  BY DEF Keyed, CacheKey

LEMMA GotFresh ==
  ASSUME Typed, TGone, TRecent, NEW j, DOMAIN j = Fields, Keyed(j), NEW data, NEW t \in Int, t <= now,
         Was(j.key, data, t - TTL),
         j.kind = "telemetry" /\ j.key = <<"context", j.of>> =>
           j.configs \in Recently(<<j.of, "rules">>, t - TTL)
  PROVE  Fresh(Got(j, data), t)
  <1>. DEFINE k == Got(j, data)
  <1>1. /\ DOMAIN k = Fields
        /\ k.kind = j.kind /\ k.of = j.of /\ k.arg = j.arg /\ k.late = j.late
        /\ \/ /\ j.key = <<"configs", j.of>> /\ k.configs = data
              /\ k.key = <<"context", j.of>> /\ k.pc \in {"use", "load"}
              /\ k.pc = "use" => Hit(k.key) /\ k.data = cache[k.key].data
           \/ /\ j.key[1] # "configs" /\ k.pc = "use" /\ k.data = data
              /\ k.key = j.key /\ k.configs = j.configs
    BY GotFields
  <1>. HIDE DEF k
  <1>2. CASE j.key = <<"configs", j.of>>
    <2>1. /\ k.configs = data /\ k.key = <<"context", j.of>> /\ k.pc \in {"use", "load"}
          /\ k.pc = "use" => Hit(k.key) /\ k.data = cache[k.key].data
      BY <1>1, <1>2
    <2>2. k.key \in CacheKey
      BY <1>2, <2>1 DEF Keyed, CacheKey
    <2>3. k.pc = "use" => Was(k.key, k.data, t - TTL)
      BY <2>1, <2>2, HitWas
    <2>4. k.configs \in Recently(<<j.of, "rules">>, t - TTL)
      BY <1>2, <2>1 DEF Was
    <2>. QED  BY <1>1, <2>1, <2>3, <2>4 DEF Fresh, k
  <1>3. CASE j.key[1] # "configs"
    <2>1. k.pc = "use" /\ k.data = data /\ k.key = j.key /\ k.configs = j.configs
      BY <1>1, <1>3
    <2>2. Fresh(k, t)
      BY <1>1, <2>1 DEF Fresh
    <2>. QED  BY <2>2 DEF k
  <1>. QED  BY <1>1, <1>2, <1>3

LEMMA LookUpFresh ==
  ASSUME Typed, TGone, TRecent, NEW j, DOMAIN j = Fields, Keyed(j), j.key[1] # "context"
  PROVE  Fresh(LookUp(j), now)
  <1>1. CASE Hit(j.key) /\ LookUp(j) = Got(j, cache[j.key].data)
    <2>1. now \in Int /\ now <= now
      BY DEF Typed, TClock
    <2>2. Was(j.key, cache[j.key].data, now - TTL)
      BY <1>1, <2>1, HitWas, KeyedKey
    <2>3. j.key # <<"context", j.of>>
      OBVIOUS
    <2>4. Fresh(Got(j, cache[j.key].data), now)
      BY <2>1, <2>2, <2>3, GotFresh
    <2>. QED  BY <1>1, <2>4
  <1>2. CASE LookUp(j).pc = "load" /\ LookUp(j).key = j.key
    BY <1>2 DEF Fresh
  <1>. QED  BY <1>1, <1>2, LookUpFields

LEMMA ArrivalType ==
  ASSUME Typed, NEW j, JobType(j)
  PROVE  Arrival(j) \in Int /\ Arrival(j) <= now /\ Arrival(j) >= now - 1
  BY DEF Arrival, JobType, Typed, TClock

LEMMA FreshSame ==
  ASSUME Usable, [Next]_vars, now' = now,
         \A q \in Request : JobType(job'[q]) /\ Fresh(job'[q], Arrival(job'[q]))
  PROVE  TFresh'
  <1>1. ASSUME NEW i, JobType(i), Fresh(i, Arrival(i)) PROVE Fresh(i, Arrival(i))'
    <2>. DEFINE t == Arrival(i)
    <2>1. t \in Int /\ t <= now /\ t >= now' - 1
      BY <1>1, ArrivalType DEF Usable
    <2>2. Arrival(i)' = t
      BY DEF Arrival
    <2>3. PICK s : s = t
      OBVIOUS
    <2>4. Fresh(i, s)'
      BY <1>1, <2>1, <2>3, FreshKept DEF Usable, JobType
    <2>. QED  BY <2>2, <2>3, <2>4
  <1>. QED  BY <1>1 DEF TFresh

\* Steps of one request.
LEMMA FreshBecome ==
  ASSUME Usable, [Next]_vars, now' = now, NEW r \in Request, NEW j, Become(r, j), JobType(j),
         Fresh(j, Arrival(j))
  PROVE  TFresh'
  <1>1. ASSUME NEW q \in Request PROVE JobType(job'[q]) /\ Fresh(job'[q], Arrival(job'[q]))
    BY DEF Become, Usable, Typed, TJobs, TFresh
  <1>. QED  BY <1>1, FreshSame

\* Nor does a step matter that uses nothing.
LEMMA FreshOther ==
  ASSUME Usable, [Next]_vars, now' = now, scope' = scope, NEW r \in Request, NEW j, Become(r, j),
         j.pc \notin {"load", "load_rules", "fill", "use"}
  PROVE  TFresh'
  <1>1. job'[r] = j /\ JobType(job'[r])
    BY TypedStep DEF Become, Usable, Typed, TJobs, JobType
  <1>2. Fresh(j, Arrival(j))
    BY DEF Fresh
  <1>. QED  BY <1>1, <1>2, FreshBecome

LEMMA FreshArrive ==
  ASSUME Usable, [Next]_vars, NEW r \in Request, Arrive(r)
  PROVE  TFresh'
  <1>1. PICK j : Arrives(r, j)
    BY ArriveForms
  <1>2. CASE j.pc \in {"find", "preload", "write", "preload_device", "set_mode"} /\ Become(r, j)
    BY <1>1, <1>2, FreshOther DEF Arrives
  <1>3. CASE Keyed(j) /\ j.key[1] # "context" /\ Become(r, LookUp(j))
    <2>1. Fresh(LookUp(j), now)
      BY <1>1, <1>3, LookUpFresh DEF Arrives, Usable
    <2>2. JobType(LookUp(j))
      BY <1>1, <1>3, LookUpType DEF Arrives
    <2>3. LookUp(j).late = FALSE
      <3>1. LookUp(j).late = j.late
        BY <1>1, <1>3, LookUpFields, GotFields DEF Arrives
      <3>. QED  BY <1>1, <3>1 DEF Arrives
    <2>4. Arrival(LookUp(j)) = now
      BY <2>3 DEF Arrival, Usable, Typed, TClock
    <2>. QED  BY <1>1, <1>3, <2>1, <2>2, <2>4, FreshBecome DEF Arrives
  <1>. QED  BY <1>1, <1>2, <1>3 DEF Arrives

LEMMA FreshLoad ==
  ASSUME Usable, [Next]_vars, NEW r \in Request, Load(r)
  PROVE  TFresh'
  <1>. DEFINE j == job[r]
              data == Loaded(j.key, devices, zones, rules)
              t == Arrival(j)
  <1>1. /\ JobType(j) /\ DOMAIN j = Fields /\ Keyed(j) /\ j.pc = "load" /\ now' = now /\ scope' = scope
        /\ Fresh(j, t)
    BY DEF Load, Usable, Typed, TJobs, JobType, KeyedAt, TFresh, bounds
  <1>2. j.key \in CacheKey
    BY <1>1, KeyedKey
  <1>3. CASE j.key[1] = "context" /\ data.zone # None
    <2>. DEFINE k == [j EXCEPT !.pc = "load_rules", !.data = [data EXCEPT !.rules = NoRules]]
                d == j.of
                row == zones[devices[d].zone]
    <2>1. j.key = <<"context", d>> /\ d \in Device
      BY <1>1, <1>3 DEF Keyed
    <2>2. data = Context(devices[d], ZoneIn(zones, devices[d].zone), RulesIn(rules, devices[d].zone))
      BY <2>1 DEF Loaded, Context
    <2>3. devices[d].zone \in Zone
      BY <1>3, <2>1, <2>2 DEF Context, Usable, Typed, TTables, DeviceRow
    <2>4. [data EXCEPT !.rules = NoRules] = Context(devices[d], row, NoRules)
      BY <2>2, <2>3, ConstantsAssumption DEF Context, ZoneIn
    <2>5. PartWas(d, [data EXCEPT !.rules = NoRules], t)
      <3>1. devices[d] \in Recently(<<d, "row">>, t) /\ row \in Recently(<<devices[d].zone, "row">>, t)
        BY <2>1, <2>3, RecentNow, ConstantsAssumption DEF RowOf
      <3>. HIDE DEF data, row, t
      <3>. QED  BY <2>3, <2>4, <3>1 DEF PartWas
    <2>6. Become(r, k)
      BY <1>3 DEF Load
    <2>7. /\ k.pc = "load_rules" /\ k.of = d /\ k.data = [data EXCEPT !.rules = NoRules]
          /\ k.kind = j.kind /\ k.key = j.key /\ k.configs = j.configs /\ k.late = j.late
      BY <1>1 DEF Fields
    <2>8. JobType(k)
      <3>1. job'[r] = k
        BY <2>6 DEF Become, Usable, Typed, TJobs
      <3>. QED  BY <1>1, <3>1, TypedStep DEF Usable, Typed, TJobs, JobType
    <2>9. Fresh(k, t) /\ Arrival(k) = t
      <3>. HIDE DEF k, data
      <3>. QED  BY <1>1, <2>5, <2>7 DEF Fresh, Arrival
    <2>. QED  BY <1>1, <2>6, <2>8, <2>9, FreshBecome
  <1>4. CASE ~(j.key[1] = "context" /\ data.zone # None)
    <2>. DEFINE k == [j EXCEPT !.pc = "fill", !.data = data]
    <2>1. Become(r, k)
      BY <1>4 DEF Load
    <2>2. Was(j.key, data, t)
      BY <1>2, WasNow DEF Usable
    <2>3. /\ k.pc = "fill" /\ k.of = j.of /\ k.data = data
          /\ k.kind = j.kind /\ k.key = j.key /\ k.configs = j.configs /\ k.late = j.late
      BY <1>1 DEF Fields
    <2>4. JobType(k)
      <3>1. job'[r] = k
        BY <2>1 DEF Become, Usable, Typed, TJobs
      <3>. QED  BY <1>1, <3>1, TypedStep DEF Usable, Typed, TJobs, JobType
    <2>5. Fresh(k, t) /\ Arrival(k) = t
      <3>. HIDE DEF k, data
      <3>. QED  BY <1>1, <2>2, <2>3 DEF Fresh, Arrival
    <2>. QED  BY <1>1, <2>1, <2>4, <2>5, FreshBecome
  <1>. QED  BY <1>3, <1>4

LEMMA FreshLoadRules ==
  ASSUME Usable, [Next]_vars, NEW r \in Request, LoadRules(r)
  PROVE  TFresh'
  <1>. DEFINE j == job[r]
              rs == rules[j.data.zone]
              k == [j EXCEPT !.pc = "fill", !.data.rules = rs]
              t == Arrival(j)
  <1>1. /\ JobType(j) /\ DOMAIN j = Fields /\ j.pc = "load_rules" /\ j.key = <<"context", j.of>>
        /\ now' = now /\ scope' = scope /\ Fresh(j, t) /\ Become(r, k)
    BY DEF LoadRules, Usable, Typed, TJobs, JobType, KeyedAt, TFresh, bounds
  <1>2. PICK dev, row :
          /\ dev \in Recently(<<j.of, "row">>, t)
          /\ dev.zone \in Zone /\ j.data = Context(dev, row, NoRules)
          /\ row \in Recently(<<dev.zone, "row">>, t)
    BY <1>1 DEF Fresh, PartWas
  <1>3. j.data.zone = dev.zone
    BY <1>2 DEF Context
  <1>4. rs \in Recently(<<dev.zone, "rules">>, t)
    BY <1>2, <1>3, RecentNow DEF RowOf
  <1>5. /\ k.pc = "fill" /\ k.of = j.of /\ k.data = [j.data EXCEPT !.rules = rs]
        /\ k.kind = j.kind /\ k.key = j.key /\ k.configs = j.configs /\ k.late = j.late
    BY <1>1 DEF Fields
  <1>6. k.data = Context(dev, row, rs)
    <2>. HIDE DEF k, rs, j
    <2>. QED  BY <1>2, <1>5 DEF Context
  <1>7. JobType(k)
    <2>1. job'[r] = k
      BY <1>1 DEF Become, Usable, Typed, TJobs
    <2>. QED  BY <1>1, <2>1, TypedStep DEF Usable, Typed, TJobs, JobType
  <1>8. Was(k.key, k.data, t)
    <2>. HIDE DEF k, rs, t, j
    <2>1. ContextWas(j.of, k.data, t)
      BY <1>2, <1>4, <1>6, ConstantsAssumption DEF ContextWas
    <2>. QED  BY <1>1, <1>5, <2>1 DEF Was
  <1>9. Fresh(k, t) /\ Arrival(k) = t
    <2>. HIDE DEF k, rs
    <2>. QED  BY <1>1, <1>5, <1>8 DEF Fresh, Arrival
  <1>. QED  BY <1>1, <1>7, <1>9, FreshBecome

LEMMA FillWas ==
  ASSUME Usable, NEW r \in Request, job[r].pc = "fill"
  PROVE  LET j == job[r] IN
         /\ JobType(j) /\ DOMAIN j = Fields /\ Keyed(j) /\ j.key \in CacheKey
         /\ Was(j.key, j.data, Arrival(j) - TTL) /\ Was(j.key, j.data, now - 1)
         /\ j.kind = "telemetry" /\ j.key = <<"context", j.of>> =>
              j.configs \in Recently(<<j.of, "rules">>, Arrival(j) - TTL)
  <1>. DEFINE j == job[r]
              t == Arrival(j)
  <1>1. JobType(j) /\ DOMAIN j = Fields /\ Keyed(j) /\ j.key \in CacheKey /\ Fresh(j, t)
    BY KeyedKey DEF Usable, Typed, TJobs, JobType, KeyedAt, TFresh
  <1>2. t \in Int /\ now - 1 \in Int /\ t - TTL \in Int /\ now - 1 <= t /\ t - TTL <= t
    <2>1. t \in Int /\ now \in Int /\ t >= now - 1 /\ TTL \in Nat
      BY <1>1, ArrivalType, ConstantsAssumption DEF Usable, Typed, TClock
    <2>. HIDE DEF t
    <2>. QED  BY <2>1
  <1>3. Was(j.key, j.data, t)
    BY <1>1 DEF Fresh
  <1>4. Was(j.key, j.data, t - TTL) /\ Was(j.key, j.data, now - 1)
    BY <1>1, <1>2, <1>3, WasWider DEF Usable
  <1>. QED  BY <1>1, <1>4 DEF Fresh

LEMMA FreshFill ==
  ASSUME Usable, [Next]_vars, NEW r \in Request, Fill(r)
  PROVE  TFresh'
  <1>. DEFINE j == job[r]
              k == Got(j, j.data)
              t == Arrival(j)
  <1>1. Become(r, k) /\ j.pc = "fill" /\ now' = now
    BY DEF Fill
  <1>2. /\ JobType(j) /\ DOMAIN j = Fields /\ Keyed(j) /\ Was(j.key, j.data, t - TTL)
        /\ j.kind = "telemetry" /\ j.key = <<"context", j.of>> => j.configs \in Recently(<<j.of, "rules">>, t - TTL)
    BY <1>1, FillWas
  <1>3. t \in Int /\ t <= now
    BY <1>2, ArrivalType DEF Usable
  <1>4. Fresh(k, t)
    BY <1>2, <1>3, GotFresh DEF Usable
  <1>5. JobType(k)
    BY <1>1, <1>2, GotType DEF JobType, KeyedAt
  <1>6. k.late = j.late
    BY <1>2, GotFields
  <1>7. Arrival(k) = t
    BY <1>6 DEF Arrival
  <1>. QED  BY <1>1, <1>4, <1>5, <1>7, FreshBecome

LEMMA FreshSend ==
  ASSUME Usable, [Next]_vars, NEW r \in Request, NEW q \in Request, ToggleSend(r, q)
  PROVE  TFresh'
  <1>. DEFINE j == job[r]
  <1>1. PICK d \in j.left :
          job' = [job EXCEPT ![r].left = @ \ {d},
                    ![q] = LookUp([Idle EXCEPT !.kind = "command", !.of = d, !.arg = j.arg,
                                               !.key = <<"route", d>>, !.parent = r])]
    BY DEF ToggleSend
  <1>. DEFINE i == [Idle EXCEPT !.kind = "command", !.of = d, !.arg = j.arg,
                                !.key = <<"route", d>>, !.parent = r]
              k == [j EXCEPT !.left = @ \ {d}]
  <1>2. /\ JobType(j) /\ j.pc = "wait" /\ job[q].pc = "idle" /\ d \in Device
        /\ now' = now /\ scope' = scope /\ DOMAIN job = Request
    BY DEF ToggleSend, Usable, Typed, TJobs, JobType, HoldsAt, bounds
  <1>3. /\ DOMAIN i = Fields /\ i.kind = "command" /\ i.of = d /\ i.key = <<"route", d>>
        /\ i.late = FALSE /\ Keyed(i) /\ i.key[1] # "context"
    <2>1. DOMAIN i = Fields /\ i.kind = "command" /\ i.of = d /\ i.key = <<"route", d>> /\ i.late = FALSE
      BY DEF Idle, Fields
    <2>. HIDE DEF i
    <2>. QED  BY <1>2, <2>1 DEF Keyed
  <1>4. job' = [job EXCEPT ![r] = k, ![q] = LookUp(i)]
    BY <1>1
  <1>5. k.pc = "wait"
    BY <1>2 DEF JobType, Fields
  <1>. HIDE DEF i, k
  <1>6. Fresh(LookUp(i), now)
    BY <1>3, LookUpFresh DEF Usable
  <1>7. LookUp(i).late = FALSE
    BY <1>3, LookUpFields, GotFields
  <1>8. Arrival(LookUp(i)) = now
    BY <1>7 DEF Arrival, Usable, Typed, TClock
  <1>9. ASSUME NEW p \in Request PROVE JobType(job'[p]) /\ Fresh(job'[p], Arrival(job'[p]))
    <2>1. JobType(job'[p])
      BY <1>2, TypedStep DEF Usable, Typed, TJobs, JobType
    <2>2. CASE p = q
      BY <1>2, <1>4, <1>6, <1>8, <2>1, <2>2
    <2>3. CASE p = r /\ p # q
      BY <1>2, <1>4, <1>5, <2>1, <2>3 DEF Fresh
    <2>4. CASE p # r /\ p # q
      BY <1>2, <1>4, <2>1, <2>4 DEF Usable, TFresh
    <2>. QED  BY <2>2, <2>3, <2>4
  <1>. QED  BY <1>2, <1>9, FreshSame

\* A request that has arrived before the tick is late after it, and its data
\* are as old as they were.
LEMMA FreshTick ==
  ASSUME Usable, [Next]_vars, Tick
  PROVE  TFresh'
  <1>1. /\ now' = now + 1 /\ now \in Nat
        /\ \A r \in Request : job'[r] = IF r \in Active THEN [job[r] EXCEPT !.late = TRUE] ELSE job[r]
        /\ \A r \in Active : job[r].late => job[r].pc = "wait"
    BY DEF Tick, Usable, Typed, TClock
  <1>2. ASSUME NEW i, NEW k, NEW s, Fresh(i, s)', DOMAIN i = Fields, k = [i EXCEPT !.late = TRUE]
        PROVE  Fresh(k, s)'
    <2>1. /\ k.pc = i.pc /\ k.key = i.key /\ k.data = i.data /\ k.of = i.of
          /\ k.kind = i.kind /\ k.configs = i.configs
      BY <1>2 DEF Fields
    <2>. QED  BY <1>2, <2>1 DEF Fresh
  <1>3. ASSUME NEW r \in Request, job'[r].pc \in {"load", "load_rules", "fill", "use"}
        PROVE  Fresh(job[r], Arrival(job[r]))'
    <2>1. JobType(job[r]) /\ DOMAIN job[r] = Fields
      BY DEF Usable, Typed, TJobs, JobType
    <2>2. r \in Active /\ job'[r] = [job[r] EXCEPT !.late = TRUE]
      BY <1>1, <1>3 DEF Active
    <2>3. job'[r].late = TRUE /\ job[r].pc = job'[r].pc
      BY <2>1, <2>2 DEF Fields
    <2>4. job[r].late = FALSE
      BY <1>1, <1>3, <2>1, <2>2, <2>3 DEF JobType
    <2>5. PICK i, s : i = job[r] /\ s = now
      OBVIOUS
    <2>6. Fresh(i, s) /\ KeyedAt(i)
      BY <1>1, <2>1, <2>4, <2>5 DEF Usable, TFresh, Arrival, JobType
    <2>7. s \in Int /\ s <= now /\ s >= now' - 1
      BY <1>1, <2>5
    <2>8. Fresh(i, s)'
      BY <2>6, <2>7, FreshKept DEF Usable
    <2>9. Fresh(job[r], s)'
      BY <1>2, <2>1, <2>2, <2>5, <2>8
    <2>10. Arrival(job[r])' = s
      BY <1>1, <2>3, <2>5 DEF Arrival
    <2>. QED  BY <2>9, <2>10
  <1>. QED  BY <1>3 DEF TFresh, Fresh

LEMMA FreshStep ==
  ASSUME Usable, [Next]_vars
  PROVE  TFresh'
  <1>1. ASSUME NEW r \in Request, Finish(r), now' = now, scope' = scope PROVE TFresh'
    BY <1>1, FreshOther DEF Finish, Idle
  <1>2. ASSUME NEW r \in Request, NEW step \in {"invalidate", "remove"}, Goto(r, step),
               now' = now, scope' = scope
        PROVE  TFresh'
    <2>. DEFINE k == [job[r] EXCEPT !.pc = step]
    <2>1. k.pc = step /\ Become(r, k)
      BY <1>2 DEF Goto, Usable, Typed, TJobs, JobType, Fields
    <2>. HIDE DEF k
    <2>. QED  BY <1>2, <2>1, FreshOther
  <1>3. ASSUME NEW r \in Request,
               Publish(r) \/ UpdatePump(r) \/ UpdateMode(r) \/ Answer(r) \/ Evaluate(r) \/ ToggleSave(r)
               \/ SaveDevice(r) \/ SetMode(r)
               \/ SaveZone(r) \/ RemoveFind(r) \/ Remove(r) \/ WriteRules(r) \/ Invalidate(r) \/ Reject(r)
        PROVE  TFresh'
    BY <1>1, <1>2, <1>3 DEF Publish, UpdatePump, UpdateMode, Answer, Evaluate, ToggleSave, SaveDevice,
         SetMode, SaveZone, RemoveFind, Remove, WriteRules, Invalidate, Reject, bounds
  <1>4. ASSUME NEW r \in Request,
               ToggleFind(r) \/ ToggleLoad(r) \/ PreloadDevice(r) \/ LoadDevice(r) \/ Preload(r) \/ LoadZone(r)
        PROVE  TFresh'
    <2>1. DOMAIN job[r] = Fields /\ now' = now /\ scope' = scope
      BY <1>4 DEF Usable, Typed, TJobs, JobType, ToggleFind, ToggleLoad, PreloadDevice, LoadDevice,
           Preload, LoadZone, bounds
    <2>2. \/ Finish(r)
          \/ \E k : Become(r, k) /\ k.pc \in {"wait", "save", "load_zone", "load_device", "save_device"}
      <3>1. CASE ToggleFind(r)
        <4>. DEFINE k == [job[r] EXCEPT !.pc = "wait", !.held = zones[job[r].of],
                            !.members = Members(job[r].of), !.left = Members(job[r].of)]
        <4>1. k.pc = "wait"
          BY <2>1 DEF Fields
        <4>2. Finish(r) \/ Become(r, k)
          BY <3>1 DEF ToggleFind
        <4>. HIDE DEF k
        <4>. QED  BY <4>1, <4>2
      <3>2. CASE ToggleLoad(r)
        <4>. DEFINE k == [job[r] EXCEPT !.pc = "save", !.loaded = zones[job[r].of],
                            !.left = Members(job[r].of), !.held.pump = job[r].arg = "PUMP_ON"]
        <4>1. k.pc = "save"
          BY <2>1 DEF Fields
        <4>2. Become(r, k)
          BY <3>2 DEF ToggleLoad
        <4>. HIDE DEF k
        <4>. QED  BY <4>1, <4>2
      <3>3. CASE Preload(r)
        <4>. DEFINE k == [job[r] EXCEPT !.pc = "load_zone",
                            !.held = [zones[job[r].of] EXCEPT !.all = Given(@, job[r].arg.all),
                                        !.mode = Given(@, job[r].arg.mode), !.pump = Given(@, job[r].arg.pump)]]
        <4>1. k.pc = "load_zone"
          BY <2>1 DEF Fields
        <4>2. Finish(r) \/ Become(r, k)
          BY <3>3 DEF Preload
        <4>. HIDE DEF k
        <4>. QED  BY <4>1, <4>2
      <3>4. CASE LoadZone(r)
        <4>. DEFINE k == [job[r] EXCEPT !.pc = "save", !.loaded = zones[job[r].of]]
        <4>1. k.pc = "save"
          BY <2>1 DEF Fields
        <4>2. Become(r, k)
          BY <3>4 DEF LoadZone
        <4>. HIDE DEF k
        <4>. QED  BY <4>1, <4>2
      <3>5. CASE PreloadDevice(r)
        <4>. DEFINE k == [job[r] EXCEPT !.pc = "load_device",
                            !.held = [devices[job[r].of] EXCEPT !.zone = Given(@, job[r].arg.zone),
                                        !.mode = Given(@, job[r].arg.mode), !.pump = Given(@, job[r].arg.pump)]]
        <4>1. k.pc = "load_device"
          BY <2>1 DEF Fields
        <4>2. Become(r, k)
          BY <3>5 DEF PreloadDevice
        <4>. HIDE DEF k
        <4>. QED  BY <4>1, <4>2
      <3>6. CASE LoadDevice(r)
        <4>. DEFINE k == [job[r] EXCEPT !.pc = "save_device", !.loaded = devices[job[r].of]]
        <4>1. k.pc = "save_device"
          BY <2>1 DEF Fields
        <4>2. Become(r, k)
          BY <3>6 DEF LoadDevice
        <4>. HIDE DEF k
        <4>. QED  BY <4>1, <4>2
      <3>. QED  BY <1>4, <3>1, <3>2, <3>3, <3>4, <3>5, <3>6
    <2>. QED  BY <1>1, <2>1, <2>2, FreshOther
  <1>5. CASE AssignGateway \/ UNCHANGED vars
    BY <1>5, FreshSame DEF AssignGateway, vars, Usable, Typed, TJobs, TFresh
  <1>6. CASE Restart
    <2>1. Fresh(Idle, Arrival(Idle))
      BY DEF Fresh, Idle
    <2>. QED  BY <1>6, <2>1, FreshSame, IdleType DEF Restart
  <1>. QED
    BY <1>3, <1>4, <1>5, <1>6, FreshArrive, FreshLoad, FreshLoadRules, FreshFill, FreshSend, FreshTick
       DEF Next, Handle

LEMMA RecentStep ==
  ASSUME Usable, [Next]_vars
  PROVE  TRecent'
  <1>1. ASSUME NEW k \in CacheKey, Filled(k), now' - cache[k].loadedAt <= TTL
        PROVE  Was(k, cache[k].data, cache[k].loadedAt - 1)'
               \/ cache'[k].data # cache[k].data \/ cache'[k].loadedAt # cache[k].loadedAt
    <2>1. PICK data, s : data = cache[k].data /\ s = cache[k].loadedAt - 1
      OBVIOUS
    <2>2. s \in Int /\ s <= now /\ s >= now' - Window
      <3>1. cache[k].loadedAt \in Int /\ cache[k].loadedAt <= now /\ now \in Int /\ now' \in Int /\ TTL \in Int
        BY TypedStep, ConstantsAssumption DEF Usable, Typed, TCache, TClock
      <3>2. \A l, n, m, t \in Int : l <= n /\ m - l <= t =>
              l - 1 \in Int /\ l - 1 <= n /\ l - 1 >= m - (t + 1)
        OBVIOUS
      <3>. QED  BY <1>1, <2>1, <3>1, <3>2 DEF Window
    <2>3. Was(k, data, s)'
      BY <1>1, <2>1, <2>2, WasKept DEF Usable, TRecent
    <2>. QED  BY <2>1, <2>3
  <1>2. ASSUME NEW k \in CacheKey, cache'[k] = NoEntry PROVE ~Filled(k)'
    BY <1>2 DEF NoEntry, Filled
  <1>3. ASSUME now' = now,
               \A k \in CacheKey : \/ cache'[k] = NoEntry
                                   \/ cache'[k].data = cache[k].data /\ cache'[k].loadedAt = cache[k].loadedAt
        PROVE  TRecent'
    BY <1>1, <1>2, <1>3 DEF TRecent, Filled, Usable
  <1>4. ASSUME now' = now, NEW ds, NEW zs, NEW rs, Unannounced(ds, zs, rs) PROVE TRecent'
    <2>1. \A k \in CacheKey : cache'[k] = cache[k] \/ cache'[k] = [cache[k] EXCEPT !.excused = TRUE]
      BY <1>4 DEF Unannounced
    <2>2. \A k \in CacheKey : LET e == [cache[k] EXCEPT !.excused = TRUE] IN
            e.data = cache[k].data /\ e.loadedAt = cache[k].loadedAt
      BY DEF Usable, Typed, TCache
    <2>. QED  BY <1>3, <1>4, <2>1, <2>2
  <1>5. ASSUME now' = now, NEW keys, Drop(keys) PROVE TRecent'
    BY <1>3, <1>5 DEF Drop
  <1>6. ASSUME NEW r \in Request, Arrive(r) PROVE TRecent'
    BY <1>3, <1>6, ArriveForms DEF Arrives
  <1>7. ASSUME NEW r \in Request, Fill(r) PROVE TRecent'
    <2>1. job[r].pc = "fill" /\ now' = now
          /\ cache' = [cache EXCEPT ![job[r].key] =
               [data |-> job[r].data, loadedAt |-> now,
                excused |-> job[r].data # Loaded(job[r].key, devices, zones, rules)]]
      BY <1>7 DEF Fill
    <2>2. PICK key, data, s : key = job[r].key /\ data = job[r].data /\ s = now - 1
      OBVIOUS
    <2>3. key \in CacheKey /\ Was(key, data, s)
      BY <2>1, <2>2, FillWas
    <2>4. Was(key, data, s)'
      <3>1. s \in Int /\ s <= now /\ s >= now' - Window
        BY <2>1, <2>2, ConstantsAssumption DEF Usable, Typed, TClock, Window
      <3>. QED  BY <2>3, <3>1, WasKept DEF Usable
    <2>5. cache'[key].data = data /\ cache'[key].loadedAt = now
      BY <2>1, <2>2, <2>3 DEF Usable, Typed, TCache
    <2>6. now' - cache'[key].loadedAt <= TTL
      BY <2>1, <2>5, ConstantsAssumption DEF Usable, Typed, TClock
    <2>7. ASSUME NEW k \in CacheKey, k # key PROVE cache'[k] = cache[k]
      BY <2>1, <2>2, <2>7 DEF Usable, Typed, TCache
    <2>8. ASSUME NEW k \in CacheKey, Filled(k)'
          PROVE  now' - cache'[k].loadedAt <= TTL /\ Was(k, cache[k].data, cache[k].loadedAt - 1)'
      <3>1. CASE k = key
        BY <2>1, <2>2, <2>4, <2>5, <2>6, <3>1
      <3>2. CASE k # key
        BY <1>1, <2>1, <2>7, <2>8, <3>2 DEF Filled, Usable, TRecent
      <3>. QED  BY <3>1, <3>2
    <2>. QED  BY <2>8 DEF TRecent
  <1>8. CASE Tick
    <2>1. \A k \in CacheKey : cache'[k] = IF Young(cache[k], now') THEN cache[k] ELSE NoEntry
      BY <1>8 DEF Tick
    <2>2. ASSUME NEW k \in CacheKey, Filled(k)'
          PROVE  now' - cache'[k].loadedAt <= TTL /\ Was(k, cache[k].data, cache[k].loadedAt - 1)'
      <3>1. Young(cache[k], now') /\ cache'[k] = cache[k] /\ Filled(k)
        BY <1>2, <2>1, <2>2 DEF Filled
      <3>2. now' - cache[k].loadedAt <= TTL
        <4>1. cache[k].loadedAt \in Int /\ now' \in Int /\ TTL \in Int /\ now' - cache[k].loadedAt < TTL
          BY <3>1, TypedStep, ConstantsAssumption DEF Usable, Typed, TCache, TClock, Young
        <4>2. \A a, b, c \in Int : a - b < c => a - b <= c
          OBVIOUS
        <4>. QED  BY <4>1, <4>2
      <3>. QED  BY <1>1, <3>1, <3>2
    <2>. QED  BY <2>2 DEF TRecent
  <1>9. ASSUME NEW r \in Request, Handle(r) PROVE TRecent'
    BY <1>3, <1>4, <1>5, <1>7, <1>9
       DEF Handle, Load, LoadRules, Publish, UpdatePump, UpdateMode, Answer, Evaluate,
           ToggleFind, ToggleSend, ToggleLoad, ToggleSave, PreloadDevice, LoadDevice, SaveDevice,
           SetMode, Preload, LoadZone, SaveZone, RemoveFind, Remove, WriteRules, Invalidate
  <1>10. CASE AssignGateway \/ Restart
    BY <1>4, <1>5, <1>10 DEF AssignGateway, Restart
  <1>11. CASE UNCHANGED vars \/ \E r \in Request : Reject(r)
    BY <1>3, <1>11 DEF Reject, vars
  <1>. QED  BY <1>6, <1>8, <1>9, <1>10, <1>11 DEF Next

LEMMA UsableInit == Init => Usable
  <1>. SUFFICES ASSUME Init PROVE Usable
    OBVIOUS
  <1>1. TGone /\ TRecent
    BY DEF Init, TGone, TRecent, Filled, NoEntry
  <1>2. TFresh
    BY DEF Init, TFresh, Fresh, Idle
  <1>. QED  BY <1>1, <1>2, TypedInit DEF Usable

LEMMA UsableStep == Usable /\ [Next]_vars => Usable'
  BY TypedStep, GoneStep, RecentStep, FreshStep DEF Usable

LEMMA ContextIn ==
  ASSUME NEW d \in Device, NEW data, NEW s, ContextWas(d, data, s)
  PROVE  data \in RecentContexts(d, s)
  <1>1. PICK dev, row, rs :
          /\ dev \in Recently(<<d, "row">>, s)
          /\ dev.zone \in Zone \cup {None} /\ data = Context(dev, row, rs)
          /\ IF dev.zone = None THEN row = NoZone /\ rs = NoRules
             ELSE row \in Recently(<<dev.zone, "row">>, s) /\ rs \in Recently(<<dev.zone, "rules">>, s)
    BY DEF ContextWas
  <1>2. data \in ContextsWith(dev, s)
    BY <1>1 DEF Context, ContextsWith
  <1>. QED  BY <1>1, <1>2 DEF RecentContexts

LEMMA UsableUsed == Usable => UsedRecently
  <1>. SUFFICES ASSUME Usable, NEW r \in Request, job[r].pc = "use"
                PROVE  Current(job[r], now - Window)
    BY DEF UsedRecently
  <1>. DEFINE j == job[r]
              t == Arrival(j)
              since == now - Window
  <1>1. JobType(j) /\ Keyed(j) /\ j.key \in CacheKey /\ Fresh(j, t)
        /\ (j.kind = "telemetry" => j.key = <<"context", j.of>>)
    BY KeyedKey DEF Usable, Typed, TJobs, JobType, KeyedAt, TFresh
  <1>2. t - TTL \in Int /\ since \in Int /\ since <= t - TTL
    <2>1. t \in Int /\ t >= now - 1 /\ now \in Int /\ TTL \in Int
      BY <1>1, ArrivalType, ConstantsAssumption DEF Usable, Typed, TClock
    <2>. HIDE DEF t
    <2>. QED  BY <2>1 DEF Window
  <1>3. Was(j.key, j.data, since)
    BY <1>1, <1>2, WasWider DEF Fresh, Usable
  <1>4. j.kind = "telemetry" => j.configs \in Recently(<<j.of, "rules">>, since)
    BY <1>1, <1>2, RecentWider, RowsIn DEF Fresh, Usable, Keyed
  <1>. HIDE DEF since, t, j
  <1>5. j.kind \in {"command", "response", "mode_response"} =>
          j.data \in {row.gateway : row \in Recently(<<j.of, "row">>, since)}
    BY <1>1, <1>3 DEF Keyed, Was
  <1>6. j.kind = "acl" /\ Granted(j) =>
          j.of \in {row.gateway : row \in Recently(<<j.arg, "row">>, since)}
    <2>. SUFFICES ASSUME j.kind = "acl", j.arg \in j.data
                  PROVE  j.of \in {row.gateway : row \in Recently(<<j.arg, "row">>, since)}
      BY DEF Granted
    <2>1. j.key = <<"owned", j.of>>
      BY <1>1 DEF Keyed
    <2>2. PICK row \in Recently(<<j.arg, "row">>, since) : row.gateway = j.of
      BY <1>3, <2>1 DEF Was
    <2>. QED  BY <2>2
  <1>7. j.kind = "telemetry" =>
          Resolve(j.configs, j.data) \in
            {Resolve(own, context) : own \in Recently(<<j.of, "rules">>, since),
                                     context \in RecentContexts(j.of, since)}
    <2>. SUFFICES ASSUME j.kind = "telemetry"
                  PROVE  Resolve(j.configs, j.data) \in
                           {Resolve(own, context) : own \in Recently(<<j.of, "rules">>, since),
                                                    context \in RecentContexts(j.of, since)}
      OBVIOUS
    <2>1. j.key = <<"context", j.of>> /\ j.of \in Device
      BY <1>1 DEF Keyed
    <2>2. j.data \in RecentContexts(j.of, since)
      BY <1>3, <2>1, ContextIn DEF Was
    <2>. QED  BY <1>4, <2>2
  <1>8. Current(j, since)
    BY <1>5, <1>6, <1>7 DEF Current
  <1>. QED  BY <1>8 DEF j, since

\* No command, answer of the broker or judgement of a reading goes by data that
\* the database has not had for longer than the time to live and one tick.
THEOREM BoundedStaleness == Spec => []UsedRecently
  BY UsableInit, UsableStep, UsableUsed, PTL DEF Spec

-----------------------------------------------------------------------------
(* Requests that overlap are recorded, so what a request finds out it can    *)
(* rely on until it writes, as long as no other one that writes it overlaps. *)

WatchedJob(j) ==
  /\ j.pc = "idle" => j.kind = "none"
  /\ j.kind = "response" => j.of \in Device
  /\ j.pc = "wait" => j.kind = "toggle"
  /\ j.pc = "load_zone" => j.kind = "update"
  /\ j.kind = "toggle" => j.pc \in {"find", "wait", "save"}
  /\ j.kind = "update" => j.pc \in {"preload", "load_zone", "save", "invalidate"}

TWatched == \A r \in Request : WatchedJob(job[r])

TMet ==
  \A p, q \in Request :
    p # q /\ job[p].kind \in Watched /\ job[q].kind \in Watched => {job[p].kind, job[q].kind} \in met

TAsked ==
  asked \in [pump : [Device \cup Zone -> BOOLEAN], row : [Zone -> [all : BOOLEAN, mode : Mode]],
             zone : [Device -> Zone \cup {None}]]

Watching == Typed /\ TWatched /\ TMet /\ TAsked

\* The request goes on.
Advance(r, k) ==
  /\ Become(r, k) /\ DOMAIN k = Fields /\ WatchedJob(k) /\ k.pc # "idle"
  /\ k.kind = job[r].kind /\ k.of = job[r].of /\ k.arg = job[r].arg

Begins(r, k) ==
  /\ Start(r, k) /\ DOMAIN k = Fields /\ WatchedJob(k) /\ k.pc # "idle"
  /\ \/ k.kind \notin Watched \cup Edits /\ UNCHANGED asked
     \/ /\ k.kind = "response"
        /\ asked' = [asked EXCEPT !.pump[k.of] = k.arg = "PUMP_ON"]
     \/ /\ k.kind = "toggle" /\ k.of \in Zone /\ k.pc = "find"
        /\ asked' = [asked EXCEPT !.pump[k.of] = k.arg = "PUMP_ON"]
     \/ k.kind = "update" /\ k.of \in Zone /\ k.pc = "preload" /\ UNCHANGED asked
     \/ k.kind \in {"remove", "schedule"} /\ UNCHANGED asked
     \/ k.kind \in Edits /\ k.pc = "preload_device" /\ UNCHANGED asked

LEMMA LookUpBegins ==
  ASSUME NEW j, DOMAIN j = Fields, Keyed(j), NEW k, k = LookUp(j)
  PROVE  /\ DOMAIN k = Fields /\ WatchedJob(k) /\ k.pc # "idle"
         /\ k.kind = j.kind /\ k.of = j.of /\ k.arg = j.arg
<1>1. CASE k = Got(j, cache[j.key].data)
  <2>1. /\ DOMAIN k = Fields /\ k.kind = j.kind /\ k.of = j.of /\ k.arg = j.arg
        /\ k.pc \in {"use", "load"}
    BY <1>1, GotFields
  <2>. QED
    BY <2>1 DEF WatchedJob, Keyed
<1>2. CASE k # Got(j, cache[j.key].data)
  <2>1. /\ DOMAIN k = Fields /\ k.kind = j.kind /\ k.of = j.of /\ k.arg = j.arg /\ k.pc = "load"
    BY <1>2, LookUpFields
  <2>. QED
    BY <2>1 DEF WatchedJob, Keyed
<1>. QED
  BY <1>1, <1>2

LEMMA ArriveBegins ==
  ASSUME NEW r \in Request, Arrive(r) PROVE \E k : Begins(r, k)
<1>1. ASSUME NEW j, DOMAIN j = Fields, Keyed(j), Start(r, LookUp(j)),
             \/ j.kind \notin Watched \cup Edits /\ UNCHANGED asked
             \/ j.kind = "response" /\ asked' = [asked EXCEPT !.pump[j.of] = j.arg = "PUMP_ON"]
      PROVE  \E k : Begins(r, k)
  <2>1. PICK k : k = LookUp(j)
    OBVIOUS
  <2>2. /\ DOMAIN k = Fields /\ WatchedJob(k) /\ k.pc # "idle"
        /\ k.kind = j.kind /\ k.of = j.of /\ k.arg = j.arg
    BY <1>1, <2>1, LookUpBegins
  <2>3. Begins(r, k)
    BY <1>1, <2>1, <2>2 DEF Begins
  <2>. QED
    BY <2>3
<1>2. CASE SendCommand(r)
  <2>1. PICK d \in Device, c \in PumpCommand :
          /\ Start(r, LookUp([Idle EXCEPT !.kind = "command", !.of = d, !.arg = c, !.key = <<"route", d>>]))
          /\ UNCHANGED asked
    BY <1>2 DEF SendCommand
  <2>2. PICK j : j = [Idle EXCEPT !.kind = "command", !.of = d, !.arg = c, !.key = <<"route", d>>]
    OBVIOUS
  <2>3. DOMAIN j = Fields /\ j.kind = "command" /\ j.of = d /\ j.key = <<"route", d>>
    BY <2>2 DEF Idle, Fields
  <2>4. Keyed(j) /\ j.kind \notin Watched \cup Edits /\ Start(r, LookUp(j))
    BY <2>1, <2>2, <2>3 DEF Keyed, Watched, Edits, Moves, Switches
  <2>. QED
    BY <1>1, <2>1, <2>3, <2>4
<1>3. CASE DeviceResponse(r)
  <2>1. PICK d \in Device, c \in Command :
          /\ Start(r, LookUp([Idle EXCEPT !.kind = IF c \in PumpCommand THEN "response" ELSE "mode_response",
                                !.of = d, !.arg = c, !.key = <<"route", d>>]))
          /\ asked' = IF c \in PumpCommand THEN [asked EXCEPT !.pump[d] = c = "PUMP_ON"] ELSE asked
    BY <1>3 DEF DeviceResponse
  <2>2. PICK j : j = [Idle EXCEPT !.kind = IF c \in PumpCommand THEN "response" ELSE "mode_response",
                        !.of = d, !.arg = c, !.key = <<"route", d>>]
    OBVIOUS
  <2>3. /\ DOMAIN j = Fields /\ j.of = d /\ j.arg = c /\ j.key = <<"route", d>>
        /\ j.kind = IF c \in PumpCommand THEN "response" ELSE "mode_response"
    BY <2>2 DEF Idle, Fields
  <2>4. Keyed(j) /\ Start(r, LookUp(j))
    BY <2>1, <2>2, <2>3 DEF Keyed
  <2>5. \/ j.kind \notin Watched \cup Edits /\ UNCHANGED asked
        \/ j.kind = "response" /\ asked' = [asked EXCEPT !.pump[j.of] = j.arg = "PUMP_ON"]
    BY <2>1, <2>3 DEF Watched, Edits, Moves, Switches
  <2>. QED
    BY <1>1, <2>3, <2>4, <2>5
<1>4. CASE CheckAcl(r)
  <2>1. PICK g \in Gateway, d \in Device :
          /\ Start(r, LookUp([Idle EXCEPT !.kind = "acl", !.of = g, !.arg = d, !.key = <<"owned", g>>]))
          /\ UNCHANGED asked
    BY <1>4 DEF CheckAcl
  <2>2. PICK j : j = [Idle EXCEPT !.kind = "acl", !.of = g, !.arg = d, !.key = <<"owned", g>>]
    OBVIOUS
  <2>3. DOMAIN j = Fields /\ j.kind = "acl" /\ j.of = g /\ j.key = <<"owned", g>>
    BY <2>2 DEF Idle, Fields
  <2>4. Keyed(j) /\ j.kind \notin Watched \cup Edits /\ Start(r, LookUp(j))
    BY <2>1, <2>2, <2>3 DEF Keyed, Watched, Edits, Moves, Switches
  <2>. QED
    BY <1>1, <2>1, <2>3, <2>4
<1>5. CASE Telemetry(r)
  <2>1. PICK d \in Device :
          /\ Start(r, LookUp([Idle EXCEPT !.kind = "telemetry", !.of = d, !.key = <<"configs", d>>]))
          /\ UNCHANGED asked
    BY <1>5 DEF Telemetry
  <2>2. PICK j : j = [Idle EXCEPT !.kind = "telemetry", !.of = d, !.key = <<"configs", d>>]
    OBVIOUS
  <2>3. DOMAIN j = Fields /\ j.kind = "telemetry" /\ j.of = d /\ j.key = <<"configs", d>>
    BY <2>2 DEF Idle, Fields
  <2>4. Keyed(j) /\ j.kind \notin Watched \cup Edits /\ Start(r, LookUp(j))
    BY <2>1, <2>2, <2>3 DEF Keyed, Watched, Edits, Moves, Switches
  <2>. QED
    BY <1>1, <2>1, <2>3, <2>4
<1>6. CASE TogglePump(r)
  <2>1. PICK z \in Zone, c \in PumpCommand :
          /\ Start(r, [Idle EXCEPT !.kind = "toggle", !.pc = "find", !.of = z, !.arg = c])
          /\ asked' = [asked EXCEPT !.pump[z] = c = "PUMP_ON"]
    BY <1>6 DEF TogglePump
  <2>2. PICK k : k = [Idle EXCEPT !.kind = "toggle", !.pc = "find", !.of = z, !.arg = c]
    OBVIOUS
  <2>3. DOMAIN k = Fields /\ k.kind = "toggle" /\ k.of = z /\ k.pc = "find" /\ k.arg = c
    BY <2>2 DEF Idle, Fields
  <2>4. Begins(r, k)
    BY <2>1, <2>2, <2>3 DEF Begins, WatchedJob
  <2>. QED
    BY <2>4
<1>7. CASE UpdateZone(r)
  <2>1. PICK z \in Zone, dto \in ZoneUpdate :
          /\ Start(r, [Idle EXCEPT !.kind = "update", !.pc = "preload", !.of = z, !.arg = dto])
          /\ UNCHANGED asked
    BY <1>7 DEF UpdateZone
  <2>2. PICK k : k = [Idle EXCEPT !.kind = "update", !.pc = "preload", !.of = z, !.arg = dto]
    OBVIOUS
  <2>3. DOMAIN k = Fields /\ k.kind = "update" /\ k.of = z /\ k.pc = "preload"
    BY <2>2 DEF Idle, Fields
  <2>4. Begins(r, k)
    BY <2>1, <2>2, <2>3 DEF Begins, WatchedJob
  <2>. QED
    BY <2>4
<1>8. CASE RemoveZone(r)
  <2>1. PICK z \in Zone :
          Start(r, [Idle EXCEPT !.kind = "remove", !.pc = "find", !.of = z]) /\ UNCHANGED asked
    BY <1>8 DEF RemoveZone
  <2>2. PICK k : k = [Idle EXCEPT !.kind = "remove", !.pc = "find", !.of = z]
    OBVIOUS
  <2>3. DOMAIN k = Fields /\ k.kind = "remove" /\ k.of = z /\ k.pc = "find"
    BY <2>2 DEF Idle, Fields
  <2>4. Begins(r, k)
    BY <2>1, <2>2, <2>3 DEF Begins, WatchedJob
  <2>. QED
    BY <2>4
<1>9. CASE EditRules(r)
  <2>1. PICK x \in Device \cup Zone, new \in RuleSet, kind \in {"config", "threshold"} :
          Start(r, [Idle EXCEPT !.kind = kind, !.pc = "write", !.of = x, !.arg = new]) /\ UNCHANGED asked
    BY <1>9 DEF EditRules
  <2>2. PICK k : k = [Idle EXCEPT !.kind = kind, !.pc = "write", !.of = x, !.arg = new]
    OBVIOUS
  <2>3. DOMAIN k = Fields /\ k.kind = kind /\ k.of = x /\ k.pc = "write"
    BY <2>2 DEF Idle, Fields
  <2>4. Begins(r, k)
    BY <2>1, <2>2, <2>3 DEF Begins, WatchedJob, Watched, Edits, Moves, Switches
  <2>. QED
    BY <2>4
<1>10. CASE UpdateDevice(r)
  <2>1. PICK d \in Device, dto \in DeviceUpdate :
          /\ Start(r, [Idle EXCEPT !.kind = DeviceKind(dto), !.pc = "preload_device", !.of = d, !.arg = dto])
          /\ UNCHANGED asked
    BY <1>10 DEF UpdateDevice
  <2>2. PICK k : k = [Idle EXCEPT !.kind = DeviceKind(dto), !.pc = "preload_device", !.of = d, !.arg = dto]
    OBVIOUS
  <2>3. DOMAIN k = Fields /\ k.kind = DeviceKind(dto) /\ k.of = d /\ k.pc = "preload_device"
    BY <2>2 DEF Idle, Fields
  <2>4. k.kind \in {"rename", "move", "switch", "edit"} /\ k.kind \in Edits
    BY <2>3 DEF DeviceKind, Edits, Moves, Switches
  <2>5. Begins(r, k)
    BY <2>1, <2>2, <2>3, <2>4 DEF Begins, WatchedJob
  <2>. QED
    BY <2>5
<1>11. CASE ScheduleMode(r)
  <2>1. PICK x \in Device \cup Zone, m \in Mode :
          /\ Start(r, [Idle EXCEPT !.kind = "schedule", !.pc = "set_mode", !.of = x, !.arg = m])
          /\ UNCHANGED asked
    BY <1>11 DEF ScheduleMode
  <2>2. PICK k : k = [Idle EXCEPT !.kind = "schedule", !.pc = "set_mode", !.of = x, !.arg = m]
    OBVIOUS
  <2>3. DOMAIN k = Fields /\ k.kind = "schedule" /\ k.of = x /\ k.pc = "set_mode"
    BY <2>2 DEF Idle, Fields
  <2>4. Begins(r, k)
    BY <2>1, <2>2, <2>3 DEF Begins, WatchedJob
  <2>. QED
    BY <2>4
<1>. QED
  BY <1>2, <1>3, <1>4, <1>5, <1>6, <1>7, <1>8, <1>9, <1>10, <1>11 DEF Arrive

\* The request is done.
Ends(r) ==
  /\ Finish(r)
  /\ job[r].kind = "response" => UpdatePump(r)
  /\ job[r].kind = "toggle" => ToggleFind(r) \/ ToggleSave(r)

LEMMA HandleMoves ==
  ASSUME Typed, TWatched, NEW r \in Request, Handle(r)
  PROVE  /\ met \subseteq met' /\ job[r].pc # "idle"
         /\ \/ Ends(r)
            \/ \E k : Advance(r, k)
            \/ \E q \in Request : ToggleSend(r, q)
<1>. DEFINE j == job[r]
<1>0. JobType(j) /\ DOMAIN j = Fields /\ WatchedJob(j) /\ KeyedAt(j)
  BY DEF Typed, TJobs, JobType, TWatched
<1>1. met \subseteq met'
  BY DEF Handle, Load, LoadRules, Fill, Publish, UpdatePump, UpdateMode, Answer, Evaluate,
         ToggleFind, ToggleSend, ToggleLoad, ToggleSave, PreloadDevice, LoadDevice, SaveDevice,
         SetMode, Preload, LoadZone, SaveZone, RemoveFind, Remove, WriteRules, Invalidate
<1>2. j.pc # "idle"
  BY DEF Handle, Load, LoadRules, Fill, Publish, UpdatePump, UpdateMode, Answer, Evaluate,
         ToggleFind, ToggleSend, ToggleLoad, ToggleSave, PreloadDevice, LoadDevice, SaveDevice,
         SetMode, Preload, LoadZone, SaveZone, RemoveFind, Remove, WriteRules, Invalidate
<1>3. ASSUME NEW step, Goto(r, step),
             \/ step = "invalidate" /\ j.kind \in {"update", "mode_response", "schedule", "config", "threshold"}
             \/ step = "remove" /\ j.kind = "remove"
      PROVE  \E k : Advance(r, k)
  <2>1. PICK k : k = [j EXCEPT !.pc = step]
    OBVIOUS
  <2>2. /\ DOMAIN k = Fields /\ k.pc = step /\ k.kind = j.kind /\ k.of = j.of /\ k.arg = j.arg
    BY <1>0, <2>1 DEF Fields
  <2>3. Become(r, k) /\ WatchedJob(k)
    BY <1>3, <2>1, <2>2 DEF Goto, WatchedJob
  <2>4. Advance(r, k)
    BY <1>3, <2>2, <2>3 DEF Advance
  <2>. QED
    BY <2>4
<1>4. ASSUME NEW k, Become(r, k), DOMAIN k = Fields, k.pc \in {"fill", "load_rules"},
             j.pc \in {"load", "load_rules"}, k.kind = j.kind, k.of = j.of, k.arg = j.arg
      PROVE  Advance(r, k)
  BY <1>0, <1>4 DEF WatchedJob, Advance
<1>13. CASE Load(r)
  <2>1. PICK step, data : /\ (step = "fill" \/ (step = "load_rules" /\ j.key[1] = "context"))
                          /\ Become(r, [j EXCEPT !.pc = step, !.data = data])
    BY <1>13 DEF Load
  <2>2. j.pc = "load"
    BY <1>13 DEF Load
  <2>. DEFINE k == [j EXCEPT !.pc = step, !.data = data]
  <2>3. DOMAIN k = Fields /\ k.pc = step /\ k.kind = j.kind /\ k.of = j.of /\ k.arg = j.arg
    BY <1>0 DEF Fields
  <2>4. Become(r, k)
    BY <2>1
  <2>. HIDE DEF k
  <2>5. Advance(r, k)
    BY <1>4, <2>1, <2>2, <2>3, <2>4
  <2>. QED
    BY <1>1, <1>2, <2>5
<1>14. CASE LoadRules(r)
  <2>1. PICK data : Become(r, [j EXCEPT !.pc = "fill", !.data = data])
    BY <1>0, <1>14 DEF LoadRules, Fields
  <2>2. j.pc = "load_rules"
    BY <1>14 DEF LoadRules
  <2>. DEFINE k == [j EXCEPT !.pc = "fill", !.data = data]
  <2>3. DOMAIN k = Fields /\ k.pc = "fill" /\ k.kind = j.kind /\ k.of = j.of /\ k.arg = j.arg
    BY <1>0 DEF Fields
  <2>4. Become(r, k)
    BY <2>1
  <2>. HIDE DEF k
  <2>5. Advance(r, k)
    BY <1>4, <2>2, <2>3, <2>4
  <2>. QED
    BY <1>1, <1>2, <2>5
<1>5. CASE Fill(r)
  <2>1. j.pc = "fill" /\ Become(r, Got(j, j.data)) /\ Keyed(j)
    BY <1>0, <1>5 DEF Fill, KeyedAt
  <2>2. PICK k : k = Got(j, j.data)
    OBVIOUS
  <2>3. /\ DOMAIN k = Fields /\ k.pc \in {"use", "load"}
        /\ k.kind = j.kind /\ k.of = j.of /\ k.arg = j.arg
    BY <1>0, <2>1, <2>2, GotFields
  <2>4. WatchedJob(k)
    BY <2>1, <2>3 DEF WatchedJob, Keyed
  <2>5. Advance(r, k)
    BY <2>1, <2>2, <2>3, <2>4 DEF Advance
  <2>. QED
    BY <1>1, <1>2, <2>5
<1>6. CASE UpdateMode(r) \/ SetMode(r) \/ SaveZone(r) \/ RemoveFind(r) \/ WriteRules(r)
  <2>1. SetMode(r) => j.kind = "schedule" /\ Goto(r, "invalidate")
    BY <1>0 DEF SetMode, JobType, HoldsAt
  <2>. QED
    BY <1>1, <1>2, <1>3, <1>6, <2>1 DEF UpdateMode, SaveZone, RemoveFind, WriteRules, Ends
<1>7. CASE ToggleFind(r)
  <2>1. PICK k : k = [j EXCEPT !.pc = "wait", !.held = zones[j.of], !.members = Members(j.of),
                        !.left = Members(j.of)]
    OBVIOUS
  <2>2. DOMAIN k = Fields /\ k.pc = "wait" /\ k.kind = j.kind /\ k.of = j.of /\ k.arg = j.arg
    BY <1>0, <2>1 DEF Fields
  <2>3. WatchedJob(k)
    BY <1>7, <2>2 DEF WatchedJob, ToggleFind
  <2>4. Become(r, k) => Advance(r, k)
    BY <2>2, <2>3 DEF Advance
  <2>5. Finish(r) \/ Become(r, k)
    BY <1>7, <2>1 DEF ToggleFind
  <2>6. job[r].kind = "toggle"
    BY <1>7 DEF ToggleFind
  <2>. QED
    BY <1>1, <1>2, <1>7, <2>4, <2>5, <2>6 DEF Ends
<1>8. CASE ToggleLoad(r)
  <2>1. PICK k : k = [j EXCEPT !.pc = "save", !.loaded = zones[j.of], !.left = Members(j.of),
                         !.held.pump = j.arg = "PUMP_ON"]
    OBVIOUS
  <2>2. DOMAIN k = Fields /\ k.pc = "save" /\ k.kind = j.kind /\ k.of = j.of /\ k.arg = j.arg
    BY <1>0, <2>1 DEF Fields
  <2>3. Become(r, k) /\ j.pc = "wait"
    BY <1>8, <2>1 DEF ToggleLoad
  <2>4. Advance(r, k)
    BY <1>0, <2>2, <2>3 DEF Advance, WatchedJob
  <2>. QED
    BY <1>1, <1>2, <2>4
<1>9. CASE Preload(r)
  <2>1. PICK k : k = [j EXCEPT !.pc = "load_zone",
                         !.held = [zones[j.of] EXCEPT !.all = Given(@, j.arg.all), !.mode = Given(@, j.arg.mode),
                                                      !.pump = Given(@, j.arg.pump)]]
    OBVIOUS
  <2>2. DOMAIN k = Fields /\ k.pc = "load_zone" /\ k.kind = j.kind /\ k.of = j.of /\ k.arg = j.arg
    BY <1>0, <2>1 DEF Fields
  <2>3. WatchedJob(k)
    BY <1>9, <2>2 DEF WatchedJob, Preload
  <2>4. Become(r, k) => Advance(r, k)
    BY <2>2, <2>3 DEF Advance
  <2>5. Finish(r) \/ Become(r, k)
    BY <1>9, <2>1 DEF Preload
  <2>6. job[r].kind = "update"
    BY <1>9 DEF Preload
  <2>. QED
    BY <1>1, <1>2, <2>4, <2>5, <2>6 DEF Ends
<1>10. CASE LoadZone(r)
  <2>1. PICK k : k = [j EXCEPT !.pc = "save", !.loaded = zones[j.of]]
    OBVIOUS
  <2>2. DOMAIN k = Fields /\ k.pc = "save" /\ k.kind = j.kind /\ k.of = j.of /\ k.arg = j.arg
    BY <1>0, <2>1 DEF Fields
  <2>3. Become(r, k) /\ j.pc = "load_zone"
    BY <1>10, <2>1 DEF LoadZone
  <2>4. Advance(r, k)
    BY <1>0, <2>2, <2>3 DEF Advance, WatchedJob
  <2>. QED
    BY <1>1, <1>2, <2>4
<1>11. CASE Publish(r) \/ UpdatePump(r) \/ Answer(r) \/ Evaluate(r) \/ ToggleSave(r) \/ SaveDevice(r)
            \/ Remove(r) \/ Invalidate(r)
  <2>1. Finish(r)
    BY <1>11 DEF Publish, UpdatePump, Answer, Evaluate, ToggleSave, SaveDevice, Remove, Invalidate
  <2>2. (j.kind = "response" => UpdatePump(r)) /\ (j.kind = "toggle" => ToggleSave(r))
    BY <1>0, <1>11 DEF Publish, Answer, Evaluate, UpdatePump, ToggleSave, SaveDevice, Remove, Invalidate,
                       JobType, HoldsAt, Edits, Moves, Switches
  <2>3. Ends(r)
    BY <2>1, <2>2 DEF Ends
  <2>. QED
    BY <1>1, <1>2, <2>3
<1>12. CASE \E q \in Request : ToggleSend(r, q)
  BY <1>1, <1>2, <1>12
<1>15. CASE PreloadDevice(r)
  <2>1. PICK k : k = [j EXCEPT !.pc = "load_device",
                         !.held = [devices[j.of] EXCEPT !.zone = Given(@, j.arg.zone),
                                     !.mode = Given(@, j.arg.mode), !.pump = Given(@, j.arg.pump)]]
    OBVIOUS
  <2>2. DOMAIN k = Fields /\ k.pc = "load_device" /\ k.kind = j.kind /\ k.of = j.of /\ k.arg = j.arg
    BY <1>0, <2>1 DEF Fields
  <2>3. Become(r, k) /\ j.kind \in Edits
    BY <1>0, <1>15, <2>1 DEF PreloadDevice, JobType, HoldsAt
  <2>4. Advance(r, k)
    BY <1>0, <2>2, <2>3 DEF Advance, WatchedJob, Edits, Moves, Switches
  <2>. QED
    BY <1>1, <1>2, <2>4
<1>16. CASE LoadDevice(r)
  <2>1. PICK k : k = [j EXCEPT !.pc = "save_device", !.loaded = devices[j.of]]
    OBVIOUS
  <2>2. DOMAIN k = Fields /\ k.pc = "save_device" /\ k.kind = j.kind /\ k.of = j.of /\ k.arg = j.arg
    BY <1>0, <2>1 DEF Fields
  <2>3. Become(r, k) /\ j.kind \in Edits
    BY <1>0, <1>16, <2>1 DEF LoadDevice, JobType, HoldsAt
  <2>4. Advance(r, k)
    BY <1>0, <2>2, <2>3 DEF Advance, WatchedJob, Edits, Moves, Switches
  <2>. QED
    BY <1>1, <1>2, <2>4
<1>. QED
  BY <1>5, <1>6, <1>7, <1>8, <1>9, <1>10, <1>11, <1>12, <1>13, <1>14, <1>15, <1>16 DEF Handle

\* A toggle sends a command, which is a request of its own.
SentBy(r, q, k, i) ==
  /\ job' = [job EXCEPT ![r] = k, ![q] = i] /\ job[r].pc = "wait" /\ job[q].pc = "idle" /\ q # r
  /\ DOMAIN k = Fields /\ \A f \in Fields \ {"left"} : k[f] = job[r][f]
  /\ DOMAIN i = Fields /\ i.kind = "command" /\ i.pc # "idle" /\ WatchedJob(i)

LEMMA SendForms ==
  ASSUME Typed, TWatched, NEW r \in Request, NEW q \in Request, ToggleSend(r, q)
  PROVE  /\ \E k, i : SentBy(r, q, k, i)
         /\ UNCHANGED <<now, tables, cache, bounds, gone, met, asked>>
<1>1. JobType(job[r]) /\ DOMAIN job[r] = Fields /\ job[r].pc = "wait" /\ job[q].pc = "idle"
  BY DEF Typed, TJobs, JobType, ToggleSend
<1>2. PICK d \in job[r].left :
        job' = [job EXCEPT ![r].left = @ \ {d},
                  ![q] = LookUp([Idle EXCEPT !.kind = "command", !.of = d, !.arg = job[r].arg,
                                             !.key = <<"route", d>>, !.parent = r])]
  BY DEF ToggleSend
<1>3. PICK e : e = [Idle EXCEPT !.kind = "command", !.of = d, !.arg = job[r].arg,
                                !.key = <<"route", d>>, !.parent = r]
  OBVIOUS
<1>4. PICK k, i : k = [job[r] EXCEPT !.left = @ \ {d}] /\ i = LookUp(e)
  OBVIOUS
<1>5. d \in Device
  BY <1>1 DEF JobType, HoldsAt
<1>6. DOMAIN e = Fields /\ e.kind = "command" /\ e.of = d /\ e.key = <<"route", d>>
  BY <1>3 DEF Idle, Fields
<1>7. Keyed(e)
  BY <1>5, <1>6 DEF Keyed
<1>8. DOMAIN i = Fields /\ WatchedJob(i) /\ i.pc # "idle" /\ i.kind = "command"
  BY <1>4, <1>6, <1>7, LookUpBegins
<1>9. DOMAIN k = Fields /\ \A f \in Fields \ {"left"} : k[f] = job[r][f]
  BY <1>1, <1>4
<1>10. job' = [job EXCEPT ![r] = k, ![q] = i]
  BY <1>2, <1>3, <1>4
<1>11. SentBy(r, q, k, i)
  BY <1>1, <1>8, <1>9, <1>10 DEF SentBy
<1>. QED
  BY <1>11 DEF ToggleSend

\* A request that is in flight before and after a step is the same one.
SameRequest(q) ==
  job'[q].kind = job[q].kind /\ job'[q].of = job[q].of /\ job'[q].arg = job[q].arg

LEMMA TickSame ==
  ASSUME Typed, TWatched, Tick, NEW q \in Request
  PROVE  /\ \A f \in Fields \ {"late"} : job'[q][f] = job[q][f]
         /\ DOMAIN job'[q] = Fields
<1>1. job'[q] = IF q \in Active THEN [job[q] EXCEPT !.late = TRUE] ELSE job[q]
  BY DEF Tick
<1>2. DOMAIN job[q] = Fields
  BY DEF Typed, TJobs, JobType
<1>. QED
  BY <1>1, <1>2

\* What becomes of a request that is in flight.
LEMMA Continues ==
  ASSUME Typed, TWatched, [Next]_vars, NEW q \in Request
  PROVE  /\ WatchedJob(job'[q])
         /\ met \subseteq met'
         /\ \/ SameRequest(q)
            \/ job'[q] = Idle
            \/ job[q].pc = "idle" /\ job'[q].kind = "command"
            \/ job[q].pc = "idle" /\ Arrive(q) /\ \E k : Begins(q, k)
<1>0. DOMAIN job = Request /\ WatchedJob(job[q]) /\ DOMAIN job[q] = Fields
  BY DEF Typed, TJobs, JobType, TWatched
<1>1. WatchedJob(Idle)
  BY DEF WatchedJob, Idle
<1>2. ASSUME NEW r \in Request, Arrive(r)
      PROVE  /\ WatchedJob(job'[q]) /\ met \subseteq met'
             /\ \/ SameRequest(q)
                \/ job[q].pc = "idle" /\ Arrive(q) /\ \E k : Begins(q, k)
  <2>1. PICK k : Begins(r, k)
    BY <1>2, ArriveBegins
  <2>2. /\ job' = [job EXCEPT ![r] = k] /\ met \subseteq met' /\ WatchedJob(k) /\ job[r].pc = "idle"
    BY <2>1 DEF Begins, Start, Become
  <2>3. CASE q = r
    BY <1>0, <1>2, <2>1, <2>2, <2>3
  <2>4. CASE q # r
    BY <1>0, <2>2, <2>4 DEF SameRequest
  <2>. QED
    BY <2>3, <2>4
<1>3. ASSUME NEW r \in Request, Finish(r), met \subseteq met'
      PROVE  WatchedJob(job'[q]) /\ (SameRequest(q) \/ job'[q] = Idle)
  BY <1>0, <1>1, <1>3 DEF Finish, Become, SameRequest
<1>4. ASSUME NEW r \in Request, Handle(r)
      PROVE  /\ WatchedJob(job'[q]) /\ met \subseteq met'
             /\ \/ SameRequest(q)
                \/ job'[q] = Idle
                \/ job[q].pc = "idle" /\ job'[q].kind = "command"
  <2>1. met \subseteq met' /\ job[r].pc # "idle"
    BY <1>4, HandleMoves
  <2>2. CASE Ends(r)
    BY <1>3, <2>1, <2>2 DEF Ends
  <2>3. CASE \E k : Advance(r, k)
    BY <1>0, <2>1, <2>3 DEF Advance, Become, SameRequest
  <2>4. ASSUME NEW p \in Request, ToggleSend(r, p)
        PROVE  WatchedJob(job'[q]) /\ (SameRequest(q) \/ (job[q].pc = "idle" /\ job'[q].kind = "command"))
    <3>1. PICK k, i : SentBy(r, p, k, i)
      BY <2>4, SendForms
    <3>2. CASE q = r
      <4>1. job'[q] = k /\ \A f \in {"pc", "kind", "of", "arg"} : k[f] = job[q][f]
        BY <1>0, <3>1, <3>2 DEF SentBy, Fields
      <4>. QED
        BY <1>0, <4>1 DEF WatchedJob, SameRequest
    <3>3. CASE q = p
      BY <1>0, <3>1, <3>3 DEF SentBy
    <3>4. CASE q # r /\ q # p
      BY <1>0, <3>1, <3>4 DEF SentBy, SameRequest
    <3>. QED
      BY <3>2, <3>3, <3>4
  <2>. QED
    BY <1>4, <2>1, <2>2, <2>3, <2>4, HandleMoves
<1>5. ASSUME NEW r \in Request, Reject(r)
      PROVE  WatchedJob(job'[q]) /\ met \subseteq met' /\ (SameRequest(q) \/ job'[q] = Idle)
  BY <1>3, <1>5 DEF Reject
<1>6. CASE AssignGateway \/ UNCHANGED vars
  BY <1>0, <1>6 DEF AssignGateway, vars, SameRequest
<1>7. CASE Restart
  BY <1>1, <1>7 DEF Restart
<1>8. CASE Tick
  <2>1. \A f \in {"pc", "kind", "of", "arg"} : job'[q][f] = job[q][f]
    BY <1>8, TickSame DEF Fields
  <2>2. met' = met
    BY <1>8 DEF Tick
  <2>. QED
    BY <1>0, <2>1, <2>2 DEF WatchedJob, SameRequest
<1>. QED
  BY <1>2, <1>4, <1>5, <1>6, <1>7, <1>8 DEF Next

\* Which steps write what.
LEMMA Columns ==
  ASSUME Typed, [Next]_vars
  PROVE  /\ \/ \A d \in Device : devices'[d].pump = devices[d].pump
            \/ \E r \in Request : UpdatePump(r) \/ SaveDevice(r)
         /\ \/ zones' = zones /\ \A d \in Device : devices'[d].zone = devices[d].zone
            \/ \E r \in Request : SaveDevice(r) \/ SetMode(r) \/ SaveZone(r) \/ ToggleSave(r) \/ Remove(r)
         /\ \/ asked' = asked
            \/ \E r \in Request : SaveDevice(r) \/ SetMode(r) \/ SaveZone(r) \/ Arrive(r)
<1>0. \A d \in Device : devices[d] \in DeviceRow
  BY DEF Typed, TTables
<1>1. DOMAIN devices = Device
  BY DEF Typed, TTables
<1>3. ASSUME NEW r \in Request, Arrive(r) PROVE UNCHANGED <<devices, zones>>
  <2>1. PICK k : Begins(r, k)
    BY <1>3, ArriveBegins
  <2>. QED
    BY <2>1 DEF Begins, Start, tables
<1>4. ASSUME NEW r \in Request,
             \/ Load(r) \/ LoadRules(r) \/ Fill(r) \/ Publish(r) \/ Answer(r) \/ Evaluate(r)
             \/ ToggleFind(r) \/ ToggleLoad(r) \/ PreloadDevice(r) \/ LoadDevice(r) \/ Preload(r)
             \/ LoadZone(r) \/ RemoveFind(r)
             \/ WriteRules(r) \/ Invalidate(r) \/ Reject(r) \/ \E q \in Request : ToggleSend(r, q)
      PROVE  UNCHANGED <<devices, zones, asked>>
  BY <1>4 DEF Load, LoadRules, Fill, Publish, Answer, Evaluate, ToggleFind, ToggleLoad, PreloadDevice,
       LoadDevice, Preload, LoadZone, RemoveFind, WriteRules, Invalidate, Reject, ToggleSend, tables, Write
<1>5. ASSUME NEW r \in Request, UpdatePump(r)
      PROVE  zones' = zones /\ asked' = asked /\ \A d \in Device : devices'[d].zone = devices[d].zone
  <2>1. /\ devices' = [devices EXCEPT ![job[r].of].pump = job[r].arg = "PUMP_ON"]
        /\ zones' = zones /\ asked' = asked
    BY <1>5 DEF UpdatePump, Write
  <2>. QED
    BY <1>0, <1>1, <2>1 DEF DeviceRow
<1>6. ASSUME NEW r \in Request, UpdateMode(r)
      PROVE  /\ zones' = zones /\ asked' = asked
             /\ \A d \in Device : devices'[d].zone = devices[d].zone /\ devices'[d].pump = devices[d].pump
  <2>1. devices' = [devices EXCEPT ![job[r].of].mode = job[r].arg] /\ zones' = zones /\ asked' = asked
    BY <1>6 DEF UpdateMode, Write
  <2>. QED
    BY <1>0, <1>1, <2>1 DEF DeviceRow
<1>7. ASSUME NEW r \in Request, SaveZone(r) \/ ToggleSave(r) \/ Remove(r)
      PROVE  /\ \A d \in Device : devices'[d].pump = devices[d].pump
             /\ asked' = asked \/ SaveZone(r)
  <2>1. CASE SaveZone(r)
    BY <2>1 DEF SaveZone, Write
  <2>2. CASE ToggleSave(r)
    <3>1. PICK f : devices' = [d \in Device |-> [devices[d] EXCEPT !.zone = f[d]]] /\ asked' = asked
      <4>. DEFINE row == Merge(zones[job[r].of], job[r].held, job[r].loaded)
                  Zoned(d) == IF ~row.there THEN devices[d].zone
                              ELSE IF d \in job[r].members \ job[r].left THEN job[r].of
                              ELSE IF d \in job[r].left \ job[r].members THEN None
                              ELSE devices[d].zone
                  f == [d \in Device |-> Zoned(d)]
      <4>1. devices' = [d \in Device |-> [devices[d] EXCEPT !.zone = Zoned(d)]] /\ asked' = asked
        BY <2>2 DEF ToggleSave, Unannounced, Write
      <4>2. \A d \in Device : f[d] = Zoned(d)
        OBVIOUS
      <4>. HIDE DEF Zoned
      <4>3. devices' = [d \in Device |-> [devices[d] EXCEPT !.zone = f[d]]]
        BY <4>1, <4>2
      <4>. QED
        BY <4>1, <4>3
    <3>. QED
      BY <1>0, <3>1 DEF DeviceRow
  <2>3. CASE Remove(r)
    <3>1. /\ devices' = [d \in Device |-> IF devices[d].zone = job[r].of
                                            THEN [devices[d] EXCEPT !.zone = None] ELSE devices[d]]
          /\ asked' = asked
      BY <2>3 DEF Remove, Unannounced, Write
    <3>. QED
      BY <1>0, <3>1 DEF DeviceRow
  <2>. QED
    BY <1>7, <2>1, <2>2, <2>3
<1>8. ASSUME NEW r \in Request, SetMode(r)
      PROVE  \A d \in Device : devices'[d].pump = devices[d].pump
  <2>1. devices' = devices \/ devices' = [devices EXCEPT ![job[r].of].mode = job[r].arg]
    BY <1>8 DEF SetMode, Write, tables
  <2>. QED
    BY <1>0, <1>1, <2>1 DEF DeviceRow
<1>9. CASE AssignGateway
  <2>1. PICK d, g : d \in Device /\ devices' = [devices EXCEPT ![d].gateway = g] /\ zones' = zones /\ asked' = asked
    BY <1>9 DEF AssignGateway, Unannounced, Write
  <2>2. \A e \in Device : devices'[e].pump = devices[e].pump /\ devices'[e].zone = devices[e].zone
    BY <1>0, <1>1, <2>1 DEF DeviceRow
  <2>. QED
    BY <2>1, <2>2
<1>10. CASE Restart \/ Tick \/ UNCHANGED vars
  BY <1>10 DEF Restart, Tick, vars, tables
<1>11. ASSUME NEW r \in Request, Handle(r)
       PROVE  \/ UNCHANGED <<devices, zones, asked>>
              \/ UpdatePump(r) \/ UpdateMode(r) \/ SaveDevice(r) \/ SetMode(r) \/ SaveZone(r)
              \/ ToggleSave(r) \/ Remove(r)
  BY <1>4, <1>11 DEF Handle
<1>. QED
  BY <1>3, <1>4, <1>5, <1>6, <1>7, <1>8, <1>9, <1>10, <1>11 DEF Next

\* A response or a toggle that is no longer in flight has failed, or done what
\* it had to do.
LEMMA Ended ==
  ASSUME Typed, TWatched, [Next]_vars, NEW q \in Request,
         job[q].kind \in {"response", "toggle"}, ~SameRequest(q)
  PROVE  \/ {job[q].kind, "failure"} \in met'
         \/ job[q].kind = "response" /\ UpdatePump(q)
         \/ job[q].kind = "toggle" /\ (ToggleFind(q) \/ ToggleSave(q))
<1>0. DOMAIN job = Request /\ job[q].pc # "idle" /\ job[q].kind \in Watched /\ DOMAIN job[q] = Fields
  BY DEF Typed, TJobs, JobType, TWatched, WatchedJob, Watched
<1>1. ASSUME NEW r \in Request, NEW k, Become(r, k), r # q PROVE SameRequest(q)
  BY <1>0, <1>1 DEF Become, SameRequest
<1>2. ASSUME NEW r \in Request, Arrive(r) PROVE FALSE
  <2>1. PICK k : Begins(r, k)
    BY <1>2, ArriveBegins
  <2>2. Become(r, k) /\ job[r].pc = "idle"
    BY <2>1 DEF Begins, Start
  <2>. QED
    BY <1>0, <1>1, <2>2
<1>3. ASSUME NEW r \in Request, Handle(r)
      PROVE  \/ job[q].kind = "response" /\ UpdatePump(q)
             \/ job[q].kind = "toggle" /\ (ToggleFind(q) \/ ToggleSave(q))
  <2>1. CASE Ends(r)
    <3>1. r = q
      BY <1>1, <2>1 DEF Ends, Finish
    <3>. QED
      BY <2>1, <3>1 DEF Ends
  <2>2. CASE \E k : Advance(r, k)
    BY <1>0, <2>2 DEF Advance, Become, SameRequest
  <2>3. ASSUME NEW p \in Request, ToggleSend(r, p) PROVE FALSE
    <3>1. PICK k, i : SentBy(r, p, k, i)
      BY <2>3, SendForms
    <3>2. p # q
      BY <1>0, <3>1 DEF SentBy
    <3>3. job'[q] = IF q = r THEN k ELSE job[q]
      BY <1>0, <3>1, <3>2 DEF SentBy
    <3>4. \A f \in {"kind", "of", "arg"} : k[f] = job[r][f]
      BY <3>1 DEF SentBy, Fields
    <3>. QED
      BY <3>3, <3>4 DEF SameRequest
  <2>. QED
    BY <1>3, <2>1, <2>2, <2>3, HandleMoves
<1>4. ASSUME NEW r \in Request, Reject(r) PROVE {job[q].kind, "failure"} \in met'
  <2>1. r = q
    BY <1>1, <1>4 DEF Reject, Finish
  <2>. QED
    BY <1>0, <1>4, <2>1 DEF Reject, Failed
<1>5. CASE AssignGateway \/ UNCHANGED vars
  BY <1>5 DEF AssignGateway, vars, SameRequest
<1>6. CASE Restart
  BY <1>0, <1>6 DEF Restart, Failed, Active
<1>7. CASE Tick
  <2>1. \A f \in {"kind", "of", "arg"} : job'[q][f] = job[q][f]
    BY <1>7, TickSame DEF Fields
  <2>. QED
    BY <2>1 DEF SameRequest
<1>. QED
  BY <1>2, <1>3, <1>4, <1>5, <1>6, <1>7 DEF Next

LEMMA MetGrows ==
  ASSUME Typed, TWatched, [Next]_vars PROVE met \subseteq met'
<1>1. CASE \E q : q \in Request
  BY <1>1, Continues
<1>2. CASE ~\E q : q \in Request
  BY <1>2 DEF Next, AssignGateway, Restart, Tick, vars
<1>. QED
  BY <1>1, <1>2

LEMMA MetStep ==
  ASSUME Typed, TWatched, TMet, [Next]_vars PROVE TMet'
<1>. SUFFICES ASSUME NEW p \in Request, NEW q \in Request, p # q,
                     job'[p].kind \in Watched, job'[q].kind \in Watched
              PROVE  {job'[p].kind, job'[q].kind} \in met'
  BY DEF TMet
<1>1. ASSUME NEW x \in {p, q}
      PROVE  SameRequest(x) \/ (job[x].pc = "idle" /\ Arrive(x) /\ \E k : Begins(x, k))
  <2>1. job'[x] # Idle /\ job'[x].kind # "command"
    BY DEF Idle, Watched
  <2>. QED
    BY <2>1, Continues
<1>2. met \subseteq met' /\ DOMAIN job = Request
  BY Continues DEF Typed, TJobs
<1>3. CASE SameRequest(p) /\ SameRequest(q)
  BY <1>2, <1>3 DEF TMet, SameRequest
<1>4. ASSUME NEW x \in {p, q}, NEW y \in {p, q}, x # y, NEW k, Begins(x, k)
      PROVE  {job'[p].kind, job'[q].kind} \in met'
  <2>1. job' = [job EXCEPT ![x] = k] /\ met' = met \cup Overlaps(k.kind)
    BY <1>4 DEF Begins, Start, Become
  <2>2. job'[x] = k /\ job'[y] = job[y]
    BY <1>2, <1>4, <2>1
  <2>3. y \in Active /\ job[y].kind \in Watched /\ k.kind \in Watched
    BY <2>2 DEF TWatched, WatchedJob, Watched, Active
  <2>4. {k.kind, job[y].kind} \in Overlaps(k.kind)
    BY <2>3 DEF Overlaps
  <2>5. {job'[p].kind, job'[q].kind} = {k.kind, job[y].kind}
    BY <1>4, <2>2
  <2>. QED
    BY <2>1, <2>4, <2>5
<1>. QED
  BY <1>1, <1>3, <1>4

LEMMA AskedStep ==
  ASSUME Typed, TAsked, [Next]_vars PROVE TAsked'
<1>1. CASE asked' = asked
  BY <1>1 DEF TAsked
<1>2. ASSUME NEW r \in Request, SaveDevice(r) PROVE TAsked'
  <2>1. CASE asked' = asked
    BY <2>1 DEF TAsked
  <2>2. CASE asked' # asked
    <3>. DEFINE d == job[r].of
                dto == job[r].arg
    <3>1. /\ asked' = [asked EXCEPT !.zone[d] = Given(@, dto.zone), !.pump[d] = Given(@, dto.pump)]
          /\ d \in Device /\ dto \in DeviceUpdate
      BY <1>2, <2>2 DEF SaveDevice, Typed, TJobs, JobType, HoldsAt, About
    <3>2. dto \in [zone : Zone \cup {None, Keep}, mode : Mode \cup {None, Keep}, pump : BOOLEAN \cup {Keep}]
      BY <3>1, ConstantsAssumption
    <3>3. Given(asked.zone[d], dto.zone) \in Zone \cup {None} /\ Given(asked.pump[d], dto.pump) \in BOOLEAN
      BY <3>1, <3>2 DEF Given, TAsked
    <3>. HIDE DEF d, dto
    <3>. QED
      BY <3>1, <3>3 DEF TAsked
  <2>. QED
    BY <2>1, <2>2
<1>3. ASSUME NEW r \in Request, SaveZone(r) PROVE TAsked'
  <2>. DEFINE z == job[r].of
              dto == job[r].arg
              row == [all |-> Given(asked.row[z].all, dto.all), mode |-> Given(asked.row[z].mode, dto.mode)]
  <2>1. z \in Zone /\ dto \in ZoneUpdate
    BY <1>3 DEF SaveZone, Typed, TJobs, JobType, About
  <2>2. dto \in [all : BOOLEAN \cup {Keep}, mode : Mode \cup {Keep}, pump : BOOLEAN \cup {Keep}]
    BY <2>1, ConstantsAssumption
  <2>3. row \in [all : BOOLEAN, mode : Mode] /\ Given(asked.pump[z], dto.pump) \in BOOLEAN
    BY <2>1, <2>2 DEF Given, TAsked
  <2>4. asked' = [asked EXCEPT !.row[z] = row, !.pump[z] = Given(@, dto.pump)]
    BY <1>3 DEF SaveZone
  <2>. HIDE DEF z, dto, row
  <2>. QED
    BY <2>1, <2>3, <2>4 DEF TAsked
<1>5. ASSUME NEW r \in Request, SetMode(r) PROVE TAsked'
  <2>1. asked' = asked \/ asked' = [asked EXCEPT !.row[job[r].of].mode = job[r].arg]
    BY <1>5 DEF SetMode
  <2>2. job[r].arg \in Mode
    BY <1>5 DEF SetMode, Typed, TJobs, JobType, HoldsAt, About
  <2>. QED
    BY <2>1, <2>2 DEF TAsked
<1>4. ASSUME NEW r \in Request, Arrive(r) PROVE TAsked'
  <2>1. PICK k : Begins(r, k)
    BY <1>4, ArriveBegins
  <2>2. CASE asked' = asked
    BY <2>2 DEF TAsked
  <2>3. CASE asked' = [asked EXCEPT !.pump[k.of] = k.arg = "PUMP_ON"]
    <3>1. PICK on \in BOOLEAN : on = (k.arg = "PUMP_ON")
      OBVIOUS
    <3>2. asked' = [asked EXCEPT !.pump[k.of] = on]
      BY <2>3, <3>1
    <3>. QED
      BY <3>2 DEF TAsked
  <2>. QED
    BY <2>1, <2>2, <2>3 DEF Begins
<1>. QED
  BY <1>1, <1>2, <1>3, <1>4, <1>5, Columns

LEMMA WatchingInit == Init => Watching
<1>. SUFFICES ASSUME Init PROVE Watching
  OBVIOUS
<1>1. Typed
  BY TypedInit
<1>2. \A r \in Request : job[r] = Idle
  BY DEF Init
<1>3. TWatched /\ TMet
  BY <1>2 DEF TWatched, TMet, WatchedJob, Idle, Watched
<1>4. TAsked
  <2>1. asked = [pump |-> [x \in Device \cup Zone |->
                             IF x \in Device THEN devices[x].pump ELSE zones[x].pump],
                 row |-> [z \in Zone |-> [all |-> zones[z].all, mode |-> zones[z].mode]],
                 zone |-> [d \in Device |-> devices[d].zone]]
    BY DEF Init
  <2>2. /\ \A d \in Device : devices[d].pump \in BOOLEAN /\ devices[d].zone \in Zone \cup {None}
        /\ \A z \in Zone : zones[z].pump \in BOOLEAN /\ zones[z].all \in BOOLEAN /\ zones[z].mode \in Mode
    BY <1>1 DEF Typed, TTables, DeviceRow, ZoneRow
  <2>. QED
    BY <2>1, <2>2 DEF TAsked
<1>. QED
  BY <1>1, <1>3, <1>4 DEF Watching

LEMMA WatchingStep == Watching /\ [Next]_vars => Watching'
<1>. SUFFICES ASSUME Watching, [Next]_vars PROVE Watching'
  OBVIOUS
<1>1. TWatched'
  BY Continues DEF Watching, TWatched
<1>. QED
  BY <1>1, TypedStep, MetStep, AskedStep DEF Watching

-----------------------------------------------------------------------------
(* Requests that find a device and save it. *)

\* A request holds what it held.
SameHeld(q) ==
  /\ SameRequest(q)
  /\ \A f \in {"pc", "held", "loaded", "members"} : job'[q][f] = job[q][f]
  /\ job[q].pc = "save" => job'[q].left = job[q].left

LEMMA KindsGiven ==
  ASSUME NEW j, JobType(j), j.kind \in Edits
  PROVE  /\ j.kind \in Moves <=> j.arg.zone # Keep
         /\ j.kind \in Switches <=> j.arg.pump # Keep
BY DEF JobType, About, DeviceKind, Moves, Switches

\* Two requests of kinds that must not overlap are not both in flight.
LEMMA Overlapped ==
  ASSUME TMet, NEW K, NEW L, ~Met(K, L), NEW p \in Request, NEW q \in Request, p # q,
         job[p].kind \in K \cap Watched, job[q].kind \in L \cap Watched
  PROVE  FALSE
BY DEF TMet, Met

LEMMA OverlappedNext ==
  ASSUME TMet', NEW K, NEW L, ~Met(K, L)', NEW p \in Request, NEW q \in Request, p # q,
         job'[p].kind \in K \cap Watched, job'[q].kind \in L \cap Watched
  PROVE  FALSE
BY DEF TMet, Met

\* Between the steps of a request what it holds stays.
LEMMA DeviceHolding ==
  ASSUME Typed, TWatched, [Next]_vars, NEW q \in Request
  PROVE  \/ SameHeld(q)
         \/ job'[q].pc \notin {"load_device", "save_device"}
         \/ PreloadDevice(q) \/ LoadDevice(q)
<1>0. /\ DOMAIN job = Request /\ JobType(job[q]) /\ WatchedJob(job[q]) /\ DOMAIN job[q] = Fields
      /\ job'[q].pc \in {"load_device", "save_device"} => job'[q].kind \in Edits
  BY TypedStep DEF Typed, TJobs, JobType, HoldsAt, TWatched
<1>1. job'[q] = job[q] => SameHeld(q)
  BY DEF SameHeld, SameRequest
<1>2. ASSUME NEW r \in Request, NEW k, Become(r, k), r # q PROVE SameHeld(q)
  BY <1>0, <1>1, <1>2 DEF Become
<1>3. job'[q] = Idle => job'[q].pc \notin {"load_device", "save_device"}
  BY DEF Idle
<1>4. ASSUME NEW r \in Request, Finish(r)
      PROVE  SameHeld(q) \/ job'[q].pc \notin {"load_device", "save_device"}
  BY <1>0, <1>2, <1>3, <1>4 DEF Finish, Become
<1>5. ASSUME NEW r \in Request, Arrive(r)
      PROVE  SameHeld(q) \/ job'[q].pc \notin {"load_device", "save_device"}
  <2>1. PICK k : Begins(r, k)
    BY <1>5, ArriveBegins
  <2>2. Become(r, k)
    BY <2>1 DEF Begins, Start
  <2>3. CASE r = q
    <3>1. job'[q] = k
      BY <1>0, <2>2, <2>3 DEF Become
    <3>2. k.kind \in Edits => k.pc = "preload_device"
      BY <2>1 DEF Begins, Edits, Moves, Switches
    <3>. QED
      BY <1>0, <3>1, <3>2
  <2>. QED
    BY <1>2, <2>2, <2>3
<1>6. ASSUME NEW r \in Request, NEW p \in Request, ToggleSend(r, p)
      PROVE  SameHeld(q) \/ job'[q].pc \notin {"load_device", "save_device"}
  <2>1. PICK k, i : SentBy(r, p, k, i)
    BY <1>6, SendForms
  <2>2. CASE q = p
    <3>1. job'[q].kind = "command"
      BY <1>0, <2>1, <2>2 DEF SentBy
    <3>. QED
      BY <1>0, <3>1 DEF Edits, Moves, Switches
  <2>3. CASE q # p
    <3>1. job'[q] = IF q = r THEN k ELSE job[q]
      BY <1>0, <2>1, <2>3 DEF SentBy
    <3>2. \A f \in {"kind", "of", "arg", "pc", "held", "loaded", "members"} : k[f] = job[r][f]
      BY <2>1 DEF SentBy, Fields
    <3>3. job[r].pc # "save"
      BY <2>1 DEF SentBy
    <3>. QED
      BY <1>1, <3>1, <3>2, <3>3 DEF SameHeld, SameRequest
  <2>. QED
    BY <2>2, <2>3
<1>7. ASSUME NEW r \in Request, r # q, Handle(r)
      PROVE  SameHeld(q) \/ job'[q].pc \notin {"load_device", "save_device"}
  BY <1>2, <1>4, <1>6, <1>7, HandleMoves DEF Ends, Advance
<1>8. ASSUME Handle(q)
      PROVE  \/ SameHeld(q)
             \/ job'[q].pc \notin {"load_device", "save_device"}
             \/ PreloadDevice(q) \/ LoadDevice(q)
  <2>1. CASE Ends(q)
    BY <1>4, <2>1 DEF Ends
  <2>2. CASE \E k : Advance(q, k)
    <3>1. SUFFICES ASSUME job[q].kind \in Edits PROVE PreloadDevice(q) \/ LoadDevice(q) \/ Finish(q)
      BY <1>0, <1>4, <2>2 DEF Advance, Become
    <3>2. ~(Load(q) \/ LoadRules(q) \/ Fill(q))
      BY <1>0, <3>1 DEF Load, LoadRules, Fill, JobType, KeyedAt, Keyed, Edits, Moves, Switches
    <3>3. ~(UpdateMode(q) \/ SetMode(q) \/ ToggleFind(q) \/ ToggleLoad(q) \/ Preload(q) \/ LoadZone(q)
            \/ SaveZone(q) \/ RemoveFind(q) \/ WriteRules(q) \/ \E p \in Request : ToggleSend(q, p))
      BY <1>0, <3>1 DEF UpdateMode, SetMode, ToggleFind, ToggleLoad, Preload, LoadZone, SaveZone,
           RemoveFind, WriteRules, ToggleSend, JobType, HoldsAt, Edits, Moves, Switches
    <3>. QED
      BY <1>8, <3>2, <3>3 DEF Handle, Publish, UpdatePump, Answer, Evaluate, ToggleSave, SaveDevice,
           Remove, Invalidate
  <2>. QED
    BY <1>6, <1>8, <2>1, <2>2, HandleMoves
<1>9. ASSUME NEW r \in Request, Reject(r)
      PROVE  SameHeld(q) \/ job'[q].pc \notin {"load_device", "save_device"}
  BY <1>4, <1>9 DEF Reject
<1>10. CASE AssignGateway \/ UNCHANGED vars
  BY <1>1, <1>10 DEF AssignGateway, vars
<1>11. CASE Restart
  BY <1>3, <1>11 DEF Restart
<1>12. CASE Tick
  <2>1. \A f \in {"pc", "kind", "of", "arg", "held", "loaded", "members", "left"} : job'[q][f] = job[q][f]
    BY <1>12, TickSame DEF Fields
  <2>. QED
    BY <2>1 DEF SameHeld, SameRequest
<1>. QED
  BY <1>5, <1>7, <1>8, <1>9, <1>10, <1>11, <1>12 DEF Next

\* What a request holds once it has found the device, and once it has loaded it.
LEMMA Preloads ==
  ASSUME Typed, NEW q \in Request, PreloadDevice(q)
  PROVE  /\ job'[q].pc = "load_device" /\ job'[q].of = job[q].of /\ job'[q].arg = job[q].arg
         /\ job'[q].held.zone = Given(devices[job[q].of].zone, job[q].arg.zone)
         /\ job'[q].held.pump = Given(devices[job[q].of].pump, job[q].arg.pump)
<1>. DEFINE j == job[q]
            new == [devices[j.of] EXCEPT !.zone = Given(@, j.arg.zone), !.mode = Given(@, j.arg.mode),
                                         !.pump = Given(@, j.arg.pump)]
            k == [j EXCEPT !.pc = "load_device", !.held = new]
<1>1. /\ DOMAIN j = Fields /\ DOMAIN job = Request /\ j.of \in Device /\ j.arg \in DeviceUpdate
      /\ devices[j.of] \in DeviceRow
  BY DEF PreloadDevice, Typed, TJobs, TTables, JobType, HoldsAt, About
<1>2. job'[q] = k
  BY <1>1 DEF PreloadDevice, Become
<1>3. k.pc = "load_device" /\ k.of = j.of /\ k.arg = j.arg /\ k.held = new
  BY <1>1 DEF Fields
<1>4. new.zone = Given(devices[j.of].zone, j.arg.zone) /\ new.pump = Given(devices[j.of].pump, j.arg.pump)
  BY <1>1, GivenType
<1>. QED
  BY <1>2, <1>3, <1>4

LEMMA Loads ==
  ASSUME Typed, NEW q \in Request, LoadDevice(q)
  PROVE  /\ job[q].pc = "load_device" /\ job'[q].pc = "save_device"
         /\ job'[q].of = job[q].of /\ job'[q].arg = job[q].arg /\ job'[q].held = job[q].held
         /\ job'[q].loaded = devices[job[q].of] /\ UNCHANGED <<devices, zones>>
         /\ \A c \in {"zone", "pump"} :
              ~Met({c}, {"stale"})' /\ job[q].arg[c] = Keep => job[q].held[c] = devices[job[q].of][c]
<1>. DEFINE j == job[q]
            k == [j EXCEPT !.pc = "save_device", !.loaded = devices[j.of]]
<1>1. DOMAIN j = Fields /\ DOMAIN job = Request
  BY DEF Typed, TJobs, JobType
<1>2. job'[q] = k /\ UNCHANGED <<devices, zones>> /\ j.pc = "load_device"
      /\ met' = met \cup {{c, "stale"} : c \in Stale(j, devices[j.of])}
  BY <1>1 DEF LoadDevice, Become, tables
<1>3. /\ k.pc = "save_device" /\ k.of = j.of /\ k.arg = j.arg /\ k.held = j.held
      /\ k.loaded = devices[j.of]
  BY <1>1 DEF Fields
<1>4. ASSUME NEW c \in {"zone", "pump"}, j.arg[c] = Keep, j.held[c] # devices[j.of][c]
      PROVE  Met({c}, {"stale"})'
  <2>1. {c, "stale"} \in met'
    BY <1>2, <1>4 DEF Stale
  <2>. QED
    BY <2>1 DEF Met
<1>. QED
  BY <1>2, <1>3, <1>4

\* What is written when a device is saved.
Saves(r, d, row) ==
  /\ job[r].of = d /\ job' = [job EXCEPT ![r] = Idle] /\ zones' = zones
  /\ \/ UNCHANGED <<devices, asked>>
     \/ /\ devices' = [devices EXCEPT ![d] = row]
        /\ \A c \in {"zone", "pump"} :
             row[c] = IF job[r].held[c] # job[r].loaded[c] THEN job[r].held[c] ELSE devices[d][c]
        /\ asked'.row = asked.row
        /\ \A x \in Device \cup Zone :
             asked'.pump[x] = IF x = d THEN Given(asked.pump[d], job[r].arg.pump) ELSE asked.pump[x]
        /\ \A e \in Device :
             asked'.zone[e] = IF e = d THEN Given(asked.zone[d], job[r].arg.zone) ELSE asked.zone[e]

LEMMA SaveForm ==
  ASSUME Typed, TAsked, NEW r \in Request, SaveDevice(r)
  PROVE  /\ job[r].pc = "save_device" /\ job[r].kind \in Edits
         /\ \E d \in Device, row \in DeviceRow : Saves(r, d, row)
<1>1. PICK d, row : d = job[r].of /\ row = Changed(devices[d], job[r].held, job[r].loaded)
  OBVIOUS
<1>2. /\ job[r].pc = "save_device" /\ job[r].kind \in Edits /\ d \in Device
      /\ job[r].held \in DeviceRow /\ job[r].loaded \in DeviceRow /\ devices \in [Device -> DeviceRow]
  BY <1>1 DEF SaveDevice, Typed, TJobs, TTables, JobType, HoldsAt, About
<1>3. /\ row \in DeviceRow
      /\ \A c \in {"zone", "pump"} :
           row[c] = IF job[r].held[c] # job[r].loaded[c] THEN job[r].held[c] ELSE devices[d][c]
  BY <1>1, <1>2, ChangedType
<1>4. job' = [job EXCEPT ![r] = Idle]
  BY DEF SaveDevice, Finish, Become
<1>5. \/ UNCHANGED <<devices, zones, asked>>
      \/ /\ devices' = [devices EXCEPT ![d] = row] /\ zones' = zones
         /\ asked' = [asked EXCEPT !.zone[d] = Given(@, job[r].arg.zone), !.pump[d] = Given(@, job[r].arg.pump)]
  BY <1>1 DEF SaveDevice, Unannounced, Write, tables
<1>6. ASSUME asked' = [asked EXCEPT !.zone[d] = Given(@, job[r].arg.zone), !.pump[d] = Given(@, job[r].arg.pump)]
      PROVE  /\ asked'.row = asked.row
             /\ \A x \in Device \cup Zone :
                  asked'.pump[x] = IF x = d THEN Given(asked.pump[d], job[r].arg.pump) ELSE asked.pump[x]
             /\ \A e \in Device :
                  asked'.zone[e] = IF e = d THEN Given(asked.zone[d], job[r].arg.zone) ELSE asked.zone[e]
  <2>1. PICK z, on : z = Given(asked.zone[d], job[r].arg.zone) /\ on = Given(asked.pump[d], job[r].arg.pump)
    OBVIOUS
  <2>2. asked' = [asked EXCEPT !.zone[d] = z, !.pump[d] = on]
    BY <1>6, <2>1
  <2>3. asked'.row = asked.row /\ asked'.pump = [asked.pump EXCEPT ![d] = on]
        /\ asked'.zone = [asked.zone EXCEPT ![d] = z]
    BY <2>2 DEF TAsked
  <2>. QED
    BY <1>2, <2>1, <2>3 DEF TAsked
<1>7. Saves(r, d, row)
  BY <1>1, <1>3, <1>4, <1>5, <1>6 DEF Saves
<1>. QED
  BY <1>2, <1>3, <1>7

-----------------------------------------------------------------------------
(* Responses of devices. *)

Undisturbed ==
  /\ ~Met({"response"}, {"response", "failure"} \cup Switches) /\ ~Met(Switches, Switches)
  /\ ~Met({"pump"}, {"stale"})

\* A save will write the pumpEnabled it was given, or leave the column alone.
PumpHeld(j) ==
  j.pc \in {"load_device", "save_device"} =>
    /\ j.arg.pump # Keep => j.held.pump = j.arg.pump
    /\ j.pc = "save_device" =>
         IF j.arg.pump = Keep THEN j.held.pump = j.loaded.pump
         ELSE j.held.pump = j.loaded.pump => devices[j.of].pump = j.held.pump

LEMMA PumpHeldStep ==
  ASSUME Typed, TWatched, [Next]_vars, NEW q \in Request, PumpHeld(job[q]), ~Met({"pump"}, {"stale"})',
         job[q].kind \in Switches => devices'[job[q].of].pump = devices[job[q].of].pump
  PROVE  PumpHeld(job[q])'
<1>1. CASE SameHeld(q)
  <2>. SUFFICES ASSUME job[q].pc \in {"load_device", "save_device"} PROVE PumpHeld(job[q])'
    BY <1>1 DEF SameHeld, PumpHeld
  <2>1. JobType(job[q]) /\ job[q].kind \in Edits
    BY DEF Typed, TJobs, JobType, HoldsAt
  <2>2. job[q].arg.pump # Keep => devices'[job[q].of].pump = devices[job[q].of].pump
    BY <2>1, KindsGiven
  <2>. QED
    BY <1>1, <2>2 DEF SameHeld, SameRequest, PumpHeld
<1>2. CASE job'[q].pc \notin {"load_device", "save_device"}
  BY <1>2 DEF PumpHeld
<1>3. CASE PreloadDevice(q)
  BY <1>3, Preloads DEF PumpHeld, Given
<1>4. CASE LoadDevice(q)
  <2>1. \/ job[q].arg.pump = Keep /\ job[q].held.pump = devices[job[q].of].pump
        \/ job[q].arg.pump # Keep
    BY <1>4, Loads
  <2>. QED
    BY <1>4, <2>1, Loads DEF PumpHeld
<1>. QED
  BY <1>1, <1>2, <1>3, <1>4, DeviceHolding

\* The column is what the last response or update says, or a response is on its way.
Reported ==
  /\ \A d \in Device :
       \/ devices[d].pump = asked.pump[d]
       \/ \E r \in Request : job[r].kind = "response" /\ job[r].of = d
  /\ \A r \in Request :
       job[r].kind = "response" => asked.pump[job[r].of] = (job[r].arg = "PUMP_ON")
  /\ \A r \in Request : PumpHeld(job[r])

ReportedInv == Undisturbed => Reported

LEMMA ReportedStep == Watching /\ ReportedInv /\ [Next]_vars => ReportedInv'
<1>. SUFFICES ASSUME Watching, ReportedInv, [Next]_vars, Undisturbed' PROVE Reported'
  BY DEF ReportedInv
<1>0. Typed /\ TWatched /\ TMet /\ TAsked /\ DOMAIN job = Request
  BY DEF Watching, Typed, TJobs
<1>1. Undisturbed /\ Reported
  <2>1. met \subseteq met'
    BY <1>0, MetGrows
  <2>. QED
    BY <2>1 DEF ReportedInv, Undisturbed, Met
<1>2. ASSUME NEW d \in Device PROVE d \notin Zone
  BY ConstantsAssumption
<1>9. ASSUME NEW q \in Request, job[q].kind \in Switches => devices'[job[q].of].pump = devices[job[q].of].pump
      PROVE  PumpHeld(job[q])'
  BY <1>0, <1>1, <1>9, PumpHeldStep DEF Undisturbed, Reported
<1>3. ASSUME \A d \in Device : devices'[d].pump = devices[d].pump /\ asked'.pump[d] = asked.pump[d],
             \A q \in Request : job[q].kind = "response" \/ job'[q].kind = "response" => SameRequest(q)
      PROVE  Reported'
  <2>1. ASSUME NEW q \in Request, job'[q].kind = "response"
        PROVE  asked'.pump[job'[q].of] = (job'[q].arg = "PUMP_ON")
    <3>1. SameRequest(q) /\ job[q].kind = "response"
      BY <1>3, <2>1 DEF SameRequest
    <3>2. job[q].of \in Device
      BY <1>0, <3>1 DEF TWatched, WatchedJob
    <3>. QED
      BY <1>1, <1>3, <3>1, <3>2 DEF Reported, SameRequest
  <2>2. ASSUME NEW d \in Device
        PROVE  \/ devices'[d].pump = asked'.pump[d]
               \/ \E r \in Request : job'[r].kind = "response" /\ job'[r].of = d
    BY <1>1, <1>3 DEF Reported, SameRequest
  <2>3. ASSUME NEW q \in Request PROVE PumpHeld(job[q])'
    <3>1. job[q].kind \in Switches => job[q].of \in Device
      BY <1>0 DEF Typed, TJobs, JobType, About, Switches, Edits
    <3>. QED
      BY <1>3, <1>9, <3>1
  <2>. QED
    BY <2>1, <2>2, <2>3 DEF Reported
<1>4. ASSUME NEW q \in Request, job[q].kind = "response", ~SameRequest(q) PROVE UpdatePump(q)
  <2>1. {"response", "failure"} \notin met'
    BY DEF Undisturbed, Met
  <2>. QED
    BY <1>0, <1>4, <2>1, Ended
<1>5. ASSUME NEW q \in Request, job[q].kind # "response", job'[q].kind = "response"
      PROVE  Arrive(q) /\ \E k : Begins(q, k)
  BY <1>0, <1>5, Continues DEF SameRequest, Idle
<1>6. ASSUME NEW r \in Request, UpdatePump(r) PROVE Reported'
  <2>1. /\ job' = [job EXCEPT ![r] = Idle] /\ asked' = asked /\ job[r].kind = "response"
        /\ devices' = [devices EXCEPT ![job[r].of].pump = job[r].arg = "PUMP_ON"]
    BY <1>6 DEF UpdatePump, Finish, Become, Write
  <2>2. ASSUME NEW q \in Request, job'[q].kind = "response" PROVE q # r /\ job'[q] = job[q]
    BY <1>0, <2>1, <2>2 DEF Idle
  <2>3. ASSUME NEW d \in Device, d = job[r].of PROVE devices'[d].pump = asked'.pump[d]
    <3>1. devices[d] \in DeviceRow /\ DOMAIN devices = Device
      BY <1>0 DEF Typed, TTables
    <3>2. devices'[d].pump = (job[r].arg = "PUMP_ON")
      BY <2>1, <2>3, <3>1 DEF DeviceRow
    <3>. QED
      BY <1>1, <2>1, <2>3, <3>2 DEF Reported
  <2>4. ASSUME NEW d \in Device, d # job[r].of
        PROVE  \/ devices'[d].pump = asked'.pump[d]
               \/ \E q \in Request : job'[q].kind = "response" /\ job'[q].of = d
    <3>1. devices'[d] = devices[d]
      BY <1>0, <2>1, <2>4 DEF Typed, TTables
    <3>2. CASE devices[d].pump = asked.pump[d]
      BY <2>1, <3>1, <3>2
    <3>3. CASE \E q \in Request : job[q].kind = "response" /\ job[q].of = d
      <4>1. PICK q \in Request : job[q].kind = "response" /\ job[q].of = d
        BY <3>3
      <4>2. job'[q] = job[q]
        BY <1>0, <2>1, <2>4, <4>1
      <4>. QED
        BY <4>1, <4>2
    <3>. QED
      BY <1>1, <3>2, <3>3 DEF Reported
  <2>5. ASSUME NEW q \in Request PROVE PumpHeld(job[q])'
    <3>1. job[q].kind \notin Switches
      BY <1>0, <1>1, <2>1, Overlapped DEF Undisturbed, Switches, Watched
    <3>. QED
      BY <1>9, <3>1
  <2>. QED
    BY <1>1, <2>1, <2>2, <2>3, <2>4, <2>5 DEF Reported
<1>7. ASSUME NEW r \in Request, NEW k, Begins(r, k), k.kind = "response" PROVE Reported'
  <2>1. /\ job' = [job EXCEPT ![r] = k] /\ UNCHANGED devices
        /\ asked' = [asked EXCEPT !.pump[k.of] = k.arg = "PUMP_ON"] /\ k.of \in Device
    BY <1>7 DEF Begins, Start, Become, tables, WatchedJob, Watched, Edits, Moves, Switches
  <2>2. ASSUME NEW q \in Request, q # r PROVE job'[q].kind # "response"
    <3>1. (Typed /\ TWatched /\ TMet)'
      BY WatchingStep DEF Watching
    <3>2. {"response", "response"} \notin met'
      BY DEF Undisturbed, Met
    <3>3. job'[r].kind = "response"
      BY <1>0, <1>7, <2>1
    <3>. QED
      BY <2>2, <3>1, <3>2, <3>3 DEF TMet, Watched
  <2>3. job'[r] = k
    BY <1>0, <2>1
  <2>4. ASSUME NEW d \in Device, d # k.of PROVE devices'[d].pump = asked'.pump[d]
    <3>1. \A q \in Request : job[q].kind = "response" => FALSE
      <4>1. job[r].kind # "response"
        BY <1>0, <1>7 DEF Begins, Start, TWatched, WatchedJob
      <4>. QED
        BY <1>0, <2>1, <2>2, <4>1
    <3>2. devices[d].pump = asked.pump[d]
      BY <1>1, <3>1 DEF Reported
    <3>3. asked'.pump[d] = asked.pump[d]
      BY <1>0, <2>1, <2>4 DEF TAsked
    <3>. QED
      BY <2>1, <3>2, <3>3
  <2>5. asked'.pump[k.of] = (k.arg = "PUMP_ON")
    BY <1>0, <2>1 DEF TAsked
  <2>6. \A q \in Request : PumpHeld(job[q])'
    BY <1>9, <2>1
  <2>. QED
    BY <1>7, <2>2, <2>3, <2>4, <2>5, <2>6 DEF Reported
<1>10. ASSUME NEW r \in Request, SaveDevice(r) PROVE Reported'
  <2>1. PICK d \in Device, row \in DeviceRow : Saves(r, d, row) /\ job[r].pc = "save_device"
                                            /\ job[r].kind \in Edits
    BY <1>0, <1>10, SaveForm
  <2>2. /\ job[r].of = d /\ devices \in [Device -> DeviceRow] /\ JobType(job[r]) /\ PumpHeld(job[r])
        /\ job' = [job EXCEPT ![r] = Idle]
    BY <1>0, <1>1, <2>1 DEF Saves, Typed, TTables, TJobs, Reported
  <2>3. \A q \in Request : job[q].kind = "response" \/ job'[q].kind = "response" => SameRequest(q)
    BY <1>0, <2>1, <2>2 DEF Idle, SameRequest, Edits, Moves, Switches
  <2>4. CASE /\ \A e \in Device : devices'[e].pump = devices[e].pump
             /\ \A e \in Device : asked'.pump[e] = asked.pump[e]
    BY <1>3, <2>3, <2>4
  <2>5. CASE UNCHANGED <<devices, asked>>
    BY <2>4, <2>5
  <2>6. CASE job[r].arg.pump = Keep /\ devices' = [devices EXCEPT ![d] = row] /\ ~UNCHANGED <<devices, asked>>
    <3>1. row.pump = devices[d].pump
      BY <2>1, <2>2, <2>6 DEF Saves, PumpHeld
    <3>2. \A e \in Device : devices'[e].pump = devices[e].pump
      BY <2>2, <2>6, <3>1
    <3>3. \A e \in Device : asked'.pump[e] = asked.pump[e]
      BY <2>1, <2>6 DEF Saves, Given
    <3>. QED
      BY <2>4, <3>2, <3>3
  <2>7. CASE job[r].arg.pump # Keep /\ devices' = [devices EXCEPT ![d] = row] /\ ~UNCHANGED <<devices, asked>>
    <3>1. job[r].kind \in Switches
      BY <2>1, <2>2, <2>7, KindsGiven
    <3>2. ASSUME NEW q \in Request, q # r PROVE job[q].kind \notin Switches \cup {"response"}
      <4>1. job[q].kind # "response"
        BY <1>0, <1>1, <3>1, <3>2, Overlapped DEF Undisturbed, Switches, Watched
      <4>2. job[q].kind \notin Switches
        BY <1>0, <1>1, <3>1, <3>2, Overlapped DEF Undisturbed, Switches, Watched
      <4>. QED
        BY <4>1, <4>2
    <3>3. row.pump = job[r].arg.pump
      BY <2>1, <2>2, <2>7 DEF Saves, PumpHeld
    <3>4. ASSUME NEW e \in Device PROVE devices'[e].pump = asked'.pump[e]
      <4>1. devices[e].pump = asked.pump[e]
        BY <2>1, <3>2, <1>1 DEF Reported, Edits, Moves, Switches
      <4>2. asked'.pump[e] = IF e = d THEN job[r].arg.pump ELSE asked.pump[e]
        BY <2>1, <2>7 DEF Saves, Given
      <4>3. devices'[e] = IF e = d THEN row ELSE devices[e]
        BY <2>2, <2>7
      <4>. QED
        BY <3>3, <4>1, <4>2, <4>3
    <3>5. ASSUME NEW q \in Request PROVE job'[q].kind # "response" /\ PumpHeld(job[q])'
      <4>1. CASE q = r
        BY <1>0, <2>2, <4>1 DEF Idle, PumpHeld
      <4>2. CASE q # r
        BY <1>0, <1>9, <2>2, <3>2, <4>2
      <4>. QED
        BY <4>1, <4>2
    <3>. QED
      BY <3>4, <3>5 DEF Reported
  <2>. QED
    BY <2>1, <2>5, <2>6, <2>7 DEF Saves
<1>8. CASE /\ ~\E r \in Request : UpdatePump(r) \/ SaveDevice(r)
           /\ ~\E r \in Request : \E k : Begins(r, k) /\ k.kind = "response"
  <2>1. \A d \in Device : devices'[d].pump = devices[d].pump
    BY <1>0, <1>8, Columns
  <2>2. \A d \in Device : asked'.pump[d] = asked.pump[d]
    <3>1. ASSUME NEW r \in Request, SetMode(r) PROVE asked'.pump = asked.pump
      <4>1. asked' = asked \/ asked' = [asked EXCEPT !.row[job[r].of].mode = job[r].arg]
        BY <3>1 DEF SetMode
      <4>. QED
        BY <1>0, <4>1 DEF TAsked
    <3>2. ASSUME NEW r \in Request, SaveZone(r), NEW d \in Device PROVE asked'.pump[d] = asked.pump[d]
      <4>1. PICK row : asked' = [asked EXCEPT !.row[job[r].of] = row,
                                              !.pump[job[r].of] = Given(@, job[r].arg.pump)]
        BY <3>2 DEF SaveZone
      <4>2. job[r].of # d
        BY <1>0, <1>2, <3>2 DEF SaveZone, Typed, TJobs, JobType, About
      <4>. QED
        BY <1>0, <4>1, <4>2 DEF TAsked
    <3>3. ASSUME NEW r \in Request, Arrive(r), NEW d \in Device PROVE asked'.pump[d] = asked.pump[d]
      <4>1. PICK k : Begins(r, k)
        BY <3>3, ArriveBegins
      <4>2. k.kind # "response"
        BY <1>8, <4>1
      <4>3. CASE asked' = asked
        BY <4>3
      <4>4. CASE k.of \in Zone /\ asked' = [asked EXCEPT !.pump[k.of] = k.arg = "PUMP_ON"]
        <5>1. d # k.of
          BY <1>2, <4>4
        <5>. QED
          BY <1>0, <4>4, <5>1 DEF TAsked
      <4>. QED
        BY <4>1, <4>2, <4>3, <4>4 DEF Begins
    <3>. QED
      BY <1>0, <1>8, <3>1, <3>2, <3>3, Columns
  <2>3. ASSUME NEW q \in Request, job[q].kind = "response" \/ job'[q].kind = "response"
        PROVE  SameRequest(q)
    <3>1. CASE job[q].kind = "response"
      BY <1>4, <1>8, <3>1
    <3>2. CASE job[q].kind # "response"
      <4>1. PICK k : Begins(q, k)
        BY <1>5, <2>3, <3>2
      <4>2. job'[q] = k
        BY <1>0, <4>1 DEF Begins, Start, Become
      <4>. QED
        BY <1>8, <2>3, <3>2, <4>1, <4>2
    <3>. QED
      BY <3>1, <3>2
  <2>. QED
    BY <1>3, <2>1, <2>2, <2>3
<1>. QED
  BY <1>6, <1>7, <1>8, <1>10

\* The column pumpEnabled of a device is what its last response or update says,
\* for any number of devices and requests, although other updates of the device
\* find, load and save its row meanwhile, unless two requests that set the column
\* overlapped, a response failed, or a save wrote it as it was found before a
\* change.
THEOREM ResponsesAreReported == Spec => []PumpFeedback
<1>1. Init => Watching /\ ReportedInv
  <2> SUFFICES ASSUME Init PROVE Watching /\ Reported
    BY DEF ReportedInv
  <2>1. Watching
    BY WatchingInit
  <2>2. \A d \in Device : devices[d].pump = asked.pump[d]
    BY DEF Init
  <2>3. \A r \in Request : job[r].kind = "none"
    BY DEF Init, Idle
  <2>4. \A r \in Request : PumpHeld(job[r])
    BY DEF Init, Idle, PumpHeld
  <2>. QED
    BY <2>1, <2>2, <2>3, <2>4 DEF Reported
<1>2. Watching /\ ReportedInv /\ [Next]_vars => (Watching /\ ReportedInv)'
  BY WatchingStep, ReportedStep
<1>3. ReportedInv => PumpFeedback
  BY DEF ReportedInv, Undisturbed, Reported, PumpFeedback
<1>. QED
  BY <1>1, <1>2, <1>3, PTL DEF Spec

-----------------------------------------------------------------------------
(* Zones. *)

Alone ==
  /\ ~Met({"toggle"}, {"toggle", "update", "remove", "schedule", "failure"} \cup Moves)
  /\ ~Met({"update"}, {"update", "remove", "schedule"}) /\ ~Met(Moves, Moves)
  /\ ~Met({"zone"}, {"stale"})

Switched(row, on) == [row EXCEPT !.pump = on]
Edited(row, dto) ==
  [row EXCEPT !.all = Given(@, dto.all), !.mode = Given(@, dto.mode), !.pump = Given(@, dto.pump)]

\* What a toggle or an update holds is still in the tables.
StillHolds(j) ==
  /\ j.kind = "toggle" => asked.pump[j.of] = (j.arg = "PUMP_ON")
  /\ j.kind = "toggle" /\ j.pc \in {"wait", "save"} => zones[j.of].there /\ j.members = Members(j.of)
  /\ j.kind = "toggle" /\ j.pc = "wait" => j.held = zones[j.of]
  /\ j.kind = "toggle" /\ j.pc = "save" =>
       j.loaded = zones[j.of] /\ j.left = j.members
       /\ j.held = Switched(zones[j.of], j.arg = "PUMP_ON")
  /\ j.kind = "update" /\ j.pc \in {"load_zone", "save"} =>
       zones[j.of].there /\ j.held = Edited(zones[j.of], j.arg)
  /\ j.kind = "update" /\ j.pc = "save" => j.loaded = zones[j.of]

RowKept(z) ==
  zones[z].there =>
    /\ [all |-> zones[z].all, mode |-> zones[z].mode] = asked.row[z]
    /\ \/ zones[z].pump = asked.pump[z]
       \/ \E r \in Request : job[r].kind = "toggle" /\ job[r].of = z

PlaceKept(d) ==
  asked.zone[d] # None /\ zones[asked.zone[d]].there => devices[d].zone = asked.zone[d]

Kept ==
  /\ \A z \in Zone : RowKept(z)
  /\ \A d \in Device : PlaceKept(d)
  /\ \A r \in Request : StillHolds(job[r])

\* A save will write the zone it was given, or leave the column alone.
ZoneHeld(j) ==
  j.pc \in {"load_device", "save_device"} =>
    /\ j.arg.zone # Keep => j.held.zone = j.arg.zone
    /\ j.pc = "save_device" =>
         IF j.arg.zone = Keep THEN j.held.zone = j.loaded.zone
         ELSE j.held.zone = j.loaded.zone /\ j.held.zone # None /\ zones[j.held.zone].there =>
                devices[j.of].zone = j.held.zone

Placed == \A r \in Request : ZoneHeld(job[r])

KeptInv == Alone => Kept /\ Placed

Editor == {"toggle", "update"}

\* Beside a toggle or an update there is no other one, and nothing else that
\* writes a zone; beside a toggle no move.
Excluded(kind) ==
  Editor \cup {"remove", "schedule"} \cup IF kind = "toggle" THEN Moves ELSE {}

LEMMA Apart ==
  ASSUME TMet, Alone, NEW p \in Request, NEW q \in Request, p # q, job[p].kind \in Editor
  PROVE  job[q].kind \notin Excluded(job[p].kind)
<1>1. CASE job[p].kind = "toggle"
  BY <1>1, Overlapped DEF Alone, Excluded, Editor, Watched, Moves
<1>2. CASE job[p].kind = "update" /\ job[q].kind = "toggle"
  BY <1>2, Overlapped DEF Alone, Watched
<1>3. CASE job[p].kind = "update" /\ job[q].kind # "toggle"
  BY <1>3, Overlapped DEF Alone, Excluded, Editor, Watched
<1>. QED
  BY <1>1, <1>2, <1>3 DEF Editor

LEMMA ApartNext ==
  ASSUME TMet', Alone', NEW p \in Request, NEW q \in Request, p # q, job'[p].kind \in Editor
  PROVE  job'[q].kind \notin Excluded(job'[p].kind)
<1>1. CASE job'[p].kind = "toggle"
  BY <1>1, OverlappedNext DEF Alone, Excluded, Editor, Watched, Moves
<1>2. CASE job'[p].kind = "update" /\ job'[q].kind = "toggle"
  BY <1>2, OverlappedNext DEF Alone, Watched
<1>3. CASE job'[p].kind = "update" /\ job'[q].kind # "toggle"
  BY <1>3, OverlappedNext DEF Alone, Excluded, Editor, Watched
<1>. QED
  BY <1>1, <1>2, <1>3 DEF Editor

\* A save that finds the row it was compared with writes the entity.
LEMMA MergeOwn ==
  ASSUME NEW row \in ZoneRow, NEW held \in ZoneRow, row.there
  PROVE  Merge(row, held, row) = held
<1>1. Merge(row, held, row) = [c \in DOMAIN row |-> IF held[c] # row[c] THEN held[c] ELSE row[c]]
  BY DEF Merge, Changed
<1>2. DOMAIN row = DOMAIN held
  BY DEF ZoneRow
<1>3. \A c \in DOMAIN row : (IF held[c] # row[c] THEN held[c] ELSE row[c]) = held[c]
  OBVIOUS
<1>4. [c \in DOMAIN row |-> IF held[c] # row[c] THEN held[c] ELSE row[c]] = [c \in DOMAIN held |-> held[c]]
  BY <1>2, <1>3
<1>5. held = [c \in DOMAIN held |-> held[c]]
  BY DEF ZoneRow
<1>. QED
  BY <1>1, <1>4, <1>5

EditorStep(q) ==
  \/ ToggleFind(q) \/ ToggleLoad(q) \/ ToggleSave(q) \/ Preload(q) \/ LoadZone(q) \/ SaveZone(q)
  \/ \E k : Begins(q, k) /\ k.kind \in Editor

LEMMA Holding ==
  ASSUME Typed, TWatched, [Next]_vars, NEW q \in Request
  PROVE  \/ SameHeld(q)
         \/ job[q].kind # "toggle" /\ job'[q].kind \notin Editor
         \/ {"toggle", "failure"} \in met'
         \/ EditorStep(q)
<1>0. DOMAIN job = Request /\ JobType(job[q]) /\ WatchedJob(job[q]) /\ DOMAIN job[q] = Fields
  BY DEF Typed, TJobs, JobType, TWatched
<1>1. job'[q] = job[q] => SameHeld(q)
  BY DEF SameHeld, SameRequest
<1>2. ASSUME NEW r \in Request, NEW k, Become(r, k), r # q PROVE SameHeld(q)
  BY <1>0, <1>1, <1>2 DEF Become
<1>3. CASE job[q].kind \notin Editor
  <2>1. CASE job'[q].kind \notin Editor
    BY <1>3, <2>1 DEF Editor
  <2>2. CASE job'[q].kind \in Editor
    <3>1. Arrive(q) /\ \E k : Begins(q, k)
      BY <1>3, <2>2, Continues DEF SameRequest, Idle, Editor
    <3>2. PICK k : Begins(q, k)
      BY <3>1
    <3>3. job'[q] = k
      BY <1>0, <3>2 DEF Begins, Start, Become
    <3>. QED
      BY <2>2, <3>2, <3>3 DEF EditorStep
  <2>. QED
    BY <2>1, <2>2
<1>4. CASE job[q].kind \in Editor
  <2>1. ASSUME NEW r \in Request, Arrive(r) PROVE SameHeld(q)
    <3>1. PICK k : Begins(r, k)
      BY <2>1, ArriveBegins
    <3>2. Become(r, k) /\ job[r].pc = "idle"
      BY <3>1 DEF Begins, Start
    <3>. QED
      BY <1>0, <1>2, <1>4, <3>2 DEF WatchedJob, Editor
  <2>2. ASSUME NEW r \in Request, NEW p \in Request, ToggleSend(r, p) PROVE SameHeld(q)
    <3>1. PICK k, i : SentBy(r, p, k, i)
      BY <2>2, SendForms
    <3>2. p # q
      BY <1>0, <1>4, <3>1 DEF SentBy, WatchedJob, Editor
    <3>3. job'[q] = IF q = r THEN k ELSE job[q]
      BY <1>0, <3>1, <3>2 DEF SentBy
    <3>4. \A f \in {"kind", "of", "arg", "pc", "held", "loaded", "members"} : k[f] = job[r][f]
      BY <3>1 DEF SentBy, Fields
    <3>5. job[r].pc # "save"
      BY <3>1 DEF SentBy
    <3>. QED
      BY <1>1, <3>3, <3>4, <3>5 DEF SameHeld, SameRequest
  <2>3. ASSUME Handle(q)
        PROVE  \/ job[q].kind # "toggle" /\ job'[q].kind \notin Editor
               \/ SameHeld(q) \/ EditorStep(q)
    <3>1. CASE Invalidate(q)
      <4>1. job[q].kind = "update" /\ job' = [job EXCEPT ![q] = Idle]
        BY <1>0, <1>4, <3>1 DEF Invalidate, WatchedJob, Editor, Finish, Become
      <4>. QED
        BY <1>0, <4>1 DEF Idle, Editor
    <3>2. CASE \E p \in Request : ToggleSend(q, p)
      BY <2>2, <3>2
    <3>3. ~(Load(q) \/ LoadRules(q) \/ Fill(q))
      BY <1>0, <1>4 DEF Load, LoadRules, Fill, WatchedJob, Editor
    <3>4. ~(Publish(q) \/ UpdatePump(q) \/ UpdateMode(q) \/ Answer(q) \/ Evaluate(q) \/ RemoveFind(q)
            \/ Remove(q) \/ WriteRules(q))
      BY <1>0, <1>4 DEF Publish, UpdatePump, UpdateMode, Answer, Evaluate, RemoveFind, Remove,
           WriteRules, WatchedJob, Editor
    <3>5. ~(PreloadDevice(q) \/ LoadDevice(q) \/ SaveDevice(q) \/ SetMode(q))
      BY <1>0, <1>4 DEF PreloadDevice, LoadDevice, SaveDevice, SetMode, WatchedJob, Editor
    <3>. QED
      BY <2>3, <3>1, <3>2, <3>3, <3>4, <3>5 DEF Handle, EditorStep
  <2>4. ASSUME NEW r \in Request, r # q, Handle(r) PROVE SameHeld(q)
    BY <1>2, <2>2, <2>4, HandleMoves DEF Ends, Advance, Finish
  <2>5. ASSUME NEW r \in Request, Reject(r)
        PROVE  \/ SameHeld(q)
               \/ job[q].kind # "toggle" /\ job'[q].kind \notin Editor
               \/ {"toggle", "failure"} \in met'
    <3>1. CASE r # q
      BY <1>2, <2>5, <3>1 DEF Reject, Finish
    <3>2. CASE r = q
      <4>1. job'[q] = Idle
        BY <1>0, <2>5, <3>2 DEF Reject, Finish, Become
      <4>2. job[q].kind \in Watched /\ met' = met \cup Failed({q})
        BY <1>4, <2>5, <3>2 DEF Reject, Watched, Editor
      <4>3. {job[q].kind, "failure"} \in Failed({q})
        BY <4>2 DEF Failed
      <4>4. job'[q].kind \notin Editor
        BY <4>1 DEF Idle, Editor
      <4>5. job[q].kind = "toggle" => {"toggle", "failure"} \in met'
        BY <4>2, <4>3
      <4>. QED
        BY <4>4, <4>5
    <3>. QED
      BY <3>1, <3>2
  <2>6. CASE AssignGateway \/ UNCHANGED vars
    BY <1>1, <2>6 DEF AssignGateway, vars
  <2>7. CASE Restart
    <3>1. job'[q] = Idle
      BY <2>7 DEF Restart
    <3>2. job[q].pc # "idle"
      BY <1>0, <1>4 DEF WatchedJob, Editor
    <3>3. {job[q].kind, "failure"} \in met'
      <4>1. q \in Active /\ job[q].kind \in Watched /\ met' = met \cup Failed(Active)
        BY <1>4, <2>7, <3>2 DEF Restart, Active, Watched, Editor
      <4>. QED
        BY <4>1 DEF Failed
    <3>4. job'[q].kind \notin Editor
      BY <3>1 DEF Idle, Editor
    <3>5. job[q].kind = "toggle" => {"toggle", "failure"} \in met'
      BY <3>3
    <3>. QED
      BY <3>4, <3>5
  <2>8. CASE Tick
    <3>1. \A f \in {"pc", "kind", "of", "arg", "held", "loaded", "members", "left"} : job'[q][f] = job[q][f]
      BY <2>8, TickSame DEF Fields
    <3>. QED
      BY <3>1 DEF SameHeld, SameRequest
  <2>. QED
    BY <2>1, <2>3, <2>4, <2>5, <2>6, <2>7, <2>8 DEF Next
<1>. QED
  BY <1>3, <1>4

LEMMA SameMembers ==
  ASSUME \A d \in Device : devices'[d].zone = devices[d].zone
  PROVE  \A z : Members(z)' = Members(z)
BY DEF Members

\* The tables and what was asked of zones stay.
StillZones ==
  /\ zones' = zones /\ asked'.row = asked.row
  /\ \A d \in Device : devices'[d].zone = devices[d].zone /\ asked'.zone[d] = asked.zone[d]
  /\ \A z \in Zone : asked'.pump[z] = asked.pump[z]

LEMMA HeldStill ==
  ASSUME Typed, NEW q \in Request, StillHolds(job[q]), SameHeld(q), zones' = zones,
         \A z \in Zone : asked'.pump[z] = asked.pump[z],
         job[q].kind = "toggle" => \A d \in Device : devices'[d].zone = devices[d].zone
  PROVE  StillHolds(job[q])'
<1>1. JobType(job[q])
  BY DEF Typed, TJobs
<1>2. CASE job[q].kind = "toggle"
  <2>1. job[q].of \in Zone
    BY <1>1, <1>2 DEF JobType, About
  <2>2. \A z : Members(z)' = Members(z)
    BY <1>2, SameMembers
  <2>. QED
    BY <1>2, <2>1, <2>2 DEF SameHeld, SameRequest, StillHolds
<1>3. CASE job[q].kind # "toggle"
  BY <1>3 DEF SameHeld, SameRequest, StillHolds
<1>. QED
  BY <1>2, <1>3

LEMMA KeptStill ==
  ASSUME Watching, Kept, StillZones,
         \A q \in Request : SameHeld(q) \/ (job[q].kind # "toggle" /\ job'[q].kind \notin Editor)
  PROVE  Kept'
<1>0. Typed
  BY DEF Watching
<1>1. ASSUME NEW q \in Request PROVE StillHolds(job[q])'
  <2>1. CASE SameHeld(q)
    BY <1>0, <2>1, HeldStill DEF StillZones, Kept
  <2>2. CASE job'[q].kind \notin Editor
    BY <2>2 DEF StillHolds, Editor
  <2>. QED
    BY <2>1, <2>2
<1>2. ASSUME NEW z \in Zone PROVE RowKept(z)'
  BY DEF StillZones, Kept, RowKept, SameHeld, SameRequest
<1>3. ASSUME NEW d \in Device PROVE PlaceKept(d)'
  BY DEF StillZones, Kept, PlaceKept
<1>. QED
  BY <1>1, <1>2, <1>3 DEF Kept

\* A toggle or an update takes a step, and holds what is in the tables.
LEMMA EditorMoves ==
  ASSUME Watching, Alone, NEW r \in Request, job[r].kind \in Editor, NEW k, Become(r, k),
         StillHolds(k)', \A z \in Zone : RowKept(z)', \A d \in Device : PlaceKept(d)'
  PROVE  Kept'
<1>1. ASSUME NEW q \in Request PROVE StillHolds(job[q])'
  <2>0. DOMAIN job = Request /\ TMet
    BY DEF Watching, Typed, TJobs
  <2>1. CASE q = r
    BY <2>0, <2>1 DEF Become
  <2>2. CASE q # r
    <3>1. job'[q] = job[q] /\ job[q].kind \notin Editor
      BY <2>0, <2>2, Apart DEF Become, Excluded
    <3>. QED
      BY <3>1 DEF StillHolds, Editor
  <2>. QED
    BY <2>1, <2>2
<1>. QED
  BY <1>1 DEF Kept

\* No table changes, and the request remains, or its zone is not there.
LEMMA RowsStill ==
  ASSUME Watching, Kept, NEW r \in Request, NEW k, Become(r, k),
         UNCHANGED <<devices, zones, asked>>,
         \/ k.kind = job[r].kind /\ k.of = job[r].of
         \/ job[r].kind = "toggle" => ~zones[job[r].of].there
  PROVE  /\ \A z \in Zone : RowKept(z)'
         /\ \A d \in Device : PlaceKept(d)'
<1>0. DOMAIN job = Request
  BY DEF Watching, Typed, TJobs
<1>1. ASSUME NEW z \in Zone PROVE RowKept(z)'
  <2>. SUFFICES ASSUME zones[z].there
                PROVE  /\ [all |-> zones[z].all, mode |-> zones[z].mode] = asked.row[z]
                       /\ \/ zones[z].pump = asked.pump[z]
                          \/ \E q \in Request : job'[q].kind = "toggle" /\ job'[q].of = z
    BY DEF RowKept
  <2>1. /\ [all |-> zones[z].all, mode |-> zones[z].mode] = asked.row[z]
        /\ \/ zones[z].pump = asked.pump[z]
           \/ \E q \in Request : job[q].kind = "toggle" /\ job[q].of = z
    BY DEF Kept, RowKept
  <2>2. ASSUME NEW q \in Request, job[q].kind = "toggle", job[q].of = z
        PROVE  job'[q].kind = "toggle" /\ job'[q].of = z
    BY <1>0, <2>2 DEF Become
  <2>. QED
    BY <2>1, <2>2
<1>2. ASSUME NEW d \in Device PROVE PlaceKept(d)'
  BY DEF Kept, PlaceKept
<1>. QED
  BY <1>1, <1>2

LEMMA ReadsKept ==
  ASSUME Watching, Kept, Alone, NEW r \in Request,
         ToggleFind(r) \/ ToggleLoad(r) \/ Preload(r) \/ LoadZone(r)
  PROVE  Kept'
<1>. DEFINE j == job[r]
<1>0. /\ JobType(j) /\ DOMAIN j = Fields /\ WatchedJob(j) /\ DOMAIN job = Request /\ StillHolds(j)
      /\ UNCHANGED <<devices, zones, asked>>
  BY DEF Watching, Typed, TJobs, JobType, TWatched, Kept, ToggleFind, ToggleLoad, Preload, LoadZone,
         tables
<1>1. j.kind \in Editor
  BY <1>0 DEF ToggleFind, ToggleLoad, Preload, LoadZone, WatchedJob, Editor
<1>2. \A z : Members(z)' = Members(z)
  BY <1>0, SameMembers
<1>3. CASE Finish(r) /\ ~zones[j.of].there
  <2>1. Become(r, Idle) /\ StillHolds(Idle)'
    BY <1>3 DEF Finish, StillHolds, Idle
  <2>. QED
    BY <1>0, <1>1, <1>3, <2>1, RowsStill, EditorMoves
<1>4. ASSUME NEW k, Become(r, k), k.kind = j.kind, k.of = j.of, StillHolds(k)'
      PROVE  Kept'
  BY <1>0, <1>1, <1>4, RowsStill, EditorMoves
<1>5. CASE ToggleFind(r) /\ zones[j.of].there
  <2>1. PICK k : k = [j EXCEPT !.pc = "wait", !.held = zones[j.of], !.members = Members(j.of),
                        !.left = Members(j.of)]
    OBVIOUS
  <2>2. /\ k.pc = "wait" /\ k.kind = "toggle" /\ j.kind = "toggle" /\ k.of = j.of /\ k.arg = j.arg
        /\ k.held = zones[j.of] /\ k.members = Members(j.of)
    BY <1>0, <1>5, <2>1 DEF Fields, ToggleFind
  <2>3. Become(r, k)
    BY <1>5, <2>1 DEF ToggleFind
  <2>4. StillHolds(k)'
    BY <1>0, <1>2, <1>5, <2>2 DEF StillHolds
  <2>. QED
    BY <1>4, <2>2, <2>3, <2>4
<1>6. CASE ToggleLoad(r)
  <2>1. PICK k : k = [j EXCEPT !.pc = "save", !.loaded = zones[j.of], !.left = Members(j.of),
                         !.held.pump = j.arg = "PUMP_ON"]
    OBVIOUS
  <2>2. j.pc = "wait" /\ j.kind = "toggle" /\ Become(r, k)
    BY <1>0, <1>6, <2>1 DEF ToggleLoad, WatchedJob
  <2>3. /\ k.pc = "save" /\ k.kind = j.kind /\ k.of = j.of /\ k.arg = j.arg
        /\ k.loaded = zones[j.of] /\ k.left = Members(j.of) /\ k.members = j.members
        /\ k.held = [j.held EXCEPT !.pump = j.arg = "PUMP_ON"]
    BY <1>0, <2>1 DEF Fields
  <2>4. /\ zones[j.of].there /\ j.members = Members(j.of) /\ j.held = zones[j.of]
        /\ asked.pump[j.of] = (j.arg = "PUMP_ON")
    BY <1>0, <2>2 DEF StillHolds
  <2>5. k.held = Switched(zones[j.of], j.arg = "PUMP_ON")
    BY <2>3, <2>4 DEF Switched
  <2>6. StillHolds(k)'
    BY <1>0, <1>2, <2>2, <2>3, <2>4, <2>5 DEF StillHolds
  <2>. QED
    BY <1>4, <2>2, <2>3, <2>6
<1>7. CASE Preload(r) /\ zones[j.of].there
  <2>1. PICK k : k = [j EXCEPT !.pc = "load_zone",
                         !.held = [zones[j.of] EXCEPT !.all = Given(@, j.arg.all),
                                     !.mode = Given(@, j.arg.mode), !.pump = Given(@, j.arg.pump)]]
    OBVIOUS
  <2>2. /\ k.pc = "load_zone" /\ k.kind = "update" /\ j.kind = "update" /\ k.of = j.of /\ k.arg = j.arg
        /\ k.held = Edited(zones[j.of], j.arg)
    BY <1>0, <1>7, <2>1 DEF Fields, Preload, Edited
  <2>3. Become(r, k)
    BY <1>7, <2>1 DEF Preload
  <2>4. StillHolds(k)'
    BY <1>0, <1>7, <2>2 DEF StillHolds
  <2>. QED
    BY <1>4, <2>2, <2>3, <2>4
<1>8. CASE LoadZone(r)
  <2>1. PICK k : k = [j EXCEPT !.pc = "save", !.loaded = zones[j.of]]
    OBVIOUS
  <2>2. j.pc = "load_zone" /\ j.kind = "update" /\ Become(r, k)
    BY <1>0, <1>8, <2>1 DEF LoadZone, WatchedJob
  <2>3. /\ k.pc = "save" /\ k.kind = j.kind /\ k.of = j.of /\ k.arg = j.arg /\ k.held = j.held
        /\ k.loaded = zones[j.of]
    BY <1>0, <2>1 DEF Fields
  <2>4. StillHolds(k)'
    BY <1>0, <2>2, <2>3 DEF StillHolds
  <2>. QED
    BY <1>4, <2>2, <2>3, <2>4
<1>9. (ToggleFind(r) \/ Preload(r)) /\ ~zones[j.of].there => Finish(r)
  BY DEF ToggleFind, Preload
<1>. QED
  BY <1>3, <1>5, <1>6, <1>7, <1>8, <1>9

\* A toggle saves the zone with the new pumpEnabled, and its devices.
LEMMA ToggleSaveKept ==
  ASSUME Watching, Kept, Alone, NEW r \in Request, ToggleSave(r)
  PROVE  /\ Kept'
         /\ \A y \in Zone : zones'[y].there = zones[y].there
         /\ \A d \in Device : devices'[d].zone = devices[d].zone
<1>. DEFINE j == job[r]
            z == j.of
<1>0. /\ JobType(j) /\ DOMAIN job = Request /\ StillHolds(j)
      /\ j.kind = "toggle" /\ j.pc = "save" /\ Become(r, Idle) /\ asked' = asked
  BY DEF Watching, Typed, TJobs, Kept, ToggleSave, Finish
<1>1. /\ z \in Zone /\ zones[z] \in ZoneRow /\ zones[z].there /\ j.held \in ZoneRow
      /\ zones \in [Zone -> ZoneRow]
  BY <1>0 DEF JobType, About, HoldsAt, StillHolds, Watching, Typed, TTables
<1>2. /\ j.loaded = zones[z] /\ j.left = j.members /\ j.held = Switched(zones[z], j.arg = "PUMP_ON")
      /\ asked.pump[z] = (j.arg = "PUMP_ON")
  BY <1>0 DEF StillHolds
<1>3. Merge(zones[z], j.held, j.loaded) = j.held
  BY <1>1, <1>2, MergeOwn
<1>4. zones' = [zones EXCEPT ![z] = j.held]
  BY <1>3 DEF ToggleSave, Unannounced, Write
<1>5. \A d \in Device : devices'[d].zone = devices[d].zone
  <2>1. PICK f : /\ devices' = [d \in Device |-> [devices[d] EXCEPT !.zone = f[d]]]
                 /\ \A d \in Device : f[d] = devices[d].zone
    <3>. DEFINE row == Merge(zones[z], j.held, j.loaded)
                Zoned(d) == IF ~row.there THEN devices[d].zone
                            ELSE IF d \in j.members \ j.left THEN z
                            ELSE IF d \in j.left \ j.members THEN None
                            ELSE devices[d].zone
                f == [d \in Device |-> Zoned(d)]
    <3>1. devices' = [d \in Device |-> [devices[d] EXCEPT !.zone = Zoned(d)]]
      BY DEF ToggleSave, Unannounced, Write
    <3>2. \A d \in Device : Zoned(d) = devices[d].zone
      BY <1>2
    <3>3. \A d \in Device : f[d] = Zoned(d)
      OBVIOUS
    <3>. HIDE DEF Zoned
    <3>4. devices' = [d \in Device |-> [devices[d] EXCEPT !.zone = f[d]]]
      BY <3>1, <3>3
    <3>. QED
      BY <3>2, <3>3, <3>4
  <2>2. \A d \in Device : devices[d] \in DeviceRow
    BY DEF Watching, Typed, TTables
  <2>. QED
    BY <2>1, <2>2 DEF DeviceRow
<1>6. /\ j.held.there = zones[z].there /\ j.held.all = zones[z].all /\ j.held.mode = zones[z].mode
      /\ j.held.pump = (j.arg = "PUMP_ON")
  BY <1>1, <1>2 DEF Switched, ZoneRow
<1>7. ASSUME NEW y \in Zone PROVE RowKept(y)'
  <2>1. CASE y = z
    <3>1. zones'[y] = j.held
      BY <1>1, <1>4, <2>1
    <3>. QED
      BY <1>0, <1>1, <1>2, <1>6, <2>1, <3>1 DEF RowKept, Kept
  <2>2. CASE y # z
    <3>1. zones'[y] = zones[y]
      BY <1>1, <1>4, <2>2
    <3>2. \A q \in Request : job[q].of = y => job'[q] = job[q]
      BY <1>0, <2>2 DEF Become
    <3>. QED
      BY <1>0, <3>1, <3>2 DEF RowKept, Kept
  <2>. QED
    BY <2>1, <2>2
<1>8. ASSUME NEW d \in Device PROVE PlaceKept(d)'
  <2>1. PICK y : y = asked.zone[d]
    OBVIOUS
  <2>2. y # None => y \in Zone
    BY <2>1 DEF Watching, TAsked
  <2>3. y \in Zone => zones'[y].there = zones[y].there
    BY <1>1, <1>4, <1>6
  <2>. QED
    BY <1>0, <1>5, <2>1, <2>2, <2>3 DEF PlaceKept, Kept
<1>9. StillHolds(Idle)'
  BY DEF StillHolds, Idle
<1>10. \A y \in Zone : zones'[y].there = zones[y].there
  BY <1>1, <1>4, <1>6
<1>11. Kept'
  BY <1>0, <1>7, <1>8, <1>9, EditorMoves DEF Editor
<1>. QED
  BY <1>5, <1>10, <1>11

\* An update writes what it was asked.
LEMMA SaveZoneKept ==
  ASSUME Watching, Kept, Alone, NEW r \in Request, SaveZone(r)
  PROVE  /\ Kept'
         /\ \A y \in Zone : zones'[y].there = zones[y].there
         /\ \A d \in Device : devices'[d].zone = devices[d].zone
<1>. DEFINE j == job[r]
            z == j.of
<1>0. /\ JobType(j) /\ DOMAIN j = Fields /\ DOMAIN job = Request /\ StillHolds(j)
      /\ j.kind = "update" /\ j.pc = "save" /\ devices' = devices
      /\ asked' = [asked EXCEPT !.row[z] = [all |-> Given(@.all, j.arg.all), mode |-> Given(@.mode, j.arg.mode)],
                                !.pump[z] = Given(@, j.arg.pump)]
  BY DEF Watching, Typed, TJobs, JobType, Kept, SaveZone, Write
<1>1. /\ z \in Zone /\ zones[z] \in ZoneRow /\ zones[z].there /\ j.held \in ZoneRow
      /\ zones \in [Zone -> ZoneRow] /\ j.arg \in ZoneUpdate
  BY <1>0 DEF JobType, About, HoldsAt, StillHolds, Watching, Typed, TTables
<1>2. j.loaded = zones[z] /\ j.held = Edited(zones[z], j.arg)
  BY <1>0 DEF StillHolds
<1>3. Merge(zones[z], j.held, j.loaded) = j.held
  BY <1>1, <1>2, MergeOwn
<1>4. zones' = [zones EXCEPT ![z] = j.held]
  BY <1>1, <1>3 DEF SaveZone, Write
<1>5. /\ j.held.there = zones[z].there /\ j.held.pump = Given(zones[z].pump, j.arg.pump)
      /\ j.held.all = Given(zones[z].all, j.arg.all) /\ j.held.mode = Given(zones[z].mode, j.arg.mode)
  BY <1>1, <1>2 DEF Edited, ZoneRow
<1>6. /\ asked'.zone = asked.zone
      /\ asked'.row[z] = [all |-> Given(asked.row[z].all, j.arg.all), mode |-> Given(asked.row[z].mode, j.arg.mode)]
      /\ asked'.pump[z] = Given(asked.pump[z], j.arg.pump)
      /\ \A y \in Zone : y # z => asked'.row[y] = asked.row[y] /\ asked'.pump[y] = asked.pump[y]
  BY <1>0, <1>1 DEF Watching, TAsked
<1>7. PICK k : k = [j EXCEPT !.pc = "invalidate"]
  OBVIOUS
<1>8. Become(r, k) /\ k.kind = "update" /\ k.pc = "invalidate"
  BY <1>0, <1>7 DEF SaveZone, Goto, Fields
<1>9. \A q \in Request : job[q].kind # "toggle"
  BY <1>0, Apart DEF Watching, Editor, Excluded
<1>10. ASSUME NEW y \in Zone PROVE RowKept(y)'
  <2>0. zones[y].there => /\ [all |-> zones[y].all, mode |-> zones[y].mode] = asked.row[y]
                          /\ zones[y].pump = asked.pump[y]
    BY <1>9 DEF RowKept, Kept
  <2>1. CASE y = z
    <3>1. zones'[y] = j.held
      BY <1>1, <1>4, <2>1
    <3>2. asked.row[z].all = zones[z].all /\ asked.row[z].mode = zones[z].mode /\ zones[z].pump = asked.pump[z]
      <4>1. [all |-> zones[z].all, mode |-> zones[z].mode] = asked.row[z]
        BY <1>1, <2>0, <2>1
      <4>2. asked.row[z].all = zones[z].all /\ asked.row[z].mode = zones[z].mode
        BY <4>1
      <4>. QED
        BY <1>1, <2>0, <2>1, <4>2
    <3>. QED
      BY <1>5, <1>6, <2>1, <3>1, <3>2 DEF RowKept
  <2>2. CASE y # z
    <3>1. zones'[y] = zones[y]
      BY <1>1, <1>4, <2>2
    <3>. QED
      BY <1>6, <2>0, <2>2, <3>1 DEF RowKept
  <2>. QED
    BY <2>1, <2>2
<1>13. \A y \in Zone : zones'[y].there = zones[y].there
  BY <1>1, <1>4, <1>5
<1>11. ASSUME NEW d \in Device PROVE PlaceKept(d)'
  <2>1. PICK y : y = asked.zone[d]
    OBVIOUS
  <2>2. y # None => y \in Zone
    BY <2>1 DEF Watching, TAsked
  <2>. QED
    BY <1>0, <1>6, <1>13, <2>1, <2>2 DEF PlaceKept, Kept
<1>12. StillHolds(k)'
  BY <1>8 DEF StillHolds
<1>14. Kept'
  BY <1>0, <1>8, <1>10, <1>11, <1>12, EditorMoves DEF Editor
<1>. QED
  BY <1>0, <1>13, <1>14

\* A toggle or an update arrives; no other one is in flight.
LEMMA BeginKept ==
  ASSUME Watching, Watching', Kept, Alone', NEW r \in Request, NEW k, Begins(r, k), k.kind \in Editor
  PROVE  Kept'
<1>0. /\ DOMAIN job = Request /\ Become(r, k) /\ UNCHANGED <<devices, zones>> /\ job[r].kind = "none"
      /\ job'[r] = k /\ TMet'
  BY DEF Begins, Start, Become, tables, Watching, Typed, TJobs, TWatched, WatchedJob
<1>1. ASSUME NEW q \in Request, q # r
      PROVE  job'[q].kind \notin Editor
  BY <1>0, <1>1, ApartNext DEF Excluded
<1>2. \A q \in Request : job[q].kind # "toggle"
  BY <1>0, <1>1 DEF Become, Editor
<1>3. /\ asked'.row = asked.row /\ asked'.zone = asked.zone
      /\ \A z \in Zone : z # k.of \/ k.kind = "update" => asked'.pump[z] = asked.pump[z]
      /\ k.kind = "toggle" => asked'.pump[k.of] = (k.arg = "PUMP_ON")
  <2>1. CASE k.kind = "update"
    BY <2>1 DEF Begins, Watched, Edits, Moves, Switches
  <2>2. CASE k.kind = "toggle"
    <3>1. k.of \in Zone /\ asked' = [asked EXCEPT !.pump[k.of] = k.arg = "PUMP_ON"]
      BY <2>2 DEF Begins, Watched, Edits, Moves, Switches
    <3>. QED
      BY <2>2, <3>1 DEF Watching, TAsked
  <2>. QED
    BY <2>1, <2>2 DEF Editor
<1>4. k.pc \in {"find", "preload"}
  BY DEF Begins, Editor, Watched, Edits, Moves, Switches
<1>5. ASSUME NEW z \in Zone PROVE RowKept(z)'
  <2>1. zones[z].there => zones[z].pump = asked.pump[z]
                          /\ [all |-> zones[z].all, mode |-> zones[z].mode] = asked.row[z]
    BY <1>2 DEF Kept, RowKept
  <2>2. CASE k.kind = "toggle" /\ k.of = z
    BY <1>0, <1>3, <2>1, <2>2 DEF RowKept
  <2>3. CASE ~(k.kind = "toggle" /\ k.of = z)
    BY <1>0, <1>3, <2>1, <2>3 DEF RowKept, Editor
  <2>. QED
    BY <2>2, <2>3
<1>6. ASSUME NEW d \in Device PROVE PlaceKept(d)'
  BY <1>0, <1>3 DEF Kept, PlaceKept
<1>7. ASSUME NEW q \in Request PROVE StillHolds(job[q])'
  BY <1>0, <1>1, <1>3, <1>4 DEF StillHolds, Editor
<1>. QED
  BY <1>5, <1>6, <1>7 DEF Kept

\* A zone is removed while no toggle and no update is in flight.
LEMMA RemoveKept ==
  ASSUME Watching, Kept, Alone, NEW r \in Request, Remove(r)
  PROVE  /\ Kept'
         /\ \A z \in Zone : zones'[z].there => zones[z].there
         /\ \A z \in Zone, d \in Device :
              zones'[z].there /\ devices[d].zone = z => devices'[d].zone = z
<1>0. /\ DOMAIN job = Request /\ Become(r, Idle) /\ asked' = asked /\ job[r].kind = "remove"
      /\ zones \in [Zone -> ZoneRow]
      /\ zones' = [zones EXCEPT ![job[r].of] = NoZone]
      /\ devices' = [d \in Device |-> IF devices[d].zone = job[r].of
                                        THEN [devices[d] EXCEPT !.zone = None] ELSE devices[d]]
  BY DEF Watching, Typed, TJobs, JobType, HoldsAt, TTables, Remove, Finish, Unannounced, Write
<1>1. ASSUME NEW q \in Request, job[q].kind \in Editor PROVE FALSE
  <2>1. q # r
    BY <1>0, <1>1 DEF Editor
  <2>. QED
    BY <1>0, <1>1, <2>1, Apart DEF Watching, Excluded
<1>2. ASSUME NEW q \in Request PROVE StillHolds(job[q])'
  <2>1. job'[q].kind \notin Editor
    BY <1>0, <1>1 DEF Become, Idle, Editor
  <2>. QED
    BY <2>1 DEF StillHolds, Editor
<1>3. \A z \in Zone : zones'[z].there => zones'[z] = zones[z] /\ z # job[r].of
  BY <1>0 DEF NoZone
<1>4. ASSUME NEW z \in Zone PROVE RowKept(z)'
  BY <1>0, <1>1, <1>3 DEF Kept, RowKept, Editor
<1>5. ASSUME NEW d \in Device PROVE PlaceKept(d)'
  <2>1. PICK y : y = asked.zone[d]
    OBVIOUS
  <2>2. y # None => y \in Zone
    BY <2>1 DEF Watching, TAsked
  <2>. SUFFICES ASSUME y # None, zones'[y].there PROVE devices'[d].zone = y
    BY <1>0, <2>1 DEF PlaceKept
  <2>3. devices[d].zone = y /\ y # job[r].of
    BY <1>3, <2>1, <2>2 DEF Kept, PlaceKept
  <2>. QED
    BY <1>0, <2>3
<1>6. ASSUME NEW z \in Zone, NEW d \in Device, zones'[z].there, devices[d].zone = z
      PROVE  devices'[d].zone = z
  BY <1>0, <1>3, <1>6
<1>7. Kept'
  BY <1>2, <1>4, <1>5 DEF Kept
<1>. QED
  BY <1>3, <1>6, <1>7

LEMMA ZoneHeldStep ==
  ASSUME Typed, TWatched, [Next]_vars, NEW q \in Request, ZoneHeld(job[q]), ~Met({"zone"}, {"stale"})',
         job[q].kind \in Moves =>
           \A z \in Zone : zones'[z].there =>
             /\ zones[z].there
             /\ devices[job[q].of].zone = z => devices'[job[q].of].zone = z
  PROVE  ZoneHeld(job[q])'
<1>1. CASE SameHeld(q)
  <2>. SUFFICES ASSUME job[q].pc \in {"load_device", "save_device"} PROVE ZoneHeld(job[q])'
    BY <1>1 DEF SameHeld, ZoneHeld
  <2>1. JobType(job[q]) /\ job[q].kind \in Edits /\ job[q].held \in DeviceRow
    BY DEF Typed, TJobs, JobType, HoldsAt
  <2>2. job[q].arg.zone # Keep => job[q].kind \in Moves
    BY <2>1, KindsGiven
  <2>3. job[q].held.zone # None => job[q].held.zone \in Zone
    BY <2>1 DEF DeviceRow
  <2>. QED
    BY <1>1, <2>2, <2>3 DEF SameHeld, SameRequest, ZoneHeld
<1>2. CASE job'[q].pc \notin {"load_device", "save_device"}
  BY <1>2 DEF ZoneHeld
<1>3. CASE PreloadDevice(q)
  BY <1>3, Preloads DEF ZoneHeld, Given
<1>4. CASE LoadDevice(q)
  <2>1. \/ job[q].arg.zone = Keep /\ job[q].held.zone = devices[job[q].of].zone
        \/ job[q].arg.zone # Keep
    BY <1>4, Loads
  <2>. QED
    BY <1>4, <2>1, Loads DEF ZoneHeld
<1>. QED
  BY <1>1, <1>2, <1>3, <1>4, DeviceHolding

\* A device is saved: in the zone it was given while no toggle is in flight, or
\* else in the zone it is in.
LEMMA SaveDeviceKept ==
  ASSUME Watching, Kept, Placed, Alone, NEW r \in Request, SaveDevice(r)
  PROVE  /\ Kept' /\ zones' = zones
         /\ \/ \A e \in Device : devices'[e].zone = devices[e].zone
            \/ job[r].kind \in Moves
<1>0. Typed /\ TMet /\ TAsked /\ devices \in [Device -> DeviceRow] /\ JobType(job[r]) /\ DOMAIN job = Request
  BY DEF Watching, Typed, TTables, TJobs
<1>1. PICK d \in Device, row \in DeviceRow : Saves(r, d, row) /\ job[r].pc = "save_device"
                                          /\ job[r].kind \in Edits
  BY <1>0, SaveForm
<1>2. job[r].of = d /\ job' = [job EXCEPT ![r] = Idle] /\ zones' = zones /\ ZoneHeld(job[r])
  BY <1>1 DEF Saves, Placed
<1>3. ASSUME NEW q \in Request
      PROVE  SameHeld(q) \/ (job[q].kind # "toggle" /\ job'[q].kind \notin Editor)
  <2>1. CASE q = r
    BY <1>0, <1>1, <1>2, <2>1 DEF Idle, Editor, Edits, Moves, Switches
  <2>2. CASE q # r
    BY <1>0, <1>2, <2>2 DEF SameHeld, SameRequest
  <2>. QED
    BY <2>1, <2>2
<1>4. ASSUME asked'.row = asked.row, \A e \in Device : asked'.zone[e] = asked.zone[e],
             \A e \in Device : devices'[e].zone = devices[e].zone,
             \A z \in Zone : asked'.pump[z] = asked.pump[z]
      PROVE  Kept'
  BY <1>2, <1>3, <1>4, KeptStill DEF StillZones
<1>5. CASE UNCHANGED <<devices, asked>>
  BY <1>2, <1>4, <1>5
<1>6. CASE ~UNCHANGED <<devices, asked>>
  <2>1. /\ devices' = [devices EXCEPT ![d] = row]
        /\ row.zone = IF job[r].held.zone # job[r].loaded.zone THEN job[r].held.zone ELSE devices[d].zone
        /\ asked'.row = asked.row
        /\ \A e \in Device :
             asked'.zone[e] = IF e = d THEN Given(asked.zone[d], job[r].arg.zone) ELSE asked.zone[e]
    BY <1>1, <1>6 DEF Saves
  <2>2. \A z \in Zone : asked'.pump[z] = asked.pump[z]
    BY <1>1, <1>6, ConstantsAssumption DEF Saves
  <2>3. CASE job[r].arg.zone = Keep
    <3>1. row.zone = devices[d].zone
      BY <1>1, <1>2, <2>1, <2>3 DEF ZoneHeld
    <3>2. \A e \in Device : devices'[e].zone = devices[e].zone
      BY <1>0, <2>1, <3>1
    <3>3. \A e \in Device : asked'.zone[e] = asked.zone[e]
      BY <2>1, <2>3 DEF Given
    <3>. QED
      BY <1>2, <1>4, <2>1, <2>2, <3>2, <3>3
  <2>4. CASE job[r].arg.zone # Keep
    <3>1. job[r].kind \in Moves
      BY <1>0, <1>1, <2>4, KindsGiven
    <3>2. ASSUME NEW q \in Request PROVE job[q].kind # "toggle"
      <4>1. CASE q = r
        BY <3>1, <4>1 DEF Moves
      <4>2. CASE q # r
        BY <1>0, <3>1, <4>2, Apart DEF Editor, Excluded
      <4>. QED
        BY <4>1, <4>2
    <3>3. ASSUME NEW q \in Request PROVE StillHolds(job[q])'
      <4>1. CASE SameHeld(q)
        BY <1>0, <1>2, <2>2, <3>2, <4>1, HeldStill DEF Kept
      <4>2. CASE job'[q].kind \notin Editor
        BY <4>2 DEF StillHolds, Editor
      <4>. QED
        BY <1>3, <4>1, <4>2
    <3>4. ASSUME NEW z \in Zone PROVE RowKept(z)'
      BY <1>2, <2>1, <2>2, <3>2 DEF Kept, RowKept
    <3>5. ASSUME NEW e \in Device PROVE PlaceKept(e)'
      <4>1. CASE e = d
        <5>1. asked'.zone[e] = job[r].arg.zone /\ devices'[e] = row
          BY <1>0, <2>1, <2>4, <4>1 DEF Given
        <5>2. job[r].held.zone = job[r].arg.zone
          BY <1>1, <1>2, <2>4 DEF ZoneHeld
        <5>3. row.zone # job[r].held.zone =>
                job[r].held.zone = job[r].loaded.zone /\ row.zone = devices[d].zone
          BY <2>1
        <5>4. job[r].held.zone # None /\ zones[job[r].held.zone].there => row.zone = job[r].held.zone
          BY <1>1, <1>2, <2>4, <5>3 DEF ZoneHeld
        <5>. QED
          BY <1>2, <5>1, <5>2, <5>4 DEF PlaceKept
      <4>2. CASE e # d
        <5>1. devices'[e] = devices[e] /\ asked'.zone[e] = asked.zone[e]
          BY <1>0, <2>1, <4>2
        <5>. QED
          BY <1>2, <5>1 DEF Kept, PlaceKept
      <4>. QED
        BY <4>1, <4>2
    <3>6. Kept'
      BY <3>3, <3>4, <3>5 DEF Kept
    <3>. QED
      BY <1>2, <3>1, <3>6
  <2>. QED
    BY <2>3, <2>4
<1>. QED
  BY <1>2, <1>5, <1>6

\* A schedule sets a mode: of a device, or of a zone while no toggle and no
\* update is in flight.
LEMMA SetModeKept ==
  ASSUME Watching, Kept, Alone, NEW r \in Request, SetMode(r)
  PROVE  /\ Kept'
         /\ \A z \in Zone : zones'[z].there = zones[z].there
         /\ \A d \in Device : devices'[d].zone = devices[d].zone
<1>. DEFINE j == job[r]
<1>0. /\ JobType(j) /\ DOMAIN j = Fields /\ DOMAIN job = Request /\ j.kind = "schedule"
      /\ j.of \in Device \cup Zone /\ j.arg \in Mode /\ TMet
      /\ devices \in [Device -> DeviceRow] /\ zones \in [Zone -> ZoneRow]
  BY DEF SetMode, Watching, Typed, TTables, TJobs, JobType, HoldsAt, About
<1>1. PICK k : k = [j EXCEPT !.pc = "invalidate"]
  OBVIOUS
<1>2. Become(r, k) /\ k.kind = "schedule"
  BY <1>0, <1>1 DEF SetMode, Goto, Fields
<1>3. ASSUME NEW q \in Request, job[q].kind \in Editor PROVE FALSE
  <2>1. q # r
    BY <1>0, <1>3 DEF Editor
  <2>. QED
    BY <1>0, <1>3, <2>1, Apart DEF Excluded
<1>4. ASSUME NEW q \in Request PROVE job'[q].kind \notin Editor
  <2>1. CASE q = r
    BY <1>0, <1>2, <2>1 DEF Become, Editor
  <2>2. CASE q # r
    BY <1>0, <1>2, <1>3, <2>2 DEF Become
  <2>. QED
    BY <2>1, <2>2
<1>5. \A q \in Request : StillHolds(job[q])'
  BY <1>4 DEF StillHolds, Editor
<1>6. \A d \in Device : devices'[d].zone = devices[d].zone
  <2>1. devices' = devices \/ devices' = [devices EXCEPT ![j.of].mode = j.arg]
    BY DEF SetMode, Write, tables
  <2>. QED
    BY <1>0, <2>1 DEF DeviceRow
<1>7. CASE UNCHANGED <<zones, asked>>
  <2>1. \A z \in Zone : RowKept(z)'
    BY <1>3, <1>7 DEF RowKept, Kept, Editor
  <2>2. \A d \in Device : PlaceKept(d)'
    BY <1>6, <1>7 DEF PlaceKept, Kept
  <2>. QED
    BY <1>5, <1>6, <1>7, <2>1, <2>2 DEF Kept
<1>8. CASE /\ j.of \in Zone /\ zones' = [zones EXCEPT ![j.of].mode = j.arg]
           /\ asked' = [asked EXCEPT !.row[j.of].mode = j.arg]
  <2>1. ASSUME NEW z \in Zone
        PROVE  /\ zones'[z] = IF z = j.of THEN [zones[z] EXCEPT !.mode = j.arg] ELSE zones[z]
               /\ asked'.row[z] = IF z = j.of THEN [asked.row[z] EXCEPT !.mode = j.arg] ELSE asked.row[z]
               /\ asked'.zone = asked.zone /\ asked'.pump = asked.pump
    BY <1>0, <1>8 DEF Watching, TAsked
  <2>2. ASSUME NEW z \in Zone
        PROVE  /\ zones'[z].there = zones[z].there /\ zones'[z].all = zones[z].all
               /\ zones'[z].pump = zones[z].pump
               /\ zones'[z].mode = IF z = j.of THEN j.arg ELSE zones[z].mode
    BY <1>0, <2>1 DEF ZoneRow
  <2>3. ASSUME NEW z \in Zone PROVE RowKept(z)'
    <3>1. zones[z].there => /\ [all |-> zones[z].all, mode |-> zones[z].mode] = asked.row[z]
                            /\ zones[z].pump = asked.pump[z]
      BY <1>3 DEF RowKept, Kept, Editor
    <3>2. CASE z = j.of
      <4>1. asked'.row[z] = [all |-> asked.row[z].all, mode |-> j.arg]
        <5>1. PICK old : old = asked.row[z]
          OBVIOUS
        <5>2. old \in [all : BOOLEAN, mode : Mode]
          BY <5>1 DEF Watching, TAsked
        <5>3. [old EXCEPT !.mode = j.arg] = [all |-> old.all, mode |-> j.arg]
          BY <5>2
        <5>. QED
          BY <2>1, <3>2, <5>1, <5>3
      <4>2. zones[z].there => asked.row[z].all = zones[z].all
        BY <3>1
      <4>. QED
        BY <2>1, <2>2, <3>1, <3>2, <4>1, <4>2 DEF RowKept
    <3>3. CASE z # j.of
      BY <2>1, <2>2, <3>1, <3>3 DEF RowKept
    <3>. QED
      BY <3>2, <3>3
  <2>4. ASSUME NEW d \in Device PROVE PlaceKept(d)'
    <3>1. PICK y : y = asked.zone[d]
      OBVIOUS
    <3>2. y # None => y \in Zone
      BY <3>1 DEF Watching, TAsked
    <3>. QED
      BY <1>6, <1>8, <2>1, <2>2, <3>1, <3>2 DEF PlaceKept, Kept
  <2>. QED
    BY <1>5, <1>6, <2>2, <2>3, <2>4 DEF Kept
<1>. QED
  BY <1>0, <1>7, <1>8 DEF SetMode, Write, tables

LEMMA KeptStep == Watching /\ KeptInv /\ [Next]_vars => KeptInv'
<1>. SUFFICES ASSUME Watching, KeptInv, [Next]_vars, Alone' PROVE Kept' /\ Placed'
  BY DEF KeptInv
<1>0. Watching' /\ Typed /\ TWatched /\ TMet /\ DOMAIN job = Request
  BY WatchingStep DEF Watching, Typed, TJobs
<1>1. Alone /\ Kept /\ Placed
  <2>1. met \subseteq met'
    BY <1>0, MetGrows
  <2>. QED
    BY <2>1 DEF KeptInv, Alone, Met
<1>2. ASSUME NEW q \in Request,
             job[q].kind \in Moves =>
               \A z \in Zone : zones'[z].there =>
                 /\ zones[z].there
                 /\ devices[job[q].of].zone = z => devices'[job[q].of].zone = z
      PROVE  ZoneHeld(job[q])'
  BY <1>0, <1>1, <1>2, ZoneHeldStep DEF Alone, Placed
<1>3. ASSUME NEW q \in Request, job[q].kind \in Moves PROVE job[q].of \in Device
  BY <1>0, <1>3 DEF Typed, TJobs, JobType, About, Edits
<1>4. ASSUME \A z \in Zone : zones'[z].there = zones[z].there,
             \A d \in Device : devices'[d].zone = devices[d].zone
      PROVE  Placed'
  BY <1>2, <1>3, <1>4 DEF Placed
<1>5. ASSUME NEW r \in Request, ToggleSave(r) \/ SaveZone(r) \/ SetMode(r) PROVE Kept' /\ Placed'
  BY <1>1, <1>4, <1>5, ToggleSaveKept, SaveZoneKept, SetModeKept
<1>6. ASSUME NEW r \in Request, ToggleFind(r) \/ ToggleLoad(r) \/ Preload(r) \/ LoadZone(r)
      PROVE  Kept' /\ Placed'
  <2>1. UNCHANGED <<devices, zones>>
    BY <1>6 DEF ToggleFind, ToggleLoad, Preload, LoadZone, tables
  <2>. QED
    BY <1>1, <1>4, <1>6, <2>1, ReadsKept
<1>7. ASSUME NEW r \in Request, NEW k, Begins(r, k), k.kind \in Editor PROVE Kept' /\ Placed'
  <2>1. UNCHANGED <<devices, zones>>
    BY <1>7 DEF Begins, Start, tables
  <2>. QED
    BY <1>0, <1>1, <1>4, <1>7, <2>1, BeginKept
<1>8. ASSUME NEW r \in Request, Remove(r) PROVE Kept' /\ Placed'
  <2>1. Kept'
    BY <1>1, <1>8, RemoveKept
  <2>2. Placed'
    BY <1>1, <1>2, <1>3, <1>8, RemoveKept DEF Placed
  <2>. QED
    BY <2>1, <2>2
<1>9. ASSUME NEW r \in Request, SaveDevice(r) PROVE Kept' /\ Placed'
  <2>1. /\ Kept' /\ zones' = zones
        /\ (\A e \in Device : devices'[e].zone = devices[e].zone) \/ job[r].kind \in Moves
    BY <1>1, <1>9, SaveDeviceKept
  <2>2. CASE \A e \in Device : devices'[e].zone = devices[e].zone
    BY <1>4, <2>1, <2>2
  <2>3. CASE job[r].kind \in Moves
    <3>1. ASSUME NEW q \in Request PROVE ZoneHeld(job[q])'
      <4>1. CASE q = r
        <5>1. job'[q] = Idle
          BY <1>0, <1>9, <4>1 DEF SaveDevice, Finish, Become
        <5>. QED
          BY <5>1 DEF ZoneHeld, Idle
      <4>2. CASE q # r
        <5>1. job[q].kind \notin Moves
          BY <1>0, <1>1, <2>3, <4>2, Overlapped DEF Alone, Moves, Watched
        <5>. QED
          BY <1>2, <5>1
      <4>. QED
        BY <4>1, <4>2
    <3>. QED
      BY <2>1, <3>1 DEF Placed
  <2>. QED
    BY <2>1, <2>2, <2>3
<1>10. CASE ~\E r \in Request : EditorStep(r) \/ Remove(r) \/ SaveDevice(r) \/ SetMode(r)
  <2>1. ASSUME NEW q \in Request
        PROVE  SameHeld(q) \/ (job[q].kind # "toggle" /\ job'[q].kind \notin Editor)
    <3>1. {"toggle", "failure"} \notin met'
      BY DEF Alone, Met
    <3>. QED
      BY <1>0, <1>10, <3>1, Holding
  <2>2. zones' = zones /\ \A d \in Device : devices'[d].zone = devices[d].zone
    BY <1>0, <1>10, Columns DEF EditorStep
  <2>3. /\ asked'.row = asked.row /\ asked'.zone = asked.zone
        /\ \A z \in Zone : asked'.pump[z] = asked.pump[z]
    <3>1. CASE asked' = asked
      BY <3>1
    <3>2. ASSUME NEW r \in Request, NEW k, Begins(r, k), asked' # asked
          PROVE  /\ asked'.row = asked.row /\ asked'.zone = asked.zone
                 /\ \A z \in Zone : asked'.pump[z] = asked.pump[z]
      <4>1. k.kind # "toggle"
        BY <1>10, <3>2 DEF EditorStep, Editor
      <4>2. k.kind = "response" /\ asked' = [asked EXCEPT !.pump[k.of] = k.arg = "PUMP_ON"]
        BY <3>2, <4>1 DEF Begins
      <4>3. k.of \in Device
        BY <3>2, <4>2 DEF Begins, WatchedJob
      <4>4. \A z \in Zone : z # k.of
        BY <4>3, ConstantsAssumption
      <4>. QED
        BY <4>2, <4>4 DEF Watching, TAsked
    <3>. QED
      BY <1>0, <1>10, <3>1, <3>2, Columns, ArriveBegins DEF EditorStep
  <2>4. StillZones
    BY <2>2, <2>3 DEF StillZones
  <2>. QED
    BY <1>1, <1>4, <2>1, <2>2, <2>4, KeptStill
<1>. QED
  BY <1>5, <1>6, <1>7, <1>8, <1>9, <1>10 DEF EditorStep

\* A zone keeps what the last update or schedule wrote and has the pumpEnabled
\* that was last asked for, and devices stay in the zone they were moved to, for
\* any number of zones, devices and requests, although other updates of devices
\* find, load and save their rows meanwhile, unless requests on zones or moves
\* overlapped, or a save wrote a zone as it was found before a move.
THEOREM ZonesAreKept == Spec => []ZoneKept
<1>1. Init => Watching /\ KeptInv
  <2> SUFFICES ASSUME Init PROVE Watching /\ Kept /\ Placed
    BY DEF KeptInv
  <2>1. Watching
    BY WatchingInit
  <2>2. asked = [pump |-> [x \in Device \cup Zone |->
                             IF x \in Device THEN devices[x].pump ELSE zones[x].pump],
                 row |-> [z \in Zone |-> [all |-> zones[z].all, mode |-> zones[z].mode]],
                 zone |-> [d \in Device |-> devices[d].zone]]
    BY DEF Init
  <2>3. \A z \in Zone : z \notin Device
    BY ConstantsAssumption
  <2>4. (\A z \in Zone : RowKept(z)) /\ \A d \in Device : PlaceKept(d)
    BY <2>2, <2>3 DEF RowKept, PlaceKept
  <2>5. \A r \in Request : job[r].kind = "none"
    BY DEF Init, Idle
  <2>6. \A r \in Request : StillHolds(job[r])
    BY <2>5 DEF StillHolds
  <2>7. Placed
    BY DEF Init, Placed, ZoneHeld, Idle
  <2>. QED
    BY <2>1, <2>4, <2>6, <2>7 DEF Kept
<1>2. Watching /\ KeptInv /\ [Next]_vars => (Watching /\ KeptInv)'
  BY WatchingStep, KeptStep
<1>3. KeptInv => ZoneKept
  <2> SUFFICES ASSUME KeptInv, Alone PROVE ZoneKept
    BY DEF ZoneKept, Alone
  <2>. QED
    BY DEF KeptInv, Kept, RowKept, PlaceKept, ZoneKept
<1>. QED
  BY <1>1, <1>2, <1>3, PTL DEF Spec
=============================================================================
