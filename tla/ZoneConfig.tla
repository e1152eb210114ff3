------------------------------ MODULE ZoneConfig ------------------------------
(***************************************************************************)
(* Configuration of zones and devices (src/src/zone, and the CRUD of        *)
(* src/src/sensor/sensor.service.ts), and the thresholds that a telemetry   *)
(* handler resolves from it, beside the commands of CommandRouting.         *)
(***************************************************************************)
EXTENDS CommandRouting, Sequences

ContextsOf(z) == {k \in CacheKey : k[1] = "context" /\ Filled(k) /\ cache[k].data.zone = z}

(* ZoneService. *)

UpdateZone(r) ==
  \E z \in Zone, dto \in ZoneUpdate :
    /\ Start(r, [Idle EXCEPT !.kind = "update", !.pc = "preload", !.of = z, !.arg = dto])
    /\ UNCHANGED asked

Preload(r) ==
  LET j == job[r]
      row == zones[j.of]
  IN
  /\ j.kind = "update" /\ j.pc = "preload"
  /\ IF row.there
       THEN Become(r, [j EXCEPT !.pc = "load_zone",
                         !.held = [row EXCEPT !.all = Given(@, j.arg.all), !.mode = Given(@, j.arg.mode),
                                              !.pump = Given(@, j.arg.pump)]])
       ELSE Finish(r)
  /\ UNCHANGED <<now, tables, cache, bounds, gone, met, asked>>

LoadZone(r) ==
  /\ job[r].pc = "load_zone"
  /\ Become(r, [job[r] EXCEPT !.pc = "save", !.loaded = zones[job[r].of]])
  /\ UNCHANGED <<now, tables, cache, bounds, gone, met, asked>>

SaveZone(r) ==
  LET j == job[r] IN
  /\ j.kind = "update" /\ j.pc = "save"
  /\ Write(devices, [zones EXCEPT ![j.of] = Merge(@, j.held, j.loaded)], rules)
  /\ asked' = [asked EXCEPT !.row[j.of] = [all |-> Given(@.all, j.arg.all), mode |-> Given(@.mode, j.arg.mode)],
                            !.pump[j.of] = Given(@, j.arg.pump)]
  /\ Goto(r, "invalidate")
  /\ UNCHANGED <<now, cache, bounds, met>>

RemoveZone(r) ==
  \E z \in Zone :
    /\ Start(r, [Idle EXCEPT !.kind = "remove", !.pc = "find", !.of = z])
    /\ UNCHANGED asked

RemoveFind(r) ==
  /\ job[r].kind = "remove" /\ job[r].pc = "find"
  /\ IF zones[job[r].of].there THEN Goto(r, "remove") ELSE Finish(r)
  /\ UNCHANGED <<now, tables, cache, bounds, gone, met, asked>>

\* Faulty variant: the devices keep the id of the zone.
RemoveDangling(r) ==
  LET z == job[r].of IN
  /\ job[r].pc = "remove"
  /\ Unannounced(devices, [zones EXCEPT ![z] = NoZone], [rules EXCEPT ![z] = NoRules])
  /\ Finish(r)
  /\ UNCHANGED <<now, bounds, met, asked>>

\* The database deletes the configurations of the zone and detaches its devices;
\* nothing is announced to the caches.
Remove(r) ==
  LET z == job[r].of IN
  /\ job[r].pc = "remove"
  /\ Unannounced([d \in Device |-> IF devices[d].zone = z THEN [devices[d] EXCEPT !.zone = None]
                                   ELSE devices[d]],
                 [zones EXCEPT ![z] = NoZone], [rules EXCEPT ![z] = NoRules])
  /\ Finish(r)
  /\ UNCHANGED <<now, bounds, met, asked>>

-----------------------------------------------------------------------------
(* Modes that schedules set, once the command is sent (applyModeChange). *)

There(x) == IF x \in Device THEN TRUE ELSE zones[x].there

ScheduleMode(r) ==
  \E x \in Device \cup Zone, m \in Mode :
    /\ Start(r, [Idle EXCEPT !.kind = "schedule", !.pc = "set_mode", !.of = x, !.arg = m])
    /\ UNCHANGED asked

\* One UPDATE, of no row if the zone is gone; the caches hear of it next.
SetMode(r) ==
  LET j == job[r] IN
  /\ j.pc = "set_mode"
  /\ IF j.of \in Device
       THEN Write([devices EXCEPT ![j.of].mode = j.arg], zones, rules) /\ UNCHANGED asked
       ELSE IF There(j.of)
         THEN /\ Write(devices, [zones EXCEPT ![j.of].mode = j.arg], rules)
              /\ asked' = [asked EXCEPT !.row[j.of].mode = j.arg]
         ELSE UNCHANGED <<tables, gone, asked>>
  /\ Goto(r, "invalidate")
  /\ UNCHANGED <<now, cache, bounds, met>>

-----------------------------------------------------------------------------
(* Configurations and thresholds of devices and zones. *)

\* Of a zone both invalidate the same entries.
EditRules(r) ==
  \E x \in Device \cup Zone, new \in RuleSet, kind \in {"config", "threshold"} :
    /\ There(x) /\ (x \in Zone => kind = "threshold")
    /\ Start(r, [Idle EXCEPT !.kind = kind, !.pc = "write", !.of = x, !.arg = new])
    /\ UNCHANGED asked

\* A threshold needs its configuration; the zone may be gone by now.
WriteRules(r) ==
  LET j == job[r] IN
  /\ j.kind \in {"config", "threshold"} /\ j.pc = "write"
  /\ IF There(j.of) /\ (j.kind = "threshold" /\ j.of \in Device => rules[j.of].config /\ j.arg.config)
       THEN Write(devices, zones, [rules EXCEPT ![j.of] = j.arg]) /\ Goto(r, "invalidate")
       ELSE Finish(r) /\ UNCHANGED <<tables, gone>>
  /\ UNCHANGED <<now, cache, bounds, met, asked>>

\* Faulty variant: requests on a device forget its context.
KeysOfConfigs(j) ==
  IF j.of \in Zone THEN ContextsOf(j.of) ELSE {<<"configs", j.of>>}

\* The keys a request invalidates: a device has one key in each map, of a zone
\* the contexts that are cached with it.
KeysOf(j) ==
  CASE j.of \in Zone -> ContextsOf(j.of)
    [] j.of \in Device /\ j.kind = "config" -> {<<"configs", j.of>>}
    [] j.of \in Device /\ j.kind = "schedule" -> {<<"context", j.of>>}
    [] OTHER -> {<<"configs", j.of>>, <<"context", j.of>>}

Invalidate(r) ==
  /\ job[r].pc = "invalidate"
  /\ Drop(KeysOf(job[r]))
  /\ Finish(r)
  /\ UNCHANGED <<now, tables, bounds, gone, met, asked>>

-----------------------------------------------------------------------------
(* processTelemetry, up to the evaluation of thresholds. *)

Telemetry(r) ==
  \E d \in Device :
    /\ Start(r, LookUp([Idle EXCEPT !.kind = "telemetry", !.of = d, !.key = <<"configs", d>>]))
    /\ UNCHANGED asked

\* resolveConfig.
ActiveMode(context) ==
  IF context.zone = None
    THEN IF context.mode = None THEN Normal ELSE context.mode
    ELSE IF context.row.all \/ context.mode = None THEN context.row.mode ELSE context.mode

\* pickThreshold: the first that exists of the ones for the mode and for all
\* modes, of the device first unless the zone is in charge.  A device without a
\* configuration of its own for the sensor evaluates nothing.
Resolve(own, context) ==
  LET m == ActiveMode(context)
      zoned == <<context.rules.by[m], context.rules.by[None]>>
      order == IF context.row.all THEN zoned ELSE <<own.by[m], own.by[None]>> \o zoned
      found == {i \in 1..Len(order) : order[i] # 0}
  IN IF ~own.config \/ found = {} THEN 0
     ELSE order[CHOOSE i \in found : \A k \in found : i <= k]

Evaluate(r) ==
  /\ job[r].kind = "telemetry" /\ job[r].pc = "use"
  /\ Finish(r)
  /\ UNCHANGED <<now, tables, cache, bounds, gone, met, asked>>

-----------------------------------------------------------------------------
DeviceRow == [gateway : Gateway \cup {None}, zone : Zone \cup {None}, mode : Mode \cup {None},
              pump : BOOLEAN]
ZoneRow == [there : BOOLEAN, all : BOOLEAN, mode : Mode, pump : BOOLEAN]
Rules == [config : BOOLEAN, by : [RuleKey -> Nat]]

\* Any tables without dangling zones; nothing is cached or in flight.
Init ==
  /\ now = 0
  /\ devices \in [Device -> DeviceRow]
  /\ zones \in [Zone -> ZoneRow]
  /\ rules \in [Device \cup Zone -> Rules]
  /\ \A d \in Device : devices[d].zone # None => zones[devices[d].zone].there
  /\ cache = [k \in CacheKey |-> NoEntry]
  /\ job = [r \in Request |-> Idle]
  /\ scope \in Scopes
  /\ started = 0 /\ failures = 0
  /\ gone = [x \in Rows |-> {}]
  /\ met = {}
  /\ asked = [pump |-> [x \in Device \cup Zone |->
                          IF x \in Device THEN devices[x].pump ELSE zones[x].pump],
              row |-> [z \in Zone |-> [all |-> zones[z].all, mode |-> zones[z].mode]],
              zone |-> [d \in Device |-> devices[d].zone]]

-----------------------------------------------------------------------------
Arrive(r) ==
  \/ SendCommand(r) \/ DeviceResponse(r) \/ CheckAcl(r) \/ TogglePump(r)
  \/ UpdateDevice(r) \/ UpdateZone(r) \/ RemoveZone(r) \/ ScheduleMode(r) \/ EditRules(r) \/ Telemetry(r)

Handle(r) ==
  \/ Load(r) \/ LoadRules(r) \/ Fill(r)
  \/ Publish(r) \/ UpdatePump(r) \/ UpdateMode(r) \/ Answer(r) \/ Evaluate(r)
  \/ ToggleFind(r) \/ (\E q \in Request : ToggleSend(r, q)) \/ ToggleLoad(r) \/ ToggleSave(r)
  \/ PreloadDevice(r) \/ LoadDevice(r) \/ SaveDevice(r) \/ SetMode(r)
  \/ Preload(r) \/ LoadZone(r) \/ SaveZone(r) \/ RemoveFind(r) \/ Remove(r)
  \/ WriteRules(r) \/ Invalidate(r)

Next ==
  \/ \E r \in Request : Arrive(r) \/ Handle(r) \/ Reject(r)
  \/ AssignGateway \/ Restart \/ Tick

Spec == Init /\ [][Next]_vars

-----------------------------------------------------------------------------
(***************************************************************************)
(* Properties                                                               *)
(***************************************************************************)

\* Every variable has its type, and no device is in a zone that is gone.
TypeOK ==
  /\ now \in 0..MaxTime
  /\ \A d \in Device :
       /\ devices[d].gateway \in Gateway \cup {None}
       /\ devices[d].zone \in {z \in Zone : zones[z].there} \cup {None}
       /\ devices[d].mode \in Mode \cup {None} /\ devices[d].pump \in BOOLEAN
  /\ \A z \in Zone :
       /\ {zones[z].there, zones[z].all, zones[z].pump} \subseteq BOOLEAN
       /\ zones[z].mode \in Mode
  /\ \A x \in Device \cup Zone : rules[x] \in Rules
  /\ \A k \in CacheKey : cache[k].loadedAt \in -1..now
  /\ \A r \in Request : job[r].pc # "idle" => job[r].kind \in scope \cup {"command"}

Met(K, L) == \E k \in K, l \in L : {k, l} \in met

\* The contexts a device had since then: each of its rows, with each row and
\* each set of thresholds of the zone it was in.
ContextsWith(dev, since) ==
  {[mode |-> dev.mode, zone |-> dev.zone, row |-> row, rules |-> rs] :
     row \in IF dev.zone = None THEN {NoZone} ELSE Recently(<<dev.zone, "row">>, since),
     rs \in IF dev.zone = None THEN {NoRules} ELSE Recently(<<dev.zone, "rules">>, since)}
RecentContexts(d, since) ==
  UNION {ContextsWith(dev, since) : dev \in Recently(<<d, "row">>, since)}

Current(j, since) ==
  /\ j.kind \in {"command", "response", "mode_response"} =>
       j.data \in {row.gateway : row \in Recently(<<j.of, "row">>, since)}
  /\ j.kind = "acl" /\ Granted(j) =>
       j.of \in {row.gateway : row \in Recently(<<j.arg, "row">>, since)}
  /\ j.kind = "telemetry" =>
       Resolve(j.configs, j.data) \in
         {Resolve(own, context) : own \in Recently(<<j.of, "rules">>, since),
                                  context \in RecentContexts(j.of, since)}

\* What a request uses was in the database not longer ago than Window: the
\* gateway a command is sent through was the gateway of the device, a gateway
\* that is granted the topics of a device was its gateway, and a reading is
\* judged by thresholds that the configurations of that time resolve to.
UsedRecently == \A r \in Request : job[r].pc = "use" => Current(job[r], now - Window)

\* Once a change of a configuration, a threshold, a zone or an irrigation mode
\* is complete, the caches have it or nothing, except for an entry
\* filled with data that were overwritten while they were loaded, or made wrong
\* by a change that is announced to nobody.
UpdateSeen ==
  \A k \in CacheKey :
    /\ k[1] \in {"configs", "context"} /\ Filled(k) /\ ~cache[k].excused
    /\ \A r \in Request : job[r].pc = "invalidate" => k \notin KeysOf(job[r])
    => cache[k].data = Loaded(k, devices, zones, rules)

\* A zone keeps what the last update or schedule wrote into it, its pumpEnabled
\* is what the last toggle or update asked for, and a device stays in the zone it
\* was last moved to.  That takes toggles that do not fail or overlap with a
\* request on a zone or a move of a device, since a toggle saves the zone and the
\* devices it found before sending; updates and removals of zones, schedules and
\* moves of devices one at a time; and no device saved with the zone of before a
\* move.  Devices may be renamed, switched and saved beside all of them.
ZoneKept ==
  /\ ~Met({"toggle"}, {"toggle", "update", "remove", "schedule", "failure"} \cup Moves)
  /\ ~Met({"update"}, {"update", "remove", "schedule"}) /\ ~Met(Moves, Moves)
  /\ ~Met({"zone"}, {"stale"})
  =>
  /\ \A z \in Zone : zones[z].there =>
       /\ [all |-> zones[z].all, mode |-> zones[z].mode] = asked.row[z]
       /\ \/ zones[z].pump = asked.pump[z]
          \/ \E r \in Request : job[r].kind = "toggle" /\ job[r].of = z
  /\ \A d \in Device :
       asked.zone[d] # None /\ zones[asked.zone[d]].there => devices[d].zone = asked.zone[d]

\* pumpEnabled of a device is what its last response or update says, unless the
\* handlers of two of these overlapped, a response failed, or the device was saved
\* as a request had found it before a change of pumpEnabled.  Moves and other
\* updates, whose saves write the row in several steps, may overlap with a response
\* in every other order.
PumpFeedback ==
  /\ ~Met({"response"}, {"response", "failure"} \cup Switches) /\ ~Met(Switches, Switches)
  /\ ~Met({"pump"}, {"stale"})
  =>
  \A d \in Device :
    \/ devices[d].pump = asked.pump[d]
    \/ \E r \in Request : job[r].kind = "response" /\ job[r].of = d

=============================================================================
