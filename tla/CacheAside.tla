------------------------------ MODULE CacheAside ------------------------------
(***************************************************************************)
(* Four maps of the backend keep what a query returned for 60 seconds: the  *)
(* route of a device (sync.service.ts), the devices of a gateway            *)
(* (emqx.service.ts), the thresholds of a device (sensor.service.ts) and    *)
(* its zone with the zone's thresholds (config-resolution.service.ts).      *)
(*                                                                         *)
(* A lookup takes a young entry; otherwise it queries the database and      *)
(* stores what the query returned when the answer arrives, which can be     *)
(* after another request has changed the row, or removed the entry.         *)
(***************************************************************************)
EXTENDS Integers, FiniteSets

CONSTANTS
  Device, Gateway, Zone,
  Mode,         \* irrigation modes
  Normal,       \* the mode of a device without mode and zone
  RuleSet,      \* configurations of a sensor with its thresholds (bound)
  ZoneUpdate,   \* what updates of a zone give, or Keep: checkAll, mode, pumpEnabled (bound)
  DeviceUpdate, \* what requests give that save a device: zone, mode, pumpEnabled (bound)
  Request,      \* requests in flight at once (bound)
  Scopes,       \* which kinds of requests arrive in one behaviour (bound)
  MaxRequests,  \* requests and failures in all (bound)
  MaxFailures,  \* failed queries and restarts (bound)
  TTL,          \* how long an entry is used, in clock units
  MaxTime,      \* last value of the clock (bound)
  Keep,         \* a column that a request does not give
  None

\* A threshold belongs to an irrigation mode or, with None, to all of them.
\* Its limits and action are an opaque number, 0 where there is no threshold.
RuleKey == Mode \cup {None}
NoRules == [config |-> FALSE, by |-> [k \in RuleKey |-> 0]]

ASSUME ConstantsAssumption ==
  /\ {TTL, MaxTime, MaxRequests, MaxFailures} \subseteq Nat
  /\ Normal \in Mode
  /\ {None, Keep} \cap (Mode \cup Gateway \cup Zone \cup BOOLEAN) = {} /\ Keep # None
  /\ ZoneUpdate \subseteq [all : BOOLEAN \cup {Keep}, mode : Mode \cup {Keep}, pump : BOOLEAN \cup {Keep}]
  /\ DeviceUpdate \subseteq [zone : Zone \cup {None, Keep}, mode : Mode \cup {None, Keep},
                            pump : BOOLEAN \cup {Keep}]
  /\ RuleSet \subseteq [config : BOOLEAN, by : [RuleKey -> Nat]]
  /\ Device \cap Zone = {}

VARIABLES
  now,
  devices,  \* table device: gateway, zone, irrigation mode, pumpEnabled
  zones,    \* table zone: checkAll, irrigation mode, pumpEnabled
  rules,    \* configuration and thresholds of each device and zone
  cache,    \* the four maps
  job,      \* requests in flight
  scope,    \* kinds of requests of this behaviour
  started,
  failures,
  gone,     \* history: rows that were overwritten, with the time
  met,      \* history: kinds of requests that overlapped, or failed; columns saved stale
  asked     \* history: what was last asked for or reported

tables == <<devices, zones, rules>>
bounds == <<scope, started, failures>>
vars == <<now, tables, cache, job, bounds, gone, met, asked>>

-----------------------------------------------------------------------------
NoZone == [there |-> FALSE, all |-> FALSE, mode |-> Normal, pump |-> FALSE]

\* data: what the lookup returned so far.  configs: the thresholds a telemetry
\* handler holds while it looks up its context.  held, loaded: the entity a
\* request will save, and the row the ORM compares it with, with the members of
\* the zone if the entity has them.  late: the request arrived before the last tick.
Idle == [kind |-> "none", pc |-> "idle", of |-> None, arg |-> None, key |-> <<>>,
         data |-> None, configs |-> NoRules, held |-> NoZone, loaded |-> NoZone,
         members |-> {}, left |-> {}, parent |-> None, late |-> FALSE]

NoEntry == [data |-> None, loadedAt |-> -1, excused |-> FALSE]
Filled(key) == cache[key].loadedAt >= 0
CacheKey == ({"route", "configs", "context"} \X Device) \cup ({"owned"} \X Gateway)

Become(r, j) == job' = [job EXCEPT ![r] = j]
Goto(r, step) == Become(r, [job[r] EXCEPT !.pc = step])
Finish(r) == Become(r, Idle)
Active == {r \in Request : job[r].pc # "idle"}

Rows == (Device \cup Zone) \X {"row", "rules"}
RowOf(ds, zs, rs, x) ==
  IF x[2] = "rules" THEN rs[x[1]] ELSE IF x[1] \in Device THEN ds[x[1]] ELSE zs[x[1]]

\* Every change of the tables; what it replaced is remembered.
Write(ds, zs, rs) ==
  /\ devices' = ds /\ zones' = zs /\ rules' = rs
  /\ gone' = [x \in Rows |->
       LET old == RowOf(devices, zones, rules, x) IN
       IF old = RowOf(ds, zs, rs, x) THEN gone[x] ELSE gone[x] \cup {[value |-> old, until |-> now]}]

\* The values a row had since then.
Recently(x, since) ==
  {RowOf(devices, zones, rules, x)} \cup {v.value : v \in {w \in gone[x] : w.until >= since}}

RulesIn(rs, z) == IF z = None THEN NoRules ELSE rs[z]
ZoneIn(zs, z) == IF z = None THEN NoZone ELSE zs[z]

\* What a lookup of the key would load from these tables.
Loaded(key, ds, zs, rs) ==
  LET x == key[2] IN
  CASE key[1] = "route" -> ds[x].gateway
    [] key[1] = "owned" -> {d \in Device : ds[d].gateway = x}
    [] key[1] = "configs" -> rs[x]
    [] key[1] = "context" -> [mode |-> ds[x].mode, zone |-> ds[x].zone,
                              row |-> ZoneIn(zs, ds[x].zone), rules |-> RulesIn(rs, ds[x].zone)]

Drop(keys) == cache' = [k \in CacheKey |-> IF k \in keys THEN NoEntry ELSE cache[k]]

\* A change that nobody announces to the caches: the entries it makes wrong are
\* marked, for the property that speaks of the others.
Unannounced(ds, zs, rs) ==
  /\ Write(ds, zs, rs)
  /\ cache' = [k \in CacheKey |->
       IF ~Filled(k) \/ Loaded(k, ds, zs, rs) = Loaded(k, devices, zones, rules) THEN cache[k]
       ELSE [cache[k] EXCEPT !.excused = TRUE]]

-----------------------------------------------------------------------------
\* Faulty variant: the age of an entry is not looked at.
YoungForever(entry, time) == TRUE

Young(entry, time) == time - entry.loadedAt < TTL

Hit(key) == Filled(key) /\ Young(cache[key], now)

LookUpLast(j) ==
  IF Hit(j.key) THEN [j EXCEPT !.pc = "use", !.data = cache[j.key].data]
  ELSE [j EXCEPT !.pc = "load"]

\* The job once its lookup has returned: a telemetry handler, which has the
\* thresholds of its device, looks up the context next.
Got(j, data) ==
  IF j.key[1] = "configs"
    THEN LookUpLast([j EXCEPT !.key = <<"context", j.of>>, !.configs = data])
    ELSE [j EXCEPT !.pc = "use", !.data = data]

LookUp(j) == IF Hit(j.key) THEN Got(j, cache[j.key].data) ELSE [j EXCEPT !.pc = "load"]

\* The query.  That of a context finds the device and its zone; the thresholds
\* of the zone take a second one.
Load(r) ==
  LET j == job[r]
      data == Loaded(j.key, devices, zones, rules)
  IN
  /\ j.pc = "load"
  /\ IF j.key[1] = "context" /\ data.zone # None
       THEN Become(r, [j EXCEPT !.pc = "load_rules", !.data = [data EXCEPT !.rules = NoRules]])
       ELSE Become(r, [j EXCEPT !.pc = "fill", !.data = data])
  /\ UNCHANGED <<now, tables, cache, bounds, gone, met, asked>>

LoadRules(r) ==
  LET j == job[r] IN
  /\ j.pc = "load_rules"
  /\ Become(r, [j EXCEPT !.pc = "fill", !.data.rules = rules[j.data.zone]])
  /\ UNCHANGED <<now, tables, cache, bounds, gone, met, asked>>

\* The answer has arrived.  Data that are wrong by now are marked.
Fill(r) ==
  LET j == job[r] IN
  /\ j.pc = "fill"
  /\ cache' = [cache EXCEPT ![j.key] =
       [data |-> j.data, loadedAt |-> now,
        excused |-> j.data # Loaded(j.key, devices, zones, rules)]]
  /\ Become(r, Got(j, j.data))
  /\ UNCHANGED <<now, tables, bounds, gone, met, asked>>

-----------------------------------------------------------------------------
\* The overlaps that properties speak of.
Watched == {"toggle", "update", "remove", "schedule", "move", "switch", "edit", "response"}
Overlaps(kind) ==
  IF kind \in Watched THEN {{kind, job[q].kind} : q \in {p \in Active : job[p].kind \in Watched}} ELSE {}
Failed(R) == {{job[r].kind, "failure"} : r \in {q \in R : job[q].kind \in Watched}}

\* A request arrives; from here it overlaps with those in flight.
Start(r, j) ==
  /\ job[r].pc = "idle" /\ started + failures < MaxRequests /\ j.kind \in scope
  /\ started' = started + 1
  /\ Become(r, j)
  /\ met' = met \cup Overlaps(j.kind)
  /\ UNCHANGED <<now, tables, cache, scope, failures, gone>>

\* A query or publish rejects and its request ends.
Reject(r) ==
  /\ job[r].pc \notin {"idle", "wait", "fill", "invalidate"}
  /\ failures < MaxFailures /\ started + failures < MaxRequests
  /\ failures' = failures + 1
  /\ Finish(r)
  /\ met' = met \cup Failed({r})
  /\ UNCHANGED <<now, tables, cache, scope, started, gone, asked>>

Restart ==
  /\ failures < MaxFailures /\ started + failures < MaxRequests
  /\ failures' = failures + 1
  /\ Drop(CacheKey)
  /\ job' = [r \in Request |-> Idle]
  /\ met' = met \cup Failed(Active)
  /\ UNCHANGED <<now, tables, scope, started, gone, asked>>

\* A request is over before the second tick after its arrival, except one that
\* waits for others.  An entry is used up to the tick before it expires, by a
\* request that then takes one, and was filled one tick after its query.
Window == TTL + 1

\* An entry that has expired is as good as none.
Tick ==
  /\ now < MaxTime
  /\ \A r \in Active : job[r].late => job[r].pc = "wait"
  /\ now' = now + 1
  /\ job' = [r \in Request |-> IF r \in Active THEN [job[r] EXCEPT !.late = TRUE] ELSE job[r]]
  /\ gone' = [x \in Rows |-> {v \in gone[x] : v.until >= now' - Window}]
  /\ cache' = [k \in CacheKey |-> IF Young(cache[k], now') THEN cache[k] ELSE NoEntry]
  /\ UNCHANGED <<tables, bounds, met, asked>>

=============================================================================
