-------------------------- MODULE ThresholdService --------------------------
(***************************************************************************)
(* Threshold evaluation (src/src/sensor/threshold.service.ts), driven by    *)
(* the telemetry handler of src/src/sensor/sensor.service.ts.              *)
(*                                                                         *)
(* Telemetry is handled concurrently.  A reading beyond a threshold asks   *)
(* for the action of the threshold; two maps in memory decide whether it   *)
(* is dispatched: an action already dispatched to the device is not        *)
(* repeated until a reading within limits clears it, and a sensor of a     *)
(* device has a cooldown.  Dispatching then takes several awaits.          *)
(***************************************************************************)
EXTENDS Integers, Sequences, FiniteSets

CONSTANTS
  Device,
  Sensor,
  Action,       \* commands a threshold can ask for
  AlertOnly,    \* the action that sends no command
  Payload,      \* telemetry payloads: sequences of readings (bound)
  Handler,      \* telemetry handlers in flight at once (bound)
  MaxTime,      \* last value of the clock (bound)
  MaxFailures,  \* failed queries and publishes, and restarts (bound)
  Cooldown,     \* COOLDOWN_MS, in clock units
  None          \* no device, no sensor, no action, no limit

Threshold == [level : {"critical", "warning"}, action : Action,
              min : Int \cup {None}, max : Int \cup {None}]

\* A reading with the thresholds resolved for its sensor, at most one per level:
\* the zone and irrigation mode of the device decide, so they change over time.
Reading == [sensor : Sensor, value : Int, thresholds : SUBSET Threshold]

ASSUME ConstantsAssumption ==
  /\ Payload \subseteq Seq(Reading)
  /\ AlertOnly \in Action
  /\ MaxTime \in Nat \ {0}
  /\ MaxFailures \in Nat
  /\ Cooldown \in Nat
  /\ None \notin Device \cup Sensor \cup Action \cup Int

VARIABLES
  now,         \* the clock
  held,        \* deviceStates: the actions whose state is true
  lastAction,  \* lastActionTime of each device and sensor, Never if unset
  job,         \* what each telemetry handler is doing
  failures,    \* failures so far
  episode,     \* history: dispatches of each action since it was last cleared
  decided,     \* history: when each sensor of a device last dispatched each action
  fate         \* history: what became of the last dispatch of each action

vars == <<now, held, lastAction, job, failures, episode, decided, fate>>

-----------------------------------------------------------------------------
Time == 1..MaxTime
Never == 0

Idle == [pc |-> "idle", device |-> None, readings |-> <<>>, action |-> None]

Steps == {"store", "evaluate", "device", "publish", "log", "log_failure", "alert", "notify"}

Job == [pc : {"idle"} \cup Steps, device : Device \cup {None},
        readings : Seq(Reading), action : Action \cup {None}]

Become(h, j) == job' = [job EXCEPT ![h] = j]
Goto(h, step) == Become(h, [job[h] EXCEPT !.pc = step])

Evaluating(d, rs) == [pc |-> "evaluate", device |-> d, readings |-> rs, action |-> None]

\* Faulty variant: the loop runs one past the last reading.
AdvancePastEnd(j) == Evaluating(j.device, Tail(j.readings))

\* The telemetry handler goes on to the next reading, or is done.
Advance(j) ==
  IF Len(j.readings) > 1
    THEN Evaluating(j.device, Tail(j.readings))
    ELSE Idle

Init ==
  /\ now = 1
  /\ held = [d \in Device |-> {}]
  /\ lastAction = [d \in Device |-> [s \in Sensor |-> Never]]
  /\ job = [h \in Handler |-> Idle]
  /\ failures = 0
  /\ episode = [d \in Device |-> [a \in Action |-> 0]]
  /\ decided = [d \in Device |-> [s \in Sensor |-> [a \in Action |-> Never]]]
  /\ fate = [d \in Device |-> [a \in Action |-> "none"]]

Tick ==
  /\ now < MaxTime
  /\ now' = now + 1
  /\ UNCHANGED <<held, lastAction, job, failures, episode, decided, fate>>

\* Telemetry with at least one reading; its readings are stored first.
TelemetryReceived(h, d) ==
  /\ job[h].pc = "idle"
  /\ \E p \in Payload :
       /\ p # <<>>
       /\ Become(h, [pc |-> "store", device |-> d, readings |-> p, action |-> None])
  /\ UNCHANGED <<now, held, lastAction, failures, episode, decided, fate>>

\* The readings are saved and the configuration is loaded.
Store(h) ==
  /\ job[h].pc = "store"
  /\ Goto(h, "evaluate")
  /\ UNCHANGED <<now, held, lastAction, failures, episode, decided, fate>>

-----------------------------------------------------------------------------
Below(t, v) == t.min # None /\ v < t.min
Above(t, v) == t.max # None /\ v > t.max

Violated(r) == {t \in r.thresholds : Below(t, r.value) \/ Above(t, r.value)}

\* The violated threshold evaluate() stops at: CRITICAL before WARNING.
First(r) ==
  {t \in Violated(r) : t.level = "critical" \/ \A u \in Violated(r) : u.level # "critical"}

\* Faulty variants: only one of the two checks.
ShouldDispatchCooldownOnly(d, s, a) ==
  ~(lastAction[d][s] # Never /\ now - lastAction[d][s] < Cooldown)
ShouldDispatchStateOnly(d, s, a) == a \notin held[d]

\* shouldDispatch: neither dispatched already nor within the cooldown.
Cooling(d, s) == lastAction[d][s] # Never /\ now - lastAction[d][s] < Cooldown

ShouldDispatch(d, s, a) == a \notin held[d] /\ ~Cooling(d, s)

\* No violation: clearStatesForSensor.
WithinLimits(h) ==
  LET j == job[h]
      d == j.device
      r == Head(j.readings)
      cleared == {t.action : t \in r.thresholds}
  IN
  /\ j.pc = "evaluate"
  /\ Violated(r) = {}
  /\ held' = [held EXCEPT ![d] = @ \ cleared]
  /\ episode' = [episode EXCEPT ![d] = [a \in Action |-> IF a \in cleared THEN 0 ELSE @[a]]]
  /\ Become(h, Advance(j))
  /\ UNCHANGED <<now, lastAction, failures, decided, fate>>

\* Anti-spam blocks the first violated threshold: evaluate() returns, and does
\* not look at a lower level.
Blocked(h) ==
  LET j == job[h]
      r == Head(j.readings)
  IN
  /\ j.pc = "evaluate"
  /\ \E t \in First(r) : ~ShouldDispatch(j.device, r.sensor, t.action)
  /\ Become(h, Advance(j))
  /\ UNCHANGED <<now, held, lastAction, failures, episode, decided, fate>>

\* The check and both maps are one step: nothing is awaited in between.
Dispatch(h) ==
  LET j == job[h]
      d == j.device
      r == Head(j.readings)
  IN
  /\ j.pc = "evaluate"
  /\ \E t \in First(r) :
       /\ ShouldDispatch(d, r.sensor, t.action)
       /\ held' = [held EXCEPT ![d] = @ \cup {t.action}]
       /\ lastAction' = [lastAction EXCEPT ![d][r.sensor] = now]
       /\ episode' = [episode EXCEPT ![d][t.action] = @ + 1]
       /\ decided' = [decided EXCEPT ![d][r.sensor][t.action] = now]
       /\ fate' = [fate EXCEPT ![d][t.action] = "none"]
       /\ Become(h, [j EXCEPT !.action = t.action,
                              !.pc = IF t.action = AlertOnly THEN "alert" ELSE "device"])
  /\ UNCHANGED <<now, failures>>

-----------------------------------------------------------------------------
\* Faulty variant: a device without a gateway gets no command.
FindDeviceSkips(h) ==
  /\ job[h].pc = "device"
  /\ \E step \in {"publish", "alert"} : Goto(h, step)
  /\ UNCHANGED <<now, held, lastAction, failures, episode, decided, fate>>

\* The row of the device, for its gateway.
FindDevice(h) ==
  /\ job[h].pc = "device"
  /\ Goto(h, "publish")
  /\ UNCHANGED <<now, held, lastAction, failures, episode, decided, fate>>

Publish(h) ==
  /\ job[h].pc = "publish"
  /\ fate' = [fate EXCEPT ![job[h].device][job[h].action] = "published"]
  /\ Goto(h, "log")
  /\ UNCHANGED <<now, held, lastAction, failures, episode, decided>>

\* The command log, of a command sent or of one that failed.
LogCommand(h) ==
  /\ job[h].pc \in {"log", "log_failure"}
  /\ Goto(h, "alert")
  /\ UNCHANGED <<now, held, lastAction, failures, episode, decided, fate>>

LogAlert(h) ==
  /\ job[h].pc = "alert"
  /\ Goto(h, "notify")
  /\ UNCHANGED <<now, held, lastAction, failures, episode, decided, fate>>

\* The owner of the farm is looked up and notified if offline.
Notify(h) ==
  /\ job[h].pc = "notify"
  /\ Become(h, Advance(job[h]))
  /\ UNCHANGED <<now, held, lastAction, failures, episode, decided, fate>>

-----------------------------------------------------------------------------
\* The query for the device, the publish, or the log of the command fails: the
\* catch logs a failed command.  Neither map is taken back.
DispatchFails(h) ==
  LET j == job[h] IN
  /\ failures < MaxFailures
  /\ j.pc \in {"device", "publish", "log"}
  /\ failures' = failures + 1
  /\ fate' = IF j.pc = "log" THEN fate
             ELSE [fate EXCEPT ![j.device][j.action] = "lost"]
  /\ Goto(h, "log_failure")
  /\ UNCHANGED <<now, held, lastAction, episode, decided>>

\* Any other query fails: an error of the failure log is swallowed, the others
\* end the telemetry handler and the readings it has left.
HandlerFails(h) ==
  /\ failures < MaxFailures
  /\ job[h].pc \in {"store", "log_failure", "alert", "notify"}
  /\ failures' = failures + 1
  /\ IF job[h].pc = "log_failure" THEN Goto(h, "alert") ELSE Become(h, Idle)
  /\ UNCHANGED <<now, held, lastAction, episode, decided, fate>>

\* The process restarts: both maps and what was in flight are gone.
Restart ==
  /\ failures < MaxFailures
  /\ failures' = failures + 1
  /\ held' = [d \in Device |-> {}]
  /\ lastAction' = [d \in Device |-> [s \in Sensor |-> Never]]
  /\ job' = [h \in Handler |-> Idle]
  /\ episode' = [d \in Device |-> [a \in Action |-> 0]]
  /\ decided' = [d \in Device |-> [s \in Sensor |-> [a \in Action |-> Never]]]
  /\ UNCHANGED <<now, fate>>

Handle(h) ==
  \/ Store(h) \/ WithinLimits(h) \/ Blocked(h) \/ Dispatch(h)
  \/ FindDevice(h) \/ Publish(h) \/ LogCommand(h) \/ LogAlert(h) \/ Notify(h)

Next ==
  \/ Tick
  \/ \E h \in Handler, d \in Device : TelemetryReceived(h, d)
  \/ \E h \in Handler : Handle(h) \/ DispatchFails(h) \/ HandlerFails(h)
  \/ Restart

Spec == Init /\ [][Next]_vars

-----------------------------------------------------------------------------
(***************************************************************************)
(* Properties                                                               *)
(***************************************************************************)

DispatchSteps == {"device", "publish", "log", "log_failure", "alert", "notify"}

\* Every variable has its type; a handler at work has a device and a reading,
\* and an action exactly while it dispatches one.
TypeOK ==
  /\ now \in Time
  /\ held \in [Device -> SUBSET Action]
  /\ lastAction \in [Device -> [Sensor -> Time \cup {Never}]]
  /\ job \in [Handler -> Job]
  /\ \A h \in Handler :
       /\ job[h].pc # "idle" => job[h].device \in Device /\ job[h].readings # <<>>
       /\ job[h].pc \in DispatchSteps <=> job[h].action # None
  /\ failures \in Nat
  /\ episode \in [Device -> [Action -> Nat]]
  /\ decided \in [Device -> [Sensor -> [Action -> Time \cup {Never}]]]
  /\ fate \in [Device -> [Action -> {"none", "published", "lost"}]]

\* An action is dispatched to a device at most once until a reading within
\* limits clears it, whichever sensors ask for it and however many telemetry
\* handlers run at once.
OncePerEpisode ==
  \A d \in Device, a \in Action :
    episode[d][a] <= 1 /\ (episode[d][a] = 1 <=> a \in held[d])

DispatchBy(h) == job[h].action = None /\ job'[h].action # None

LongAgo(t) == t = Never \/ now - t >= Cooldown

\* A sensor of a device dispatches nothing within the cooldown of its last
\* dispatch, of whatever action and level, while the process lives.
CooldownKept ==
  [][\A h \in Handler :
       DispatchBy(h) =>
         \A a \in Action :
           LongAgo(decided[job[h].device][Head(job[h].readings).sensor][a])]_vars

\* An action whose state is held back was published since its last dispatch,
\* is on its way, or was lost to a failure: no interleaving of handlers, and
\* no clearing between a decision and its publish, latches an action silently.
HeldWasSent ==
  \A d \in Device : \A a \in held[d] \ {AlertOnly} :
    \/ fate[d][a] # "none"
    \/ \E h \in Handler : /\ job[h].device = d /\ job[h].action = a
                         /\ job[h].pc \in {"device", "publish"}

\* "ThresholdService has a 30-second cooldown per device per action"
\* (plans/fcm-notification-test-flow.md).
CooldownPerAction ==
  [][\A h \in Handler :
       DispatchBy(h) =>
         \A s \in Sensor : LongAgo(decided[job[h].device][s][job'[h].action])]_vars

=============================================================================
