--------------------------- MODULE ThresholdProofs ---------------------------
(***************************************************************************)
(* Proofs about ThresholdService, for any devices, sensors, actions,        *)
(* thresholds, payloads and number of telemetry handlers.                   *)
(***************************************************************************)
EXTENDS ThresholdService, TLAPS

-----------------------------------------------------------------------------
(* Types *)

\* What TypeOK says of one handler.
HandlerOK(j) ==
  /\ j.pc # "idle" => j.device \in Device /\ j.readings # <<>>
  /\ j.pc \in DispatchSteps <=> j.action # None

\* A handler given a well-formed job leaves every handler well formed.
LEMMA BecomeTyped ==
  ASSUME TypeOK, NEW h \in Handler, NEW j \in Job, HandlerOK(j), Become(h, j)
  PROVE  /\ job' \in [Handler -> Job]
         /\ \A g \in Handler : HandlerOK(job'[g])
BY DEF TypeOK, HandlerOK, Become

\* A handler that does nothing is well formed.
LEMMA IdleTyped == Idle \in Job /\ HandlerOK(Idle)
<1>1. <<>> \in Seq(Reading)
  OBVIOUS
<1> QED
  BY <1>1 DEF Idle, Job, HandlerOK, DispatchSteps

\* Moving between two steps of a dispatch, or two steps outside one.
LEMMA GotoTyped ==
  ASSUME TypeOK, NEW h \in Handler, NEW step \in Steps, job[h].pc # "idle",
         step \in DispatchSteps <=> job[h].pc \in DispatchSteps,
         Goto(h, step)
  PROVE  /\ job' \in [Handler -> Job]
         /\ \A g \in Handler : HandlerOK(job'[g])
<1> DEFINE j == [job[h] EXCEPT !.pc = step]
<1>1. job[h] \in Job /\ HandlerOK(job[h])
  BY DEF TypeOK, HandlerOK
<1>2. j \in Job
  BY <1>1 DEF Job
<1>3. j.pc = step /\ j.device = job[h].device /\ j.readings = job[h].readings
        /\ j.action = job[h].action
  BY <1>1 DEF Job
<1>4. HandlerOK(j)
  BY <1>1, <1>3 DEF HandlerOK
<1>5. Become(h, j)
  BY DEF Goto
<1> HIDE DEF j
<1> QED
  BY <1>2, <1>4, <1>5, BecomeTyped

\* A handler that goes on is idle or evaluates a further reading, with no action.
LEMMA AdvanceTyped ==
  ASSUME NEW j \in Job, j.device \in Device, j.readings # <<>>
  PROVE  /\ Advance(j) \in Job
         /\ HandlerOK(Advance(j))
         /\ Advance(j).pc \in {"idle", "evaluate"}
         /\ Advance(j).action = None
<1>1. CASE Len(j.readings) > 1
  <2> DEFINE rest == Tail(j.readings)
  <2>1. j.readings \in Seq(Reading)
    BY DEF Job
  <2>2. rest \in Seq(Reading) /\ Len(rest) = Len(j.readings) - 1
    BY <2>1
  <2>3. rest # <<>>
    <3>1. Len(j.readings) \in Nat
      BY <2>1
    <3> HIDE DEF rest
    <3> DEFINE n == Len(j.readings)
    <3>2. n \in Nat /\ n > 1 /\ Len(rest) = n - 1
      BY <1>1, <2>2, <3>1
    <3> HIDE DEF n
    <3>3. Len(rest) # 0
      BY <3>2
    <3> QED
      BY <3>3
  <2>4. Advance(j) = [pc |-> "evaluate", device |-> j.device, readings |-> rest,
                      action |-> None]
    BY <1>1 DEF Advance, Evaluating
  <2> HIDE DEF rest
  <2>5. /\ Advance(j).pc = "evaluate" /\ Advance(j).readings = rest
        /\ Advance(j).action = None /\ Advance(j).device = j.device
    BY <2>4
  <2>6. Advance(j) \in Job
    BY <2>2, <2>4 DEF Job, Steps
  <2> QED
    BY <2>3, <2>5, <2>6 DEF HandlerOK, DispatchSteps
<1>2. CASE ~(Len(j.readings) > 1)
  <2>1. Advance(j) = Idle
    BY <1>2 DEF Advance
  <2> QED
    BY <2>1, IdleTyped DEF Idle
<1> QED
  BY <1>1, <1>2

\* The maps start empty and every handler idle.
LEMMA InitTyped == Init => TypeOK
<1> SUFFICES ASSUME Init PROVE TypeOK
  OBVIOUS
<1>1. \A h \in Handler : job[h] = Idle
  BY DEF Init
<1>2. job \in [Handler -> Job] /\ \A h \in Handler : HandlerOK(job[h])
  BY <1>1, IdleTyped DEF Init
<1>3. 1 \in Time
  BY ConstantsAssumption DEF Time
<1> QED
  BY <1>2, <1>3 DEF Init, TypeOK, HandlerOK

\* The handlers are well formed after every step.
LEMMA HandlersTyped ==
  TypeOK /\ [Next]_vars => /\ job' \in [Handler -> Job]
                           /\ \A g \in Handler : HandlerOK(job'[g])
<1> SUFFICES ASSUME TypeOK, [Next]_vars
             PROVE  /\ job' \in [Handler -> Job]
                    /\ \A g \in Handler : HandlerOK(job'[g])
  OBVIOUS
<1>0. \A h \in Handler : job[h] \in Job /\ HandlerOK(job[h])
  BY DEF TypeOK, HandlerOK
<1>1. CASE Tick \/ UNCHANGED vars
  BY <1>0, <1>1 DEF TypeOK, Tick, vars
<1>2. ASSUME NEW h \in Handler, NEW d \in Device, TelemetryReceived(h, d)
      PROVE  /\ job' \in [Handler -> Job]
             /\ \A g \in Handler : HandlerOK(job'[g])
  <2> DEFINE J(p) == [pc |-> "store", device |-> d, readings |-> p, action |-> None]
  <2>1. PICK p \in Payload : p # <<>> /\ Become(h, J(p))
    BY <1>2 DEF TelemetryReceived
  <2>2. p \in Seq(Reading)
    BY ConstantsAssumption
  <2>3. J(p) \in Job /\ HandlerOK(J(p))
    BY <2>1, <2>2 DEF Job, HandlerOK, Steps, DispatchSteps
  <2> HIDE DEF J
  <2> QED
    BY <2>1, <2>3, BecomeTyped
<1>3. ASSUME NEW h \in Handler, WithinLimits(h) \/ Blocked(h) \/ Notify(h)
      PROVE  /\ job' \in [Handler -> Job]
             /\ \A g \in Handler : HandlerOK(job'[g])
  <2>1. job[h].pc # "idle" /\ Become(h, Advance(job[h]))
    BY <1>3 DEF WithinLimits, Blocked, Notify
  <2>2. job[h] \in Job /\ job[h].device \in Device /\ job[h].readings # <<>>
    BY <1>0, <2>1 DEF HandlerOK
  <2> QED
    BY <2>1, <2>2, AdvanceTyped, BecomeTyped
<1>4. ASSUME NEW h \in Handler, Dispatch(h)
      PROVE  /\ job' \in [Handler -> Job]
             /\ \A g \in Handler : HandlerOK(job'[g])
  <2>1. PICK t \in First(Head(job[h].readings)) :
          Become(h, [job[h] EXCEPT !.action = t.action,
                                   !.pc = IF t.action = AlertOnly THEN "alert" ELSE "device"])
    BY <1>4 DEF Dispatch
  <2> DEFINE step == IF t.action = AlertOnly THEN "alert" ELSE "device"
             j == [job[h] EXCEPT !.action = t.action, !.pc = step]
  <2>2. job[h].pc = "evaluate" /\ job[h] \in Job /\ HandlerOK(job[h])
    BY <1>0, <1>4 DEF Dispatch
  <2>3. job[h].readings # <<>> /\ job[h].device \in Device
    BY <2>2 DEF HandlerOK
  <2>4. Head(job[h].readings) \in Reading
    BY <2>2, <2>3 DEF Job
  <2>5. t \in Threshold
    BY <2>4 DEF First, Violated, Reading
  <2>6. t.action \in Action /\ t.action # None
    BY <2>5, ConstantsAssumption DEF Threshold
  <2>7. step \in Steps /\ step \in DispatchSteps
    BY DEF Steps, DispatchSteps
  <2> HIDE DEF step
  <2>8. j \in Job /\ j.pc = step /\ j.action = t.action
          /\ j.readings = job[h].readings /\ j.device = job[h].device
    BY <2>2, <2>6, <2>7 DEF Job
  <2>9. HandlerOK(j)
    BY <2>3, <2>6, <2>7, <2>8 DEF HandlerOK
  <2>10. Become(h, j)
    BY <2>1 DEF step
  <2> HIDE DEF j
  <2> QED
    BY <2>8, <2>9, <2>10, BecomeTyped
<1>5. ASSUME NEW h \in Handler,
             Store(h) \/ FindDevice(h) \/ Publish(h) \/ LogCommand(h) \/ LogAlert(h)
               \/ DispatchFails(h)
      PROVE  /\ job' \in [Handler -> Job]
             /\ \A g \in Handler : HandlerOK(job'[g])
  <2>1. PICK step \in Steps :
          /\ Goto(h, step)
          /\ job[h].pc # "idle"
          /\ step \in DispatchSteps <=> job[h].pc \in DispatchSteps
    BY <1>5 DEF Store, FindDevice, Publish, LogCommand, LogAlert, DispatchFails,
                Steps, DispatchSteps
  <2> QED
    BY <2>1, GotoTyped
<1>6. ASSUME NEW h \in Handler, HandlerFails(h)
      PROVE  /\ job' \in [Handler -> Job]
             /\ \A g \in Handler : HandlerOK(job'[g])
  <2>1. CASE job[h].pc = "log_failure"
    <3>1. Goto(h, "alert")
      BY <1>6, <2>1 DEF HandlerFails
    <3> QED
      BY <2>1, <3>1, GotoTyped DEF Steps, DispatchSteps
  <2>2. CASE job[h].pc # "log_failure"
    <3>1. Become(h, Idle)
      BY <1>6, <2>2 DEF HandlerFails
    <3> QED
      BY <3>1, IdleTyped, BecomeTyped
  <2> QED
    BY <2>1, <2>2
<1>7. CASE Restart
  BY <1>7, IdleTyped DEF Restart
<1> QED
  BY <1>1, <1>2, <1>3, <1>4, <1>5, <1>6, <1>7 DEF Next, Handle

\* What TypeOK says of the variables other than job.
MapsTyped ==
  /\ now \in Time
  /\ held \in [Device -> SUBSET Action]
  /\ lastAction \in [Device -> [Sensor -> Time \cup {Never}]]
  /\ failures \in Nat
  /\ episode \in [Device -> [Action -> Nat]]
  /\ decided \in [Device -> [Sensor -> [Action -> Time \cup {Never}]]]
  /\ fate \in [Device -> [Action -> {"none", "published", "lost"}]]

\* What a handler that evaluates has in hand.
LEMMA Evaluates ==
  ASSUME TypeOK, NEW h \in Handler, job[h].pc = "evaluate"
  PROVE  /\ job[h].device \in Device
         /\ Head(job[h].readings) \in Reading
         /\ job[h].action = None
         /\ \A t \in Head(job[h].readings).thresholds : t.action \in Action
         /\ \A t \in First(Head(job[h].readings)) : t.action \in Action
<1>1. job[h] \in Job /\ job[h].device \in Device /\ job[h].readings # <<>>
  BY DEF TypeOK
<1>2. job[h].action = None
  BY DEF TypeOK, DispatchSteps
<1> DEFINE r == Head(job[h].readings)
<1>3. r \in Reading
  BY <1>1 DEF Job
<1> HIDE DEF r
<1>4. r.thresholds \subseteq Threshold
  BY <1>3 DEF Reading
<1>5. First(r) \subseteq r.thresholds
  BY DEF First, Violated
<1>6. \A t \in r.thresholds : t.action \in Action
  BY <1>4 DEF Threshold
<1> QED
  BY <1>1, <1>2, <1>3, <1>5, <1>6 DEF r

\* A handler that dispatches has a device and an action.
LEMMA Dispatches ==
  ASSUME TypeOK, NEW h \in Handler, job[h].pc \in DispatchSteps
  PROVE  job[h].device \in Device /\ job[h].action \in Action
<1>1. job[h] \in Job /\ HandlerOK(job[h])
  BY DEF TypeOK, HandlerOK
<1> QED
  BY <1>1 DEF HandlerOK, Job, DispatchSteps

\* A dispatch, with the types of the device, the sensor and the action.
Dispatched(h, d, s, a) ==
  /\ job[h].device = d
  /\ Head(job[h].readings).sensor = s
  /\ ShouldDispatch(d, s, a)
  /\ held' = [held EXCEPT ![d] = @ \cup {a}]
  /\ lastAction' = [lastAction EXCEPT ![d][s] = now]
  /\ episode' = [episode EXCEPT ![d][a] = @ + 1]
  /\ decided' = [decided EXCEPT ![d][s][a] = now]
  /\ fate' = [fate EXCEPT ![d][a] = "none"]
  /\ Become(h, [job[h] EXCEPT !.action = a,
                              !.pc = IF a = AlertOnly THEN "alert" ELSE "device"])
  /\ UNCHANGED <<now, failures>>

\* What Dispatch does, with the device, sensor and action it concerns.
LEMMA DispatchIs ==
  ASSUME TypeOK, NEW h \in Handler, Dispatch(h)
  PROVE  \E d \in Device, s \in Sensor, a \in Action : Dispatched(h, d, s, a)
<1>1. job[h].pc = "evaluate"
  BY DEF Dispatch
<1> DEFINE d == job[h].device
           r == Head(job[h].readings)
           s == r.sensor
<1>2. d \in Device /\ r \in Reading /\ \A t \in First(r) : t.action \in Action
  BY <1>1, Evaluates
<1>3. s \in Sensor
  BY <1>2 DEF Reading
<1>4. PICK t \in First(r) : Dispatched(h, d, s, t.action)
  BY DEF Dispatch, Dispatched
<1> HIDE DEF d, r, s
<1> QED
  BY <1>2, <1>3, <1>4

\* The clock, the maps and the history keep their types.
LEMMA MapsStayTyped == TypeOK /\ [Next]_vars => MapsTyped'
<1> SUFFICES ASSUME TypeOK, [Next]_vars PROVE MapsTyped'
  OBVIOUS
<1>0. MapsTyped
  BY DEF TypeOK, MapsTyped
<1>1. CASE Tick
  <2>1. now' \in Time
    BY <1>0, <1>1, ConstantsAssumption DEF MapsTyped, Tick, Time
  <2> QED
    BY <1>0, <1>1, <2>1 DEF MapsTyped, Tick
<1>2. CASE UNCHANGED vars
  BY <1>0, <1>2 DEF MapsTyped, vars
<1>3. ASSUME NEW h \in Handler, NEW d \in Device, TelemetryReceived(h, d)
      PROVE  MapsTyped'
  BY <1>0, <1>3 DEF MapsTyped, TelemetryReceived
<1>4. ASSUME NEW h \in Handler,
             Store(h) \/ Blocked(h) \/ FindDevice(h) \/ LogCommand(h) \/ LogAlert(h)
               \/ Notify(h) \/ HandlerFails(h)
      PROVE  MapsTyped'
  BY <1>0, <1>4 DEF MapsTyped, Store, Blocked, FindDevice, LogCommand, LogAlert, Notify,
                    HandlerFails
<1>5. ASSUME NEW h \in Handler, WithinLimits(h)
      PROVE  MapsTyped'
  <2> DEFINE d == job[h].device
             cleared == {t.action : t \in Head(job[h].readings).thresholds}
             zeroed == [a \in Action |-> IF a \in cleared THEN 0 ELSE episode[d][a]]
  <2>1. /\ held' = [held EXCEPT ![d] = @ \ cleared]
        /\ episode' = [episode EXCEPT ![d] = zeroed]
        /\ UNCHANGED <<now, lastAction, failures, decided, fate>>
    BY <1>5 DEF WithinLimits
  <2>2. d \in Device
    BY <1>5, Evaluates DEF WithinLimits
  <2> HIDE DEF d, cleared
  <2>3. zeroed \in [Action -> Nat]
    BY <1>0, <2>2 DEF MapsTyped
  <2> HIDE DEF zeroed
  <2>4. held' \in [Device -> SUBSET Action]
    BY <1>0, <2>1 DEF MapsTyped
  <2>5. episode' \in [Device -> [Action -> Nat]]
    BY <1>0, <2>1, <2>3 DEF MapsTyped
  <2> QED
    BY <1>0, <2>1, <2>4, <2>5 DEF MapsTyped
<1>6. ASSUME NEW h \in Handler, Dispatch(h)
      PROVE  MapsTyped'
  <2>1. PICK d \in Device, s \in Sensor, a \in Action : Dispatched(h, d, s, a)
    BY <1>6, DispatchIs
  <2>2. held' \in [Device -> SUBSET Action]
    BY <1>0, <2>1 DEF MapsTyped, Dispatched
  <2>3. lastAction' \in [Device -> [Sensor -> Time \cup {Never}]]
    BY <1>0, <2>1 DEF MapsTyped, Dispatched
  <2>4. episode' \in [Device -> [Action -> Nat]]
    BY <1>0, <2>1 DEF MapsTyped, Dispatched
  <2>5. decided' \in [Device -> [Sensor -> [Action -> Time \cup {Never}]]]
    BY <1>0, <2>1 DEF MapsTyped, Dispatched
  <2>6. fate' \in [Device -> [Action -> {"none", "published", "lost"}]]
    BY <1>0, <2>1 DEF MapsTyped, Dispatched
  <2>7. UNCHANGED <<now, failures>>
    BY <2>1 DEF Dispatched
  <2> QED
    BY <1>0, <2>2, <2>3, <2>4, <2>5, <2>6, <2>7 DEF MapsTyped
<1>7. ASSUME NEW h \in Handler, Publish(h) \/ DispatchFails(h)
      PROVE  MapsTyped'
  <2> DEFINE d == job[h].device
             a == job[h].action
  <2>1. \/ fate' = [fate EXCEPT ![d][a] = "published"]
        \/ fate' = [fate EXCEPT ![d][a] = "lost"]
        \/ fate' = fate
    BY <1>7 DEF Publish, DispatchFails
  <2>2. d \in Device /\ a \in Action
    BY <1>7, Dispatches DEF Publish, DispatchFails, DispatchSteps
  <2> HIDE DEF d, a
  <2>3. fate' \in [Device -> [Action -> {"none", "published", "lost"}]]
    <3> DEFINE row(v) == [fate[d] EXCEPT ![a] = v]
    <3>1. \A v \in {"published", "lost"} :
            row(v) \in [Action -> {"none", "published", "lost"}]
      BY <1>0, <2>2 DEF MapsTyped
    <3>2. \/ \E v \in {"published", "lost"} : fate' = [fate EXCEPT ![d] = row(v)]
          \/ fate' = fate
      BY <2>1
    <3> HIDE DEF row
    <3> QED
      BY <1>0, <2>2, <3>1, <3>2 DEF MapsTyped
  <2>4. failures' \in Nat /\ UNCHANGED <<now, held, lastAction, episode, decided>>
    BY <1>0, <1>7 DEF MapsTyped, Publish, DispatchFails
  <2> QED
    BY <1>0, <2>3, <2>4 DEF MapsTyped
<1>8. CASE Restart
  BY <1>0, <1>8 DEF MapsTyped, Restart
<1> QED
  BY <1>1, <1>2, <1>3, <1>4, <1>5, <1>6, <1>7, <1>8 DEF Next, Handle

\* Every variable keeps its type, and a handler at work has a device, a reading
\* and, while it dispatches, an action.
THEOREM TypeInvariant == Spec => []TypeOK
<1>1. TypeOK /\ [Next]_vars => TypeOK'
  BY HandlersTyped, MapsStayTyped DEF TypeOK, MapsTyped, HandlerOK
<1> QED
  BY <1>1, InitTyped, PTL DEF Spec

-----------------------------------------------------------------------------
(* One dispatch in an episode *)

\* A dispatch, action by action of each device.
LEMMA DispatchPointwise ==
  ASSUME TypeOK, NEW h \in Handler,
         NEW d \in Device, NEW s \in Sensor, NEW a \in Action, Dispatched(h, d, s, a),
         NEW e \in Device, NEW b \in Action
  PROVE  /\ b \in held'[e] <=> b \in held[e] \/ (e = d /\ b = a)
         /\ e = d /\ b = a => episode'[e][b] = episode[e][b] + 1 /\ fate'[e][b] = "none"
         /\ ~(e = d /\ b = a) => episode'[e][b] = episode[e][b] /\ fate'[e][b] = fate[e][b]
<1>1. /\ held \in [Device -> SUBSET Action]
      /\ episode \in [Device -> [Action -> Nat]]
      /\ fate \in [Device -> [Action -> {"none", "published", "lost"}]]
  BY DEF TypeOK
<1>2. b \in held'[e] <=> b \in held[e] \/ (e = d /\ b = a)
  BY <1>1 DEF Dispatched
<1>3. e = d /\ b = a => episode'[e][b] = episode[e][b] + 1 /\ fate'[e][b] = "none"
  BY <1>1 DEF Dispatched
<1>4. ~(e = d /\ b = a) => episode'[e][b] = episode[e][b] /\ fate'[e][b] = fate[e][b]
  BY <1>1 DEF Dispatched
<1> QED
  BY <1>2, <1>3, <1>4

\* Check and update of deviceStates are one step: a held action is not dispatched.
LEMMA EpisodeStep == TypeOK /\ OncePerEpisode /\ [Next]_vars => OncePerEpisode'
<1> SUFFICES ASSUME TypeOK, OncePerEpisode, [Next]_vars,
                    NEW e \in Device, NEW b \in Action
             PROVE  (episode[e][b] <= 1 /\ (episode[e][b] = 1 <=> b \in held[e]))'
  BY DEF OncePerEpisode
<1>0. episode[e][b] \in Nat /\ episode[e][b] <= 1 /\ (episode[e][b] = 1 <=> b \in held[e])
  BY DEF OncePerEpisode, TypeOK
<1>1. CASE Tick \/ UNCHANGED vars
  BY <1>0, <1>1 DEF Tick, vars
<1>2. ASSUME NEW h \in Handler, NEW d \in Device, TelemetryReceived(h, d)
      PROVE  (episode[e][b] <= 1 /\ (episode[e][b] = 1 <=> b \in held[e]))'
  BY <1>0, <1>2 DEF TelemetryReceived
<1>3. ASSUME NEW h \in Handler,
             \/ Store(h) \/ Blocked(h) \/ FindDevice(h) \/ Publish(h) \/ LogCommand(h)
             \/ LogAlert(h) \/ Notify(h) \/ DispatchFails(h) \/ HandlerFails(h)
      PROVE  (episode[e][b] <= 1 /\ (episode[e][b] = 1 <=> b \in held[e]))'
  BY <1>0, <1>3 DEF Store, Blocked, FindDevice, Publish, LogCommand, LogAlert, Notify,
                    DispatchFails, HandlerFails
<1>4. ASSUME NEW h \in Handler, WithinLimits(h)
      PROVE  (episode[e][b] <= 1 /\ (episode[e][b] = 1 <=> b \in held[e]))'
  <2> DEFINE d == job[h].device
             cleared == {t.action : t \in Head(job[h].readings).thresholds}
             zeroed == [a \in Action |-> IF a \in cleared THEN 0 ELSE episode[d][a]]
  <2>1. held' = [held EXCEPT ![d] = @ \ cleared] /\ episode' = [episode EXCEPT ![d] = zeroed]
    BY <1>4 DEF WithinLimits
  <2>2. zeroed[b] = IF b \in cleared THEN 0 ELSE episode[d][b]
    OBVIOUS
  <2>3. held \in [Device -> SUBSET Action] /\ episode \in [Device -> [Action -> Nat]]
    BY DEF TypeOK
  <2> HIDE DEF cleared, zeroed, d
  <2>4. CASE e = d
    <3>1. b \in held'[e] <=> b \in held[e] /\ b \notin cleared
      BY <2>1, <2>3, <2>4
    <3>2. episode'[e][b] = IF b \in cleared THEN 0 ELSE episode[e][b]
      BY <2>1, <2>2, <2>3, <2>4
    <3> QED
      BY <1>0, <3>1, <3>2
  <2>5. CASE e # d
    <3>1. held'[e] = held[e] /\ episode'[e] = episode[e]
      BY <2>1, <2>3, <2>5
    <3> QED
      BY <1>0, <3>1
  <2> QED
    BY <2>4, <2>5
<1>5. ASSUME NEW h \in Handler, Dispatch(h)
      PROVE  (episode[e][b] <= 1 /\ (episode[e][b] = 1 <=> b \in held[e]))'
  <2>1. PICK d \in Device, s \in Sensor, a \in Action : Dispatched(h, d, s, a)
    BY <1>5, DispatchIs
  <2>2. a \notin held[d]
    BY <2>1 DEF Dispatched, ShouldDispatch
  <2>3. /\ b \in held'[e] <=> b \in held[e] \/ (e = d /\ b = a)
        /\ e = d /\ b = a => episode'[e][b] = episode[e][b] + 1
        /\ ~(e = d /\ b = a) => episode'[e][b] = episode[e][b]
    BY <2>1, DispatchPointwise
  <2> QED
    BY <1>0, <2>2, <2>3
<1>6. CASE Restart
  BY <1>6 DEF Restart
<1> QED
  BY <1>1, <1>2, <1>3, <1>4, <1>5, <1>6 DEF Next, Handle

\* However many telemetry handlers interleave, an action is dispatched to a device
\* at most once between two readings that clear it.
THEOREM DispatchedOnce == Spec => []OncePerEpisode
<1>1. Init => OncePerEpisode
  BY DEF Init, OncePerEpisode
<1> QED
  BY <1>1, EpisodeStep, TypeInvariant, PTL DEF Spec

-----------------------------------------------------------------------------
(* The cooldown *)

\* The cooldown map remembers the last dispatch of every action, and is not ahead
\* of the clock.
Remembers ==
  \A d \in Device, s \in Sensor :
    /\ lastAction[d][s] <= now
    /\ \A a \in Action : decided[d][s][a] <= lastAction[d][s]

\* The maps of the cooldown after a dispatch.
LEMMA CooldownPointwise ==
  ASSUME TypeOK, NEW h \in Handler,
         NEW d \in Device, NEW s \in Sensor, NEW a \in Action, Dispatched(h, d, s, a),
         NEW e \in Device, NEW q \in Sensor, NEW b \in Action
  PROVE  /\ lastAction'[e][q] = IF e = d /\ q = s THEN now ELSE lastAction[e][q]
         /\ decided'[e][q][b] = IF e = d /\ q = s /\ b = a THEN now ELSE decided[e][q][b]
<1>1. /\ lastAction \in [Device -> [Sensor -> Time \cup {Never}]]
      /\ decided \in [Device -> [Sensor -> [Action -> Time \cup {Never}]]]
  BY DEF TypeOK
<1>2. lastAction'[e][q] = IF e = d /\ q = s THEN now ELSE lastAction[e][q]
  BY <1>1 DEF Dispatched
<1>3. decided'[e][q][b] = IF e = d /\ q = s /\ b = a THEN now ELSE decided[e][q][b]
  BY <1>1 DEF Dispatched
<1> QED
  BY <1>2, <1>3

\* lastActionTime is written with every dispatch, and only then.
LEMMA RemembersStep == TypeOK /\ Remembers /\ [Next]_vars => Remembers'
<1> SUFFICES ASSUME TypeOK, Remembers, [Next]_vars,
                    NEW e \in Device, NEW q \in Sensor, NEW b \in Action
             PROVE  (lastAction[e][q] <= now /\ decided[e][q][b] <= lastAction[e][q])'
  <2>1. Action # {}
    BY ConstantsAssumption
  <2> QED
    BY <2>1 DEF Remembers
<1>0. /\ lastAction[e][q] <= now /\ decided[e][q][b] <= lastAction[e][q]
      /\ lastAction[e][q] \in Nat /\ decided[e][q][b] \in Nat /\ now \in Nat
  BY DEF Remembers, TypeOK, Time, Never
<1>1. CASE Tick \/ UNCHANGED vars
  BY <1>0, <1>1 DEF Tick, vars
<1>2. ASSUME NEW h \in Handler, NEW d \in Device, TelemetryReceived(h, d)
      PROVE  (lastAction[e][q] <= now /\ decided[e][q][b] <= lastAction[e][q])'
  BY <1>0, <1>2 DEF TelemetryReceived
<1>3. ASSUME NEW h \in Handler,
             \/ Store(h) \/ WithinLimits(h) \/ Blocked(h) \/ FindDevice(h) \/ Publish(h)
             \/ LogCommand(h) \/ LogAlert(h) \/ Notify(h) \/ DispatchFails(h)
             \/ HandlerFails(h)
      PROVE  (lastAction[e][q] <= now /\ decided[e][q][b] <= lastAction[e][q])'
  BY <1>0, <1>3 DEF Store, WithinLimits, Blocked, FindDevice, Publish, LogCommand,
                    LogAlert, Notify, DispatchFails, HandlerFails
<1>4. ASSUME NEW h \in Handler, Dispatch(h)
      PROVE  (lastAction[e][q] <= now /\ decided[e][q][b] <= lastAction[e][q])'
  <2>1. PICK d \in Device, s \in Sensor, a \in Action : Dispatched(h, d, s, a)
    BY <1>4, DispatchIs
  <2>2. /\ lastAction'[e][q] = IF e = d /\ q = s THEN now ELSE lastAction[e][q]
        /\ decided'[e][q][b] = IF e = d /\ q = s /\ b = a THEN now ELSE decided[e][q][b]
    BY <2>1, CooldownPointwise
  <2>3. now' = now
    BY <2>1 DEF Dispatched
  <2> QED
    BY <1>0, <2>2, <2>3
<1>5. CASE Restart
  BY <1>0, <1>5 DEF Restart, Never
<1> QED
  BY <1>1, <1>2, <1>3, <1>4, <1>5 DEF Next, Handle

\* Only Dispatch gives a handler an action.
LEMMA OnlyDispatch ==
  ASSUME TypeOK, [Next]_vars, NEW h \in Handler, DispatchBy(h)
  PROVE  Dispatch(h)
<1>0. job \in [Handler -> Job] /\ job[h].action = None /\ job'[h].action # None
  BY DEF TypeOK, DispatchBy
<1>1. CASE Tick \/ UNCHANGED vars
  BY <1>0, <1>1 DEF Tick, vars
<1>2. ASSUME NEW g \in Handler, NEW d \in Device, TelemetryReceived(g, d)
      PROVE  FALSE
  <2>1. PICK p \in Payload :
          Become(g, [pc |-> "store", device |-> d, readings |-> p, action |-> None])
    BY <1>2 DEF TelemetryReceived
  <2> QED
    BY <1>0, <2>1 DEF Become
<1>3. ASSUME NEW g \in Handler, WithinLimits(g) \/ Blocked(g) \/ Notify(g)
      PROVE  FALSE
  <2>1. Become(g, Advance(job[g])) /\ job[g].pc # "idle"
    BY <1>3 DEF WithinLimits, Blocked, Notify
  <2>2. Advance(job[g]).action = None
    BY <2>1, AdvanceTyped DEF TypeOK
  <2> QED
    BY <1>0, <2>1, <2>2 DEF Become
<1>4. ASSUME NEW g \in Handler, NEW step, Goto(g, step)
      PROVE  FALSE
  BY <1>0, <1>4 DEF Goto, Become, Job
<1>5. ASSUME NEW g \in Handler,
             Store(g) \/ FindDevice(g) \/ Publish(g) \/ LogCommand(g) \/ LogAlert(g)
               \/ DispatchFails(g)
      PROVE  FALSE
  BY <1>4, <1>5 DEF Store, FindDevice, Publish, LogCommand, LogAlert, DispatchFails
<1>6. ASSUME NEW g \in Handler, HandlerFails(g)
      PROVE  FALSE
  <2>1. Goto(g, "alert") \/ Become(g, Idle)
    BY <1>6 DEF HandlerFails
  <2> QED
    BY <1>0, <1>4, <2>1 DEF Become, Idle
<1>7. ASSUME NEW g \in Handler, Dispatch(g)
      PROVE  g = h
  <2>1. PICK d \in Device, s \in Sensor, a \in Action : Dispatched(g, d, s, a)
    BY <1>7, DispatchIs
  <2> QED
    BY <1>0, <2>1 DEF Dispatched, Become
<1>8. CASE Restart
  BY <1>0, <1>8 DEF Restart, Idle
<1> QED
  BY <1>1, <1>2, <1>3, <1>5, <1>6, <1>7, <1>8 DEF Next, Handle

\* What a step may do: within the cooldown of its last dispatch, a sensor of a
\* device dispatches nothing.
LEMMA CooldownStep ==
  ASSUME TypeOK, Remembers, [Next]_vars, NEW h \in Handler, DispatchBy(h), NEW b \in Action
  PROVE  LongAgo(decided[job[h].device][Head(job[h].readings).sensor][b])
<1>1. Dispatch(h)
  BY OnlyDispatch
<1>2. PICK d \in Device, s \in Sensor, a \in Action : Dispatched(h, d, s, a)
  BY <1>1, DispatchIs
<1>3. ~Cooling(d, s) /\ job[h].device = d /\ Head(job[h].readings).sensor = s
  BY <1>2 DEF Dispatched, ShouldDispatch
<1>4. /\ decided[d][s][b] <= lastAction[d][s]
      /\ lastAction[d][s] \in Nat /\ decided[d][s][b] \in Nat /\ now \in Nat
  BY DEF Remembers, TypeOK, Time, Never
<1>5. Cooldown \in Nat
  BY ConstantsAssumption
<1>6. LongAgo(decided[d][s][b])
  BY <1>3, <1>4, <1>5 DEF Cooling, LongAgo, Never
<1> QED
  BY <1>3, <1>6

\* A sensor of a device has its cooldown between two dispatches, whatever actions
\* and levels they are of and whichever handlers take them.
THEOREM CooldownHolds == Spec => CooldownKept
<1>1. Init => Remembers
  BY ConstantsAssumption DEF Init, Remembers, Never
<1>2. TypeOK /\ Remembers /\ [Next]_vars =>
        [\A h \in Handler :
           DispatchBy(h) =>
             \A a \in Action :
               LongAgo(decided[job[h].device][Head(job[h].readings).sensor][a])]_vars
  BY CooldownStep
<1> QED
  BY <1>1, <1>2, RemembersStep, TypeInvariant, PTL DEF Spec, CooldownKept

-----------------------------------------------------------------------------
(* An action whose state is held was sent *)

\* The handler carries the dispatch of an action that is not published yet.
Carries(h, d, a) ==
  job[h].device = d /\ job[h].action = a /\ job[h].pc \in {"device", "publish"}

Sent(d, a) == fate[d][a] # "none" \/ \E h \in Handler : Carries(h, d, a)

\* It is enough to look at actions a threshold can ask for.
LEMMA SentSuffices ==
  ASSUME TypeOK, [Next]_vars,
         \A d \in Device, a \in Action : a \in held'[d] /\ a # AlertOnly => Sent(d, a)'
  PROVE  HeldWasSent'
<1>1. \A d \in Device : held'[d] \subseteq Action
  BY MapsStayTyped DEF MapsTyped
<1> QED
  BY <1>1 DEF HeldWasSent, Sent, Carries

\* A handler that carries nothing changes job and nothing else of what Sent reads.
LEMMA CarriersKept ==
  ASSUME TypeOK, HeldWasSent, [Next]_vars, NEW h \in Handler, NEW j, Become(h, j),
         job[h].pc \notin {"device", "publish"}, fate' = fate,
         \A d \in Device : held'[d] \cap Action \subseteq held[d]
  PROVE  HeldWasSent'
<1> SUFFICES ASSUME NEW d \in Device, NEW a \in Action, a \in held'[d], a # AlertOnly
             PROVE  Sent(d, a)'
  BY SentSuffices
<1>1. Sent(d, a)
  BY DEF HeldWasSent, Sent, Carries
<1>2. \A g \in Handler : Carries(g, d, a) => Carries(g, d, a)'
  BY DEF TypeOK, Carries, Become
<1> QED
  BY <1>1, <1>2 DEF Sent

\* Every step keeps a held action sent, or with a handler that will send it.
LEMMA SentStep == TypeOK /\ HeldWasSent /\ [Next]_vars => HeldWasSent'
<1> SUFFICES ASSUME TypeOK, HeldWasSent, [Next]_vars PROVE HeldWasSent'
  OBVIOUS
<1>0. /\ job \in [Handler -> Job]
      /\ held \in [Device -> SUBSET Action]
      /\ fate \in [Device -> [Action -> {"none", "published", "lost"}]]
  BY DEF TypeOK
<1>1. CASE Tick \/ UNCHANGED vars
  BY <1>1 DEF Tick, vars, HeldWasSent
<1>2. ASSUME NEW h \in Handler, NEW d \in Device, TelemetryReceived(h, d)
      PROVE  HeldWasSent'
  <2>1. PICK p \in Payload :
          Become(h, [pc |-> "store", device |-> d, readings |-> p, action |-> None])
    BY <1>2 DEF TelemetryReceived
  <2>2. job[h].pc \notin {"device", "publish"} /\ fate' = fate /\ held' = held
    BY <1>2 DEF TelemetryReceived
  <2> QED
    BY <2>1, <2>2, CarriersKept
<1>3. ASSUME NEW h \in Handler,
             \/ Store(h) \/ Blocked(h) \/ LogCommand(h) \/ LogAlert(h) \/ Notify(h)
             \/ HandlerFails(h)
      PROVE  HeldWasSent'
  <2>1. \E j : Become(h, j)
    BY <1>3 DEF Store, Blocked, LogCommand, LogAlert, Notify, HandlerFails, Goto
  <2>2. job[h].pc \notin {"device", "publish"} /\ fate' = fate /\ held' = held
    BY <1>3 DEF Store, Blocked, LogCommand, LogAlert, Notify, HandlerFails
  <2> QED
    BY <2>1, <2>2, CarriersKept
<1>4. ASSUME NEW h \in Handler, WithinLimits(h)
      PROVE  HeldWasSent'
  <2> DEFINE cleared == {t.action : t \in Head(job[h].readings).thresholds}
  <2>1. /\ Become(h, Advance(job[h]))
        /\ job[h].pc = "evaluate"
        /\ fate' = fate
        /\ held' = [held EXCEPT ![job[h].device] = @ \ cleared]
    BY <1>4 DEF WithinLimits
  <2> HIDE DEF cleared
  <2>2. \A d \in Device : held'[d] \cap Action \subseteq held[d]
    BY <1>0, <2>1
  <2> QED
    BY <2>1, <2>2, CarriersKept
<1>5. ASSUME NEW h \in Handler, Dispatch(h)
      PROVE  HeldWasSent'
  <2>1. PICK d \in Device, s \in Sensor, a \in Action : Dispatched(h, d, s, a)
    BY <1>5, DispatchIs
  <2> SUFFICES ASSUME NEW e \in Device, NEW b \in Action, b \in held'[e], b # AlertOnly
               PROVE  Sent(e, b)'
    BY SentSuffices
  <2>2. CASE e = d /\ b = a
    <3> DEFINE j == [job[h] EXCEPT !.action = a, !.pc = "device"]
    <3>1. job' = [job EXCEPT ![h] = j] /\ job[h].device = d
      BY <2>1, <2>2 DEF Dispatched, Become
    <3>2. j.device = job[h].device /\ j.action = a /\ j.pc = "device"
      BY <1>0 DEF Job
    <3> HIDE DEF j
    <3>3. job'[h] = j
      BY <1>0, <3>1
    <3> QED
      BY <2>2, <3>1, <3>2, <3>3 DEF Sent, Carries
  <2>3. CASE ~(e = d /\ b = a)
    <3>1. b \in held[e] /\ fate'[e][b] = fate[e][b]
      BY <2>1, <2>3, DispatchPointwise
    <3>2. Sent(e, b)
      BY <3>1 DEF HeldWasSent, Sent, Carries
    <3>3. \A g \in Handler : Carries(g, e, b) => g # h /\ job'[g] = job[g]
      BY <1>0, <1>5, <2>1 DEF Carries, Dispatch, Dispatched, Become
    <3> QED
      BY <3>1, <3>2, <3>3 DEF Sent, Carries
  <2> QED
    BY <2>2, <2>3
<1>6. ASSUME NEW h \in Handler, FindDevice(h)
      PROVE  HeldWasSent'
  <2> SUFFICES ASSUME NEW e \in Device, NEW b \in Action, b \in held'[e], b # AlertOnly
               PROVE  Sent(e, b)'
    BY SentSuffices
  <2> DEFINE j == [job[h] EXCEPT !.pc = "publish"]
  <2>1. job' = [job EXCEPT ![h] = j] /\ held' = held /\ fate' = fate
    BY <1>6 DEF FindDevice, Goto, Become
  <2>2. j.device = job[h].device /\ j.action = job[h].action /\ j.pc = "publish"
    BY <1>0 DEF Job
  <2> HIDE DEF j
  <2>3. Sent(e, b)
    BY <2>1 DEF HeldWasSent, Sent, Carries
  <2>4. \A g \in Handler : Carries(g, e, b) => Carries(g, e, b)'
    BY <1>0, <2>1, <2>2 DEF Carries
  <2> QED
    BY <2>1, <2>3, <2>4 DEF Sent
<1>7. ASSUME NEW h \in Handler, Publish(h) \/ DispatchFails(h)
      PROVE  HeldWasSent'
  <2> SUFFICES ASSUME NEW e \in Device, NEW b \in Action, b \in held'[e], b # AlertOnly
               PROVE  Sent(e, b)'
    BY SentSuffices
  <2> DEFINE d == job[h].device
             a == job[h].action
  <2>1. \/ job[h].pc = "log" /\ fate' = fate
        \/ \E v \in {"published", "lost"} : fate' = [fate EXCEPT ![d][a] = v]
    BY <1>7 DEF Publish, DispatchFails
  <2>2. d \in Device /\ a \in Action
    BY <1>7, Dispatches DEF Publish, DispatchFails, DispatchSteps
  <2>3. held' = held /\ \E j : job' = [job EXCEPT ![h] = j]
    BY <1>7 DEF Publish, DispatchFails, Goto, Become
  <2>4. Sent(e, b)
    BY <2>3 DEF HeldWasSent, Sent, Carries
  <2>5. CASE fate[e][b] # "none"
    <3>1. fate'[e][b] # "none"
      BY <1>0, <2>1, <2>2, <2>5
    <3> QED
      BY <3>1 DEF Sent
  <2>6. CASE \E g \in Handler \ {h} : Carries(g, e, b)
    BY <1>0, <2>3, <2>6 DEF Sent, Carries
  <2>7. CASE Carries(h, e, b)
    <3>1. e = d /\ b = a /\ job[h].pc # "log"
      BY <2>7 DEF Carries
    <3>2. fate'[e][b] # "none"
      BY <1>0, <2>1, <2>2, <3>1
    <3> QED
      BY <3>2 DEF Sent
  <2> QED
    BY <2>4, <2>5, <2>6, <2>7 DEF Sent
<1>8. CASE Restart
  BY <1>8 DEF Restart, HeldWasSent
<1> QED
  BY <1>1, <1>2, <1>3, <1>4, <1>5, <1>6, <1>7, <1>8 DEF Next, Handle

\* No interleaving and no clearing leaves an action held back that was neither
\* published nor lost to a failure.
THEOREM NothingLatched == Spec => []HeldWasSent
<1>1. Init => HeldWasSent
  BY DEF Init, HeldWasSent
<1> QED
  BY <1>1, SentStep, TypeInvariant, PTL DEF Spec

=============================================================================
