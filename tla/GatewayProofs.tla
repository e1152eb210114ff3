----------------------------- MODULE GatewayProofs -----------------------------
(***************************************************************************)
(* Proofs about Gateways, and with it about Provisioning, for any number of *)
(* controllers, gateways, farms and requests in flight.                     *)
(***************************************************************************)
EXTENDS Gateways, FiniteSetTheorems, TLAPS

-----------------------------------------------------------------------------
(* Types.  Ids, credentials and tokens are below n, the next unused one. *)

Row(n) == [id : 0..(n - 1), status : {"none", "pending", "paired"}, farm : Farm \cup {None},
           cred : 0..(n - 1), gateway : Nat]
GatewayRow(n) == [id : 0..(n - 1), farm : Farm \cup {None}, cred : 0..(n - 1),
                  token : 0..(n - 1), used : BOOLEAN]
TokenRow(n) == [value : 0..(n - 1), used : BOOLEAN, expired : BOOLEAN]

Fields == {"pc", "kind", "at", "farm", "token", "gateway", "held", "loaded"}
SaveKinds == {"provision", "unpair", "regenerate", "update"}
Saving(j) == j.kind \in DeviceKinds /\ j.pc \in {"load", "write"}

\* Which requests are at which step, and what they hold there.
DeviceJob(j, n) ==
  /\ j.at \in Serial /\ {j.held, j.loaded} \subseteq Row(n)
  /\ j.pc \in {"find", "load", "write", "token", "respond", "check", "gateway", "pair", "use", "own",
               "clean", "end"}
  /\ j.kind \in {"pair", "update"} => j.farm \in Farm
  /\ j.kind = "pair" => j.token # 0
  /\ j.pc \in {"load", "write"} => j.kind \in SaveKinds
  /\ j.pc \in {"token", "respond"} => j.kind = "provision"
  /\ j.pc = "respond" => j.token # 0
  /\ j.pc \in {"check", "gateway", "pair", "use", "own"} => j.kind = "pair"
  /\ j.pc \in {"clean", "end"} => j.kind \in {"remove", "reset"}
  /\ j.pc \in {"load", "check", "gateway", "pair", "use", "own", "clean", "end"} => j.held.id # 0
  /\ j.pc \in {"find", "load"} => j.loaded = NoRow
  /\ j.pc = "write" => \/ j.loaded = NoRow
                       \/ j.loaded.id = j.held.id /\ j.held.id # 0

GatewayJob(j, n) ==
  /\ j.at \in Gateway
  /\ j.pc \in {"find", "load", "write", "assign", "respond", "release", "remove"}
  /\ j.kind = "gateway_pair" => j.farm \in Farm /\ j.token # 0
  /\ j.pc \in {"load", "write", "assign", "respond"} =>
       /\ j.kind \in {"gateway_provision", "gateway_pair"}
       /\ j.held \in GatewayRow(n) /\ j.token # 0
  /\ j.pc = "assign" => j.kind = "gateway_pair"
  /\ j.pc \in {"release", "remove"} => j.kind = "gateway_delete"
  /\ j.pc = "load" => j.held.id # 0
  /\ j.pc = "write" => j.loaded \in GatewayRow(n)
  /\ j.pc = "write" => \/ j.loaded = NoGateway
                       \/ j.loaded.id = j.held.id /\ j.held.id # 0

JobType(j, n) ==
  /\ DOMAIN j = Fields /\ j.token \in 0..(n - 1) /\ j.gateway \in Nat
  /\ j.farm \in Farm \cup {None}
  /\ j.pc = "idle" => j = Idle
  /\ j.pc # "idle" => j.kind \in AnyKind
  /\ j.kind \in DeviceKinds => DeviceJob(j, n)
  /\ j.kind \in GatewayKinds => GatewayJob(j, n)

TJobs == DOMAIN job = Request /\ \A r \in Request : JobType(job[r], fresh)

TDevices ==
  /\ devices \in [Serial -> Row(fresh)]
  /\ \A s \in Serial : ~Dangling(devices[s]) /\ (devices[s].id = 0 => devices[s] = NoRow)

TGateways ==
  /\ gateways \in [Gateway -> GatewayRow(fresh)]
  /\ \A g \in Gateway : gateways[g].id = 0 => gateways[g] = NoGateway

TTokens == tokens \in [Serial -> TokenRow(fresh)]

TSent ==
  /\ controllers \in [Serial \cup Gateway -> 0..(fresh - 1)]
  /\ DOMAIN told = {"device", "gateway"}
  /\ told.device \cup told.gateway \cup revoked \subseteq 1..(fresh - 1)
  /\ paired \subseteq (1..(fresh - 1)) \X (1..(fresh - 1))

\* Requests that overlap are recorded.
TMet ==
  \A p, q \in Request :
    p # q /\ job[p].pc # "idle" /\ job[q].pc # "idle" => {job[p].kind, job[q].kind} \in met

TFresh == fresh \in Nat \ {0}

Typed == TFresh /\ TJobs /\ TDevices /\ TGateways /\ TTokens /\ TSent /\ TMet

LEMMA TypedImplies == Typed => TypeOK
  <1>. SUFFICES ASSUME Typed PROVE TypeOK
    OBVIOUS
  <1>1. ASSUME NEW s \in Serial
        PROVE  /\ devices[s].status \in {"none", "pending", "paired"}
               /\ devices[s].farm \in Farm \cup {None}
               /\ {devices[s].id, devices[s].cred, tokens[s].value} \subseteq 0..(fresh - 1)
               /\ ~Dangling(devices[s])
               /\ devices[s].id = 0 <=> devices[s] = NoRow
               /\ tokens[s].used \in BOOLEAN /\ tokens[s].expired \in BOOLEAN
    BY DEF Typed, TDevices, TTokens, Row, TokenRow, NoRow
  <1>2. ASSUME NEW g \in Gateway
        PROVE  /\ gateways[g].farm \in Farm \cup {None} /\ gateways[g].used \in BOOLEAN
               /\ {gateways[g].id, gateways[g].cred, gateways[g].token} \subseteq 0..(fresh - 1)
               /\ gateways[g].id = 0 <=> gateways[g] = NoGateway
    BY DEF Typed, TGateways, GatewayRow, NoGateway
  <1>3. \A r \in Request : job[r].kind \in AnyKind \cup {"none"} /\ job[r].token < fresh
    BY DEF Typed, TFresh, TJobs, JobType, Idle
  <1>. QED  BY <1>1, <1>2, <1>3 DEF TypeOK, Typed, TSent

LEMMA IdleType == ASSUME NEW n \in Nat \ {0} PROVE JobType(Idle, n)
  BY DEF Idle, JobType, Fields, AnyKind, DeviceKinds, GatewayKinds

LEMMA TypedInit == Init => Typed
  <1>. SUFFICES ASSUME Init PROVE Typed
    OBVIOUS
  <1>1. TFresh /\ TJobs
    BY IdleType DEF Init, TFresh, TJobs
  <1>2. TDevices
    BY DEF Init, TDevices, Row, NoRow, Dangling
  <1>3. TGateways /\ TTokens
    BY DEF Init, TGateways, TTokens, GatewayRow, TokenRow, NoGateway, NoToken
  <1>4. TSent /\ TMet
    BY DEF Init, TSent, TMet, Idle
  <1>. QED  BY <1>1, <1>2, <1>3, <1>4 DEF Typed

-----------------------------------------------------------------------------
(* What a larger bound keeps. *)

LEMMA Wider ==
  ASSUME NEW n \in Nat, NEW m \in Nat, n <= m
  PROVE  /\ 0..(n - 1) \subseteq 0..(m - 1) /\ 1..(n - 1) \subseteq 1..(m - 1)
         /\ Row(n) \subseteq Row(m) /\ GatewayRow(n) \subseteq GatewayRow(m)
         /\ TokenRow(n) \subseteq TokenRow(m)
  <1>1. 0..(n - 1) \subseteq 0..(m - 1) /\ 1..(n - 1) \subseteq 1..(m - 1)
    OBVIOUS
  <1>. QED  BY <1>1 DEF Row, GatewayRow, TokenRow

LEMMA JobWider ==
  ASSUME NEW n \in Nat, NEW m \in Nat, n <= m, NEW j, JobType(j, n)
  PROVE  JobType(j, m)
  <1>1. 0..(n - 1) \subseteq 0..(m - 1) /\ Row(n) \subseteq Row(m) /\ GatewayRow(n) \subseteq GatewayRow(m)
    BY Wider
  <1>2. DeviceJob(j, n) => DeviceJob(j, m)
    BY <1>1 DEF DeviceJob
  <1>3. GatewayJob(j, n) => GatewayJob(j, m)
    BY <1>1 DEF GatewayJob
  <1>. QED  BY <1>1, <1>2, <1>3 DEF JobType

Grows == fresh' \in Nat /\ fresh <= fresh'

LEMMA RestType ==
  ASSUME Typed, Grows
  PROVE  /\ TFresh'
         /\ UNCHANGED <<devices, gateways>> => TDevices'
         /\ UNCHANGED gateways => TGateways'
         /\ UNCHANGED tokens => TTokens'
         /\ UNCHANGED <<controllers, told, paired, revoked>> => TSent'
  <1>1. /\ 0..(fresh - 1) \subseteq 0..(fresh' - 1) /\ 1..(fresh - 1) \subseteq 1..(fresh' - 1)
        /\ Row(fresh) \subseteq Row(fresh') /\ GatewayRow(fresh) \subseteq GatewayRow(fresh')
        /\ TokenRow(fresh) \subseteq TokenRow(fresh')
    BY Wider DEF Typed, TFresh, Grows
  <1>2. TFresh'
    BY DEF Typed, TFresh, Grows
  <1>3. UNCHANGED <<devices, gateways>> => TDevices'
    BY <1>1 DEF Typed, TDevices, Dangling
  <1>4. UNCHANGED gateways => TGateways'
    BY <1>1 DEF Typed, TGateways
  <1>5. UNCHANGED tokens => TTokens'
    BY <1>1 DEF Typed, TTokens
  <1>6. UNCHANGED <<controllers, told, paired, revoked>> => TSent'
    BY <1>1 DEF Typed, TSent
  <1>. QED  BY <1>2, <1>3, <1>4, <1>5, <1>6

\* One request moves on; the other ones are left alone.
LEMMA StepType ==
  ASSUME Typed, Grows, NEW r \in Request, NEW j, Become(r, j), JobType(j, fresh'), met \subseteq met',
         j = Idle \/ (job[r].pc # "idle" /\ j.kind = job[r].kind)
  PROVE  TJobs' /\ TMet' /\ TFresh'
  <1>1. DOMAIN job' = Request /\ job'[r] = j /\ \A q \in Request : q # r => job'[q] = job[q]
    BY DEF Typed, TJobs, Become
  <1>2. TJobs'
    BY <1>1, JobWider DEF Typed, TJobs, TFresh, Grows
  <1>3. TMet'
    <2>. SUFFICES ASSUME NEW p \in Request, NEW q \in Request,
                         p # q, job'[p].pc # "idle", job'[q].pc # "idle"
                  PROVE  {job'[p].kind, job'[q].kind} \in met'
      BY DEF TMet
    <2>1. \A x \in {p, q} : job[x].pc # "idle" /\ job'[x].kind = job[x].kind
      BY <1>1 DEF Idle
    <2>. QED  BY <2>1 DEF Typed, TMet
  <1>. QED  BY <1>2, <1>3 DEF Typed, TFresh, Grows

LEMMA FinishType ==
  ASSUME Typed, Grows, NEW r \in Request, Finish(r), met \subseteq met'
  PROVE  TJobs' /\ TMet' /\ TFresh'
  BY IdleType, StepType DEF Finish, Typed, TFresh, Grows

\* One request arrives.
LEMMA StartType ==
  ASSUME Typed, Grows, NEW r \in Request, NEW j, Start(r, j), JobType(j, fresh')
  PROVE  TJobs' /\ TMet' /\ TFresh'
  <1>1. DOMAIN job' = Request /\ job'[r] = j /\ \A q \in Request : q # r => job'[q] = job[q]
    BY DEF Typed, TJobs, Start, Become
  <1>2. TJobs'
    BY <1>1, JobWider DEF Typed, TJobs, TFresh, Grows
  <1>3. TMet'
    <2>. SUFFICES ASSUME NEW p \in Request, NEW q \in Request,
                         p # q, job'[p].pc # "idle", job'[q].pc # "idle"
                  PROVE  {job'[p].kind, job'[q].kind} \in met'
      BY DEF TMet
    <2>1. \A x \in Request \ {r} : job[x].pc # "idle" => {j.kind, job[x].kind} \in met'
      <3>. SUFFICES ASSUME NEW x \in Request \ {r}, job[x].pc # "idle"
                    PROVE  {j.kind, job[x].kind} \in met'
        OBVIOUS
      <3>. QED  BY DEF Start
    <2>2. met \subseteq met'
      BY DEF Start
    <2>3. CASE p = r
      BY <1>1, <2>1, <2>3
    <2>4. CASE q = r
      <3>1. {j.kind, job[p].kind} = {job'[p].kind, job'[q].kind}
        BY <1>1, <2>4
      <3>. QED  BY <1>1, <2>1, <2>4, <3>1
    <2>5. CASE p # r /\ q # r
      BY <1>1, <2>2, <2>5 DEF Typed, TMet
    <2>. QED  BY <2>3, <2>4, <2>5
  <1>. QED  BY <1>2, <1>3 DEF Typed, TFresh, Grows

\* A row is written.
LEMMA WriteRow ==
  ASSUME Typed, Grows, NEW s \in Serial, NEW row, row = NoRow \/ (row \in Row(fresh') /\ row.id # 0 /\ ~Dangling(row)),
         WriteDevices([devices EXCEPT ![s] = row]), UNCHANGED gateways
  PROVE  TDevices' /\ revoked' \subseteq 1..(fresh' - 1)
  <1>1. Row(fresh) \subseteq Row(fresh') /\ 1..(fresh - 1) \subseteq 1..(fresh' - 1) /\ NoRow \in Row(fresh')
    <2>1. NoRow \in Row(fresh)
      BY DEF NoRow, Row, Typed, TFresh
    <2>. QED  BY <2>1, Wider DEF Typed, TFresh, Grows
  <1>2. devices' = [devices EXCEPT ![s] = row]
    BY DEF WriteDevices
  <1>3. devices' \in [Serial -> Row(fresh')]
    BY <1>1, <1>2 DEF Typed, TDevices
  <1>4. \A x \in Serial : ~Dangling(devices'[x]) /\ (devices'[x].id = 0 => devices'[x] = NoRow)
    <2>1. ~Dangling(NoRow)
      BY DEF Dangling, NoRow
    <2>2. \A x \in Serial : devices'[x] = IF x = s THEN row ELSE devices[x]
      BY <1>2 DEF Typed, TDevices
    <2>. QED  BY <2>1, <2>2 DEF Typed, TDevices
  <1>5. TDevices'
    BY <1>3, <1>4 DEF TDevices, Dangling
  <1>6. Creds(devices) \subseteq 1..(fresh - 1)
    BY DEF Creds, Typed, TDevices, TFresh, Row
  <1>. QED  BY <1>1, <1>5, <1>6 DEF WriteDevices, Typed, TSent

\* Rows of many devices get another gateway.
SameButGateway(table) ==
  /\ table \in [Serial -> Row(fresh)]
  /\ \A s \in Serial :
       /\ table[s].id = devices[s].id /\ table[s].status = devices[s].status
       /\ table[s].farm = devices[s].farm /\ table[s].cred = devices[s].cred
       /\ devices[s] = NoRow => table[s] = NoRow

LEMMA WriteGateways ==
  ASSUME Typed, Grows, NEW table, SameButGateway(table), WriteDevices(table),
         \A s \in Serial : table[s].gateway # 0 => \E g \in Gateway : gateways'[g].id = table[s].gateway
  PROVE  TDevices' /\ revoked' = revoked
  <1>1. Row(fresh) \subseteq Row(fresh')
    BY Wider DEF Typed, TFresh, Grows
  <1>2. devices' = table
    BY DEF WriteDevices
  <1>3. TDevices'
    BY <1>1, <1>2 DEF TDevices, Dangling, Typed, SameButGateway
  <1>4. Creds(table) = Creds(devices)
    BY DEF Creds, SameButGateway
  <1>. QED  BY <1>3, <1>4 DEF WriteDevices

LEMMA MergeRow ==
  ASSUME NEW n, NEW row \in Row(n), NEW held \in Row(n), NEW loaded \in Row(n)
  PROVE  LET new == Merge(row, held, loaded) IN
         /\ new \in Row(n)
         /\ new.id = IF held.id # loaded.id THEN held.id ELSE row.id
         /\ new.status = IF held.status # loaded.status THEN held.status ELSE row.status
         /\ new.farm = IF held.farm # loaded.farm THEN held.farm ELSE row.farm
         /\ new.cred = IF held.cred # loaded.cred THEN held.cred ELSE row.cred
         /\ new.gateway = IF held.gateway # loaded.gateway THEN held.gateway ELSE row.gateway
  BY DEF Merge, Row

LEMMA UnpairedRow ==
  ASSUME NEW n \in Nat \ {0}, NEW row \in Row(n)
  PROVE  LET new == Unpaired(row) IN
         /\ new \in Row(n) /\ new.id = row.id /\ new.status = "pending" /\ new.farm = None
         /\ new.cred = 0 /\ new.gateway = row.gateway
  <1>. DEFINE a == [row EXCEPT !.farm = None]
              b == [a EXCEPT !.cred = 0]
              c == [b EXCEPT !.status = "pending"]
  <1>1. 0 \in 0..(n - 1)
    OBVIOUS
  <1>2. /\ a \in Row(n) /\ a.id = row.id /\ a.farm = None /\ a.gateway = row.gateway
    BY DEF Row
  <1>3. Unpaired(row) = c
    BY DEF Unpaired
  <1>. HIDE DEF a
  <1>4. /\ b \in Row(n) /\ b.id = row.id /\ b.farm = None /\ b.gateway = row.gateway /\ b.cred = 0
    BY <1>1, <1>2 DEF Row
  <1>. HIDE DEF b
  <1>5. /\ c \in Row(n) /\ c.id = row.id /\ c.farm = None /\ c.gateway = row.gateway /\ c.cred = 0
        /\ c.status = "pending"
    BY <1>4 DEF Row
  <1>. HIDE DEF c
  <1>. QED  BY <1>3, <1>5

LEMMA MergeGateway ==
  ASSUME NEW n, NEW row \in GatewayRow(n), NEW held \in GatewayRow(n), NEW loaded \in GatewayRow(n)
  PROVE  LET new == Merge(row, held, loaded) IN
         /\ new \in GatewayRow(n)
         /\ new.id = IF held.id # loaded.id THEN held.id ELSE row.id
         /\ new.farm = IF held.farm # loaded.farm THEN held.farm ELSE row.farm
         /\ new.used = IF held.used # loaded.used THEN held.used ELSE row.used
  BY DEF Merge, GatewayRow

-----------------------------------------------------------------------------
(* Every step keeps the types. *)

\* A step that changes requests only.
LEMMA OnlyJobType ==
  ASSUME Typed, NEW r \in Request, NEW j, Become(r, j), JobType(j, fresh),
         j = Idle \/ (job[r].pc # "idle" /\ j.kind = job[r].kind),
         UNCHANGED <<tables, controllers, told, fresh, paired, revoked>>, met \subseteq met'
  PROVE  Typed'
  <1>1. Grows
    BY DEF Grows, Typed, TFresh
  <1>2. TJobs' /\ TMet' /\ TFresh'
    BY <1>1, StepType
  <1>. QED  BY <1>1, <1>2, RestType DEF Typed, tables

LEMMA OnlyFinish ==
  ASSUME Typed, NEW r \in Request, Finish(r),
         UNCHANGED <<tables, controllers, told, fresh, paired, revoked>>, met \subseteq met'
  PROVE  Typed'
  BY IdleType, OnlyJobType DEF Finish, Typed, TFresh

LEMMA ArriveType ==
  ASSUME Typed, NEW r \in Request, Arrive(r)
  PROVE  Typed'
  <1>1. PICK s \in Serial, kind \in DeviceKinds, f \in Farm \cup {None}, t \in told.device \cup {0} :
          /\ kind = "pair" <=> t # 0
          /\ kind \in {"pair", "update"} <=> f # None
          /\ Start(r, [Idle EXCEPT !.pc = "find", !.kind = kind, !.at = s, !.farm = f, !.token = t])
    BY DEF Arrive
  <1>. DEFINE j == [Idle EXCEPT !.pc = "find", !.kind = kind, !.at = s, !.farm = f, !.token = t]
  <1>2. /\ DOMAIN j = Fields /\ j.pc = "find" /\ j.kind = kind /\ j.at = s /\ j.farm = f /\ j.token = t
        /\ j.gateway = 0 /\ j.held = NoRow /\ j.loaded = NoRow
    BY DEF Idle, Fields
  <1>3. Start(r, j)
    BY <1>1
  <1>. HIDE DEF j
  <1>4. NoRow \in Row(fresh) /\ t \in 0..(fresh - 1)
    BY DEF NoRow, Row, Typed, TFresh, TSent
  <1>5. DeviceJob(j, fresh)
    BY <1>1, <1>2, <1>4 DEF DeviceJob, SaveKinds
  <1>6. JobType(j, fresh)
    BY <1>2, <1>4, <1>5 DEF JobType, DeviceKinds, AnyKind, GatewayKinds
  <1>7. Grows /\ fresh' = fresh
    BY DEF Grows, Typed, TFresh, Arrive
  <1>8. TJobs' /\ TMet' /\ TFresh'
    BY <1>3, <1>6, <1>7, StartType
  <1>. QED  BY <1>7, <1>8, RestType DEF Typed, tables, Arrive

LEMMA ArriveGatewayType ==
  ASSUME Typed, NEW r \in Request, ArriveGateway(r)
  PROVE  Typed'
  <1>1. PICK g \in Gateway, kind \in GatewayKinds, f \in Farm \cup {None}, t \in told.gateway \cup {0} :
          /\ kind = "gateway_pair" <=> t # 0
          /\ kind = "gateway_pair" <=> f # None
          /\ Start(r, [Idle EXCEPT !.pc = "find", !.kind = kind, !.at = g, !.farm = f, !.token = t])
    BY DEF ArriveGateway
  <1>. DEFINE j == [Idle EXCEPT !.pc = "find", !.kind = kind, !.at = g, !.farm = f, !.token = t]
  <1>2. /\ DOMAIN j = Fields /\ j.pc = "find" /\ j.kind = kind /\ j.at = g /\ j.farm = f /\ j.token = t
        /\ j.gateway = 0
    BY DEF Idle, Fields
  <1>3. Start(r, j)
    BY <1>1
  <1>. HIDE DEF j
  <1>4. t \in 0..(fresh - 1)
    BY DEF Typed, TFresh, TSent
  <1>5. GatewayJob(j, fresh)
    BY <1>1, <1>2 DEF GatewayJob
  <1>6. JobType(j, fresh)
    BY <1>2, <1>4, <1>5 DEF JobType, DeviceKinds, AnyKind, GatewayKinds
  <1>7. Grows /\ fresh' = fresh
    BY DEF Grows, Typed, TFresh, ArriveGateway
  <1>8. TJobs' /\ TMet' /\ TFresh'
    BY <1>3, <1>6, <1>7, StartType
  <1>. QED  BY <1>7, <1>8, RestType DEF Typed, tables, ArriveGateway

\* A request with another step.
LEMMA StepFields ==
  ASSUME NEW j, DOMAIN j = Fields, NEW step
  PROVE  LET k == [j EXCEPT !.pc = step] IN
         /\ DOMAIN k = Fields /\ k.pc = step /\ k.kind = j.kind /\ k.at = j.at /\ k.farm = j.farm
         /\ k.token = j.token /\ k.gateway = j.gateway /\ k.held = j.held /\ k.loaded = j.loaded
  BY DEF Fields

LEMMA DeviceFacts ==
  ASSUME Typed, NEW r \in Request, job[r].kind \in DeviceKinds
  PROVE  /\ DOMAIN job[r] = Fields /\ JobType(job[r], fresh) /\ DeviceJob(job[r], fresh)
         /\ job[r].at \in Serial /\ Found(r) \in Row(fresh) /\ job[r].pc # "idle"
         /\ Found(r).id = 0 => Found(r) = NoRow
  <1>1. JobType(job[r], fresh) /\ Idle.kind \notin DeviceKinds
    BY DEF Typed, TJobs, Idle, DeviceKinds
  <1>. QED  BY <1>1 DEF JobType, DeviceJob, Typed, TDevices, Found

\* At these steps the request is one about a device.
DeviceSteps == {"token", "check", "gateway", "pair", "use", "own", "clean", "end"}

LEMMA AtStep ==
  ASSUME Typed, NEW r \in Request, job[r].pc \in DeviceSteps
  PROVE  job[r].kind \in DeviceKinds
  BY DEF Typed, TJobs, JobType, GatewayJob, AnyKind, DeviceSteps, Idle

LEMMA GotoDevice ==
  ASSUME Typed, NEW r \in Request, NEW step, Goto(r, step), job[r].kind \in DeviceKinds,
         \/ step = "token" /\ job[r].kind = "provision"
         \/ step \in {"gateway", "use", "own"} /\ job[r].pc \in {"check", "pair", "use"}
         \/ step = "end" /\ job[r].pc = "clean"
  PROVE  LET j == [job[r] EXCEPT !.pc = step] IN
         Become(r, j) /\ JobType(j, fresh) /\ j.kind = job[r].kind
  <1>. DEFINE j == [job[r] EXCEPT !.pc = step]
  <1>1. /\ DOMAIN j = Fields /\ j.pc = step /\ j.kind = job[r].kind /\ j.at = job[r].at /\ j.farm = job[r].farm
        /\ j.token = job[r].token /\ j.gateway = job[r].gateway /\ j.held = job[r].held /\ j.loaded = job[r].loaded
    BY StepFields, DeviceFacts
  <1>2. Become(r, j)
    BY DEF Goto
  <1>. HIDE DEF j
  <1>3. DeviceJob(j, fresh)
    BY <1>1, DeviceFacts DEF DeviceJob
  <1>4. JobType(j, fresh)
    BY <1>1, <1>3, DeviceFacts DEF JobType, DeviceKinds, AnyKind, GatewayKinds
  <1>. QED  BY <1>1, <1>2, <1>4 DEF j

LEMMA SaveType ==
  ASSUME Typed, Grows, NEW r \in Request, job[r].pc = "find", job[r].kind \in SaveKinds,
         NEW entity \in Row(fresh'), Save(r, entity), met \subseteq met'
  PROVE  TJobs' /\ TMet' /\ TFresh'
  <1>. DEFINE j == [job[r] EXCEPT !.pc = IF entity.id = 0 THEN "write" ELSE "load", !.held = entity]
  <1>1. job[r].kind \in DeviceKinds
    BY DEF SaveKinds, DeviceKinds
  <1>2. /\ DOMAIN j = Fields /\ j.pc = (IF entity.id = 0 THEN "write" ELSE "load") /\ j.kind = job[r].kind
        /\ j.at = job[r].at /\ j.farm = job[r].farm /\ j.token = job[r].token
        /\ j.gateway = job[r].gateway /\ j.held = entity /\ j.loaded = job[r].loaded
    BY <1>1, DeviceFacts DEF Fields
  <1>3. Become(r, j)
    BY DEF Save
  <1>. HIDE DEF j
  <1>4. JobType(job[r], fresh')
    BY JobWider DEF Typed, TJobs, TFresh, Grows
  <1>5. DeviceJob(j, fresh')
    BY <1>1, <1>2, <1>4 DEF JobType, DeviceJob
  <1>6. JobType(j, fresh')
    BY <1>1, <1>2, <1>4, <1>5 DEF JobType, DeviceKinds, AnyKind, GatewayKinds
  <1>. QED  BY <1>1, <1>2, <1>3, <1>6, DeviceFacts, StepType

LEMMA OnlySave ==
  ASSUME Typed, NEW r \in Request, job[r].pc = "find", job[r].kind \in SaveKinds,
         NEW entity \in Row(fresh), Save(r, entity), met \subseteq met',
         UNCHANGED <<tables, controllers, told, fresh, paired, revoked>>
  PROVE  Typed'
  <1>1. Grows
    BY DEF Grows, Typed, TFresh
  <1>. QED  BY <1>1, SaveType, RestType DEF Typed, tables

LEMMA FindTypes ==
  ASSUME Typed, NEW r \in Request,
         ProvisionFind(r) \/ UnpairFind(r) \/ Preload(r)
  PROVE  Typed'
  <1>0. job[r].kind \in {"provision", "unpair", "update"} /\ job[r].pc = "find"
    BY DEF ProvisionFind, UnpairFind, Preload, Finds
  <1>1. job[r].kind \in DeviceKinds /\ job[r].kind \in SaveKinds
    BY <1>0 DEF DeviceKinds, SaveKinds
  <1>2. CASE Finish(r)
    BY <1>2, OnlyFinish DEF ProvisionFind, UnpairFind, Preload, OnlyJob, tables, history
  <1>3. CASE ProvisionFind(r) /\ ~Finish(r)
    <2>1. [Found(r) EXCEPT !.status = "pending"] \in Row(fresh)
      BY <1>1, DeviceFacts DEF Row
    <2>. QED  BY <1>0, <1>1, <1>3, <2>1, OnlySave DEF ProvisionFind, OnlyJob, tables, history
  <1>4. CASE UnpairFind(r) /\ ~Finish(r)
    <2>1. Unpaired(Found(r)) \in Row(fresh)
      BY <1>1, DeviceFacts, UnpairedRow DEF Typed, TFresh
    <2>. QED  BY <1>0, <1>1, <1>4, <2>1, OnlySave DEF UnpairFind, OnlyJob, tables, history
  <1>5. CASE Preload(r) /\ ~Finish(r)
    <2>1. PICK f \in {Found(r).farm, job[r].farm} :
            /\ Save(r, [Found(r) EXCEPT !.farm = f])
            /\ met' = IF f = Found(r).farm THEN met ELSE met \cup {{"update", "move"}}
      BY <1>5 DEF Preload
    <2>2. [Found(r) EXCEPT !.farm = f] \in Row(fresh)
      <3>1. job[r].farm \in Farm \cup {None} /\ Found(r) \in Row(fresh)
        BY <1>1, DeviceFacts DEF JobType
      <3>. QED  BY <3>1 DEF Row
    <2>. QED  BY <1>0, <1>1, <1>5, <2>1, <2>2, OnlySave DEF Preload, tables
  <1>. QED  BY <1>2, <1>3, <1>4, <1>5

LEMMA RegenerateType ==
  ASSUME Typed, NEW r \in Request, RegenerateFind(r)
  PROVE  Typed'
  <1>0. job[r].kind = "regenerate" /\ job[r].pc = "find"
    BY DEF RegenerateFind, Finds
  <1>1. job[r].kind \in DeviceKinds /\ job[r].kind \in SaveKinds
    BY <1>0 DEF DeviceKinds, SaveKinds
  <1>2. CASE Found(r).status # "paired"
    BY <1>2, OnlyFinish DEF RegenerateFind, tables, history
  <1>3. CASE Found(r).status = "paired"
    <2>1. Save(r, [Found(r) EXCEPT !.cred = fresh]) /\ fresh' = fresh + 1
      BY <1>3 DEF RegenerateFind
    <2>2. Grows
      BY <2>1 DEF Grows, Typed, TFresh
    <2>3. [Found(r) EXCEPT !.cred = fresh] \in Row(fresh')
      <3>1. Found(r) \in Row(fresh')
        BY <1>1, <2>2, DeviceFacts, Wider DEF Typed, TFresh, Grows
      <3>2. fresh \in 0..(fresh' - 1)
        BY <2>1 DEF Typed, TFresh
      <3>. QED  BY <3>1, <3>2 DEF Row
    <2>4. TJobs' /\ TMet' /\ TFresh'
      BY <1>0, <1>1, <2>1, <2>2, <2>3, SaveType DEF RegenerateFind, history
    <2>. QED  BY <2>2, <2>4, RestType DEF RegenerateFind, Typed, tables, history
  <1>. QED  BY <1>2, <1>3

LEMMA LoadType ==
  ASSUME Typed, NEW r \in Request, LoadRow(r)
  PROVE  Typed'
  <1>. DEFINE l == IF Found(r).id = job[r].held.id THEN Found(r) ELSE NoRow
              j == [job[r] EXCEPT !.pc = "write", !.loaded = l]
  <1>1. job[r].kind \in DeviceKinds /\ job[r].pc = "load" /\ Become(r, j)
    BY DEF LoadRow
  <1>2. /\ DOMAIN j = Fields /\ j.pc = "write" /\ j.kind = job[r].kind
        /\ j.at = job[r].at /\ j.farm = job[r].farm /\ j.token = job[r].token
        /\ j.gateway = job[r].gateway /\ j.held = job[r].held /\ j.loaded = l
    BY <1>1, DeviceFacts DEF Fields
  <1>3. l \in Row(fresh) /\ (l = NoRow \/ l.id = job[r].held.id)
    BY <1>1, DeviceFacts DEF NoRow, Row, Typed, TFresh
  <1>. HIDE DEF j, l
  <1>4. DeviceJob(j, fresh)
    BY <1>1, <1>2, <1>3, DeviceFacts DEF DeviceJob
  <1>5. JobType(j, fresh)
    BY <1>1, <1>2, <1>4, DeviceFacts DEF JobType, DeviceKinds, AnyKind, GatewayKinds
  <1>. QED  BY <1>1, <1>2, <1>5, DeviceFacts, OnlyJobType DEF LoadRow, OnlyJob, tables, history

\* What follows a write.
LEMMA AfterWriteType ==
  ASSUME Typed, Grows, NEW r \in Request, job[r].kind \in DeviceKinds, AfterWrite(r), met \subseteq met'
  PROVE  TJobs' /\ TMet' /\ TFresh'
  <1>1. CASE job[r].kind = "provision"
    <2>. DEFINE j == [job[r] EXCEPT !.pc = "token"]
    <2>1. Goto(r, "token")
      BY <1>1 DEF AfterWrite
    <2>2. Become(r, j) /\ JobType(j, fresh) /\ j.kind = job[r].kind
      BY <1>1, <2>1, GotoDevice
    <2>. HIDE DEF j
    <2>3. JobType(j, fresh')
      BY <2>2, JobWider DEF Typed, TFresh, Grows
    <2>. QED  BY <2>2, <2>3, StepType, DeviceFacts
  <1>2. CASE job[r].kind # "provision"
    BY <1>2, FinishType DEF AfterWrite
  <1>. QED  BY <1>1, <1>2

\* A row is written and only requests, devices and fresh change.
LEMMA DevicesType ==
  ASSUME Typed, Grows, TJobs', TMet', TFresh', TDevices', revoked' \subseteq 1..(fresh' - 1),
         paired' \subseteq (1..(fresh' - 1)) \X (1..(fresh' - 1)),
         UNCHANGED <<gateways, tokens, controllers, told>>
  PROVE  Typed'
  <1>1. /\ 0..(fresh - 1) \subseteq 0..(fresh' - 1) /\ 1..(fresh - 1) \subseteq 1..(fresh' - 1)
    BY Wider DEF Typed, TFresh, Grows
  <1>2. TSent'
    BY <1>1 DEF Typed, TSent
  <1>. QED  BY <1>2, RestType DEF Typed

LEMMA PairedWider ==
  ASSUME Typed, Grows
  PROVE  paired \subseteq (1..(fresh' - 1)) \X (1..(fresh' - 1)) /\ revoked \subseteq 1..(fresh' - 1)
  <1>1. 1..(fresh - 1) \subseteq 1..(fresh' - 1)
    BY Wider DEF Typed, TFresh, Grows
  <1>. QED  BY <1>1 DEF Typed, TSent

LEMMA InsertType ==
  ASSUME Typed, NEW r \in Request, InsertRow(r)
  PROVE  Typed'
  <1>. DEFINE held == job[r].held
  <1>0. job[r].kind \in DeviceKinds
    BY DEF InsertRow
  <1>1. CASE Found(r) # NoRow \/ Dangling(held)
    BY <1>1, OnlyFinish DEF InsertRow, tables
  <1>2. CASE ~(Found(r) # NoRow \/ Dangling(held))
    <2>. DEFINE row == IF held.id = 0 THEN [held EXCEPT !.id = fresh] ELSE held
    <2>1. /\ WriteDevices([devices EXCEPT ![job[r].at] = row])
          /\ fresh' = (IF held.id = 0 THEN fresh + 1 ELSE fresh)
          /\ AfterWrite(r)
      BY <1>2 DEF InsertRow
    <2>2. Grows
      BY <2>1 DEF Grows, Typed, TFresh
    <2>3. held \in Row(fresh) /\ held \in Row(fresh')
      BY <1>0, <2>2, DeviceFacts, Wider DEF DeviceJob, Typed, TFresh, Grows
    <2>4. row \in Row(fresh') /\ row.id # 0 /\ row.gateway = held.gateway
      <3>1. CASE held.id = 0
        <4>1. fresh \in 0..(fresh' - 1) /\ fresh # 0
          BY <2>1, <3>1 DEF Typed, TFresh
        <4>. QED  BY <2>3, <3>1, <4>1 DEF Row
      <3>. QED  BY <2>3, <3>1
    <2>5. ~Dangling(row)
      BY <1>2, <2>4 DEF Dangling
    <2>. HIDE DEF row
    <2>6. TDevices' /\ revoked' \subseteq 1..(fresh' - 1)
      BY <1>0, <2>1, <2>2, <2>4, <2>5, WriteRow, DeviceFacts DEF InsertRow
    <2>7. TJobs' /\ TMet' /\ TFresh'
      BY <1>0, <2>1, <2>2, AfterWriteType DEF InsertRow
    <2>. QED  BY <2>2, <2>6, <2>7, DevicesType, PairedWider DEF InsertRow
  <1>. QED  BY <1>1, <1>2

LEMMA UpdateType ==
  ASSUME Typed, NEW r \in Request, UpdateRow(r)
  PROVE  Typed'
  <1>. DEFINE j == job[r]
              new == Merge(Found(r), j.held, j.loaded)
  <1>0. job[r].kind \in DeviceKinds /\ j.pc = "write" /\ j.loaded # NoRow
    BY DEF UpdateRow
  <1>1. Grows /\ fresh' = fresh
    BY DEF UpdateRow, Grows, Typed, TFresh
  <1>2. CASE Found(r).id # j.held.id
    <2>1. TJobs' /\ TMet' /\ TFresh'
      BY <1>0, <1>1, <1>2, AfterWriteType DEF UpdateRow
    <2>. QED  BY <1>1, <1>2, <2>1, RestType DEF UpdateRow, Typed
  <1>3. CASE Found(r).id = j.held.id /\ Dangling(new)
    BY <1>3, OnlyFinish DEF UpdateRow, tables
  <1>4. CASE Found(r).id = j.held.id /\ ~Dangling(new)
    <2>1. WriteDevices([devices EXCEPT ![j.at] = new]) /\ AfterWrite(r)
      BY <1>4 DEF UpdateRow
    <2>2. new \in Row(fresh') /\ new.id # 0
      <3>1. j.held \in Row(fresh) /\ j.loaded \in Row(fresh) /\ j.held.id # 0 /\ Found(r) \in Row(fresh)
            /\ j.loaded.id = j.held.id
        BY <1>0, DeviceFacts DEF DeviceJob
      <3>2. new \in Row(fresh) /\ new.id = (IF j.held.id # j.loaded.id THEN j.held.id ELSE Found(r).id)
        BY <3>1, MergeRow
      <3>. QED  BY <1>1, <1>4, <3>1, <3>2
    <2>. HIDE DEF new
    <2>3. TDevices' /\ revoked' \subseteq 1..(fresh' - 1)
      BY <1>0, <1>1, <1>4, <2>1, <2>2, WriteRow, DeviceFacts DEF UpdateRow
    <2>4. TJobs' /\ TMet' /\ TFresh'
      BY <1>0, <1>1, <2>1, AfterWriteType DEF UpdateRow
    <2>. QED  BY <1>1, <2>3, <2>4, DevicesType, PairedWider DEF UpdateRow
  <1>. QED  BY <1>2, <1>3, <1>4

LEMMA GenerateType ==
  ASSUME Typed, NEW r \in Request, GenerateToken(r)
  PROVE  Typed'
  <1>. DEFINE s == job[r].at
  <1>0. job[r].pc = "token" /\ job[r].kind \in DeviceKinds
    BY AtStep DEF GenerateToken, DeviceSteps
  <1>1. CASE tokens[s] # NoToken
    BY <1>1, OnlyFinish DEF GenerateToken, tables, history
  <1>2. CASE tokens[s] = NoToken
    <2>. DEFINE j == [job[r] EXCEPT !.pc = "respond", !.token = fresh]
    <2>1. /\ tokens' = [tokens EXCEPT ![s] = [NoToken EXCEPT !.value = fresh]] /\ fresh' = fresh + 1
          /\ Become(r, j)
      BY <1>2 DEF GenerateToken
    <2>2. Grows /\ fresh \in 0..(fresh' - 1) /\ fresh # 0
      BY <2>1 DEF Grows, Typed, TFresh
    <2>3. /\ DOMAIN j = Fields /\ j.pc = "respond" /\ j.kind = job[r].kind
          /\ j.at = job[r].at /\ j.farm = job[r].farm /\ j.token = fresh
          /\ j.gateway = job[r].gateway /\ j.held = job[r].held /\ j.loaded = job[r].loaded
      BY <1>0, DeviceFacts DEF Fields
    <2>. HIDE DEF j
    <2>4. JobType(job[r], fresh')
      BY <2>2, JobWider DEF Typed, TJobs, TFresh, Grows
    <2>5. DeviceJob(j, fresh')
      BY <1>0, <2>2, <2>3, <2>4 DEF JobType, DeviceJob, DeviceKinds
    <2>6. JobType(j, fresh')
      BY <1>0, <2>2, <2>3, <2>4, <2>5 DEF JobType, DeviceKinds, AnyKind, GatewayKinds
    <2>7. TJobs' /\ TMet' /\ TFresh'
      BY <1>0, <2>1, <2>2, <2>3, <2>6, DeviceFacts, StepType DEF GenerateToken, history
    <2>8. TTokens'
      <3>1. TokenRow(fresh) \subseteq TokenRow(fresh') /\ [NoToken EXCEPT !.value = fresh] \in TokenRow(fresh')
        BY <2>2, Wider DEF NoToken, TokenRow, Typed, TFresh, Grows
      <3>. QED  BY <2>1, <3>1 DEF TTokens, Typed
    <2>. QED  BY <2>2, <2>7, <2>8, RestType DEF GenerateToken, history, Typed
  <1>. QED  BY <1>1, <1>2

LEMMA RespondType ==
  ASSUME Typed, NEW r \in Request, Respond(r)
  PROVE  Typed'
  <1>0. job[r].pc = "respond" /\ job[r].kind = "provision"
    BY DEF Respond
  <1>1. job[r].token \in 1..(fresh - 1)
    BY <1>0, DeviceFacts DEF DeviceKinds, DeviceJob, JobType, Typed, TFresh
  <1>2. Grows /\ fresh' = fresh
    BY DEF Respond, Grows, Typed, TFresh
  <1>3. TSent'
    <2>1. told' = told \/ told' = [told EXCEPT !.device = @ \cup {job[r].token}]
      BY DEF Respond
    <2>2. told'.device \subseteq told.device \cup {job[r].token} /\ told'.gateway = told.gateway
          /\ DOMAIN told' = {"device", "gateway"}
      BY <2>1 DEF Typed, TSent
    <2>. QED  BY <1>1, <1>2, <2>2 DEF Respond, Typed, TSent, history
  <1>4. TJobs' /\ TMet' /\ TFresh'
    BY <1>2, FinishType DEF Respond, history
  <1>. QED  BY <1>2, <1>3, <1>4, RestType DEF Respond, tables, Typed

LEMMA PairFindType ==
  ASSUME Typed, NEW r \in Request, PairFind(r) \/ RemoveFind(r)
  PROVE  Typed'
  <1>0. job[r].pc = "find" /\ job[r].kind \in {"pair", "remove", "reset"}
    BY DEF PairFind, RemoveFind, Finds
  <1>1. job[r].kind \in DeviceKinds
    BY <1>0 DEF DeviceKinds
  <1>2. CASE Found(r) = NoRow
    BY <1>2, OnlyFinish DEF PairFind, RemoveFind, OnlyJob, tables, history
  <1>3. CASE Found(r) # NoRow
    <2>1. PICK step \in {"check", "clean"} :
            /\ Become(r, [job[r] EXCEPT !.pc = step, !.held = Found(r)])
            /\ step = "check" => job[r].kind = "pair"
            /\ step = "clean" => job[r].kind \in {"remove", "reset"}
      BY <1>3 DEF PairFind, RemoveFind, Finds
    <2>. DEFINE j == [job[r] EXCEPT !.pc = step, !.held = Found(r)]
    <2>2. /\ DOMAIN j = Fields /\ j.pc = step /\ j.kind = job[r].kind /\ j.at = job[r].at /\ j.farm = job[r].farm
          /\ j.token = job[r].token /\ j.gateway = job[r].gateway /\ j.held = Found(r) /\ j.loaded = job[r].loaded
      BY <1>1, DeviceFacts DEF Fields
    <2>3. Become(r, j)
      BY <2>1
    <2>. HIDE DEF j
    <2>4. Found(r) \in Row(fresh) /\ Found(r).id # 0
      BY <1>1, <1>3, DeviceFacts
    <2>5. DeviceJob(j, fresh)
      BY <1>1, <2>1, <2>2, <2>4, DeviceFacts DEF DeviceJob
    <2>6. JobType(j, fresh)
      BY <1>1, <2>2, <2>5, DeviceFacts DEF JobType, DeviceKinds, AnyKind, GatewayKinds
    <2>. QED  BY <1>1, <2>2, <2>3, <2>6, DeviceFacts, OnlyJobType DEF PairFind, RemoveFind, OnlyJob, tables, history
  <1>. QED  BY <1>2, <1>3

LEMMA CheckType ==
  ASSUME Typed, NEW r \in Request, CheckToken(r)
  PROVE  Typed'
  <1>0. job[r].pc = "check" /\ job[r].kind \in DeviceKinds
    BY AtStep DEF CheckToken, DeviceSteps
  <1>1. CASE Finish(r)
    BY <1>1, OnlyFinish DEF CheckToken, OnlyJob, tables, history
  <1>2. CASE Goto(r, "gateway")
    BY <1>0, <1>2, GotoDevice, OnlyJobType, DeviceFacts DEF CheckToken, OnlyJob, tables, history
  <1>. QED  BY <1>1, <1>2 DEF CheckToken

LEMMA PickType ==
  ASSUME Typed, NEW r \in Request, PickGateway(r)
  PROVE  Typed'
  <1>0. job[r].pc = "gateway" /\ job[r].kind \in DeviceKinds
    BY AtStep DEF PickGateway, DeviceSteps
  <1>1. PICK g \in IF GatewaysOf(job[r].farm) = {} THEN {0} ELSE GatewaysOf(job[r].farm) :
          Become(r, [job[r] EXCEPT !.pc = "pair", !.gateway = g])
    BY DEF PickGateway
  <1>2. g \in Nat
    <2>1. GatewaysOf(job[r].farm) \subseteq Nat
      BY DEF GatewaysOf, Typed, TGateways, GatewayRow, TFresh
    <2>. QED  BY <2>1
  <1>. DEFINE j == [job[r] EXCEPT !.pc = "pair", !.gateway = g]
  <1>3. /\ DOMAIN j = Fields /\ j.pc = "pair" /\ j.kind = job[r].kind /\ j.at = job[r].at /\ j.farm = job[r].farm
        /\ j.token = job[r].token /\ j.gateway = g /\ j.held = job[r].held /\ j.loaded = job[r].loaded
    BY <1>0, DeviceFacts DEF Fields
  <1>4. Become(r, j)
    BY <1>1
  <1>. HIDE DEF j
  <1>5. DeviceJob(j, fresh)
    BY <1>0, <1>3, DeviceFacts DEF DeviceJob
  <1>6. JobType(j, fresh)
    BY <1>0, <1>2, <1>3, <1>5, DeviceFacts DEF JobType, DeviceKinds, AnyKind, GatewayKinds
  <1>. QED  BY <1>0, <1>3, <1>4, <1>6, DeviceFacts, OnlyJobType DEF PickGateway, OnlyJob, tables, history

\* The row of a paired device.
PairedRow(j) ==
  [devices[j.at] EXCEPT !.status = "paired", !.farm = j.farm, !.cred = fresh, !.gateway = j.gateway]

LEMMA PairForms ==
  ASSUME Typed, NEW r \in Request, PairUpdate(r)
  PROVE  LET j == job[r] IN
         /\ j.pc = "pair" /\ j.kind = "pair" /\ j.at \in Serial /\ j.farm \in Farm /\ j.token \in 1..(fresh - 1)
         /\ fresh' = fresh + 1 /\ Grows /\ j.held.id # 0
         /\ UNCHANGED <<tokens, gateways, controllers, told, met>>
         /\ \/ /\ Found(r).id # j.held.id /\ Goto(r, "use")
               /\ UNCHANGED <<devices, paired, revoked>>
            \/ /\ Finish(r) /\ UNCHANGED <<devices, paired, revoked>>
            \/ /\ PairedRow(j) \in Row(fresh') /\ ~Dangling(PairedRow(j)) /\ PairedRow(j).id # 0
               /\ PairedRow(j).cred = fresh /\ PairedRow(j).status = "paired"
               /\ PairedRow(j).farm = j.farm /\ PairedRow(j).gateway = j.gateway
               /\ WriteDevices([devices EXCEPT ![j.at] = PairedRow(j)])
               /\ paired' = paired \cup {<<j.token, fresh>>}
               /\ Become(r, [j EXCEPT !.pc = "use", !.held = PairedRow(j)])
               /\ Found(r).id = j.held.id
  <1>. DEFINE j == job[r]
  <1>0. j.pc = "pair" /\ j.kind \in DeviceKinds
    BY AtStep DEF PairUpdate, DeviceSteps
  <1>1. /\ j.kind = "pair" /\ j.at \in Serial /\ j.farm \in Farm /\ j.token \in 1..(fresh - 1) /\ j.held.id # 0
        /\ j.gateway \in Nat
    BY <1>0, DeviceFacts DEF DeviceJob, JobType, Typed, TFresh
  <1>2. fresh' = fresh + 1 /\ Grows
    BY DEF PairUpdate, Grows, Typed, TFresh
  <1>3. /\ PairedRow(j) \in Row(fresh') /\ PairedRow(j).id = Found(r).id
        /\ PairedRow(j).cred = fresh /\ PairedRow(j).status = "paired"
        /\ PairedRow(j).farm = j.farm /\ PairedRow(j).gateway = j.gateway
    <2>1. Found(r) \in Row(fresh')
      BY <1>0, <1>2, DeviceFacts, Wider DEF Typed, TFresh, Grows
    <2>2. fresh \in 0..(fresh' - 1)
      BY <1>2 DEF Typed, TFresh
    <2>. QED  BY <1>1, <2>1, <2>2 DEF Row, PairedRow, Found
  <1>4. PairedRow(j) = [Found(r) EXCEPT !.status = "paired", !.farm = j.farm, !.cred = fresh, !.gateway = j.gateway]
    BY DEF PairedRow, Found
  <1>. HIDE DEF j
  <1>. QED  BY <1>0, <1>1, <1>2, <1>3, <1>4 DEF PairUpdate, j

LEMMA PairType ==
  ASSUME Typed, NEW r \in Request, PairUpdate(r)
  PROVE  Typed'
  <1>. DEFINE i == job[r]
  <1>0. /\ i.pc = "pair" /\ i.kind = "pair" /\ i.kind \in DeviceKinds
        /\ UNCHANGED <<tokens, gateways, controllers, told, met>> /\ Grows /\ fresh' = fresh + 1
    BY PairForms DEF DeviceKinds
  <1>1. CASE Goto(r, "use") /\ UNCHANGED <<devices, paired, revoked>>
    <2>. DEFINE j == [i EXCEPT !.pc = "use"]
    <2>1. Become(r, j) /\ JobType(j, fresh) /\ j.kind = i.kind
      BY <1>0, <1>1, GotoDevice
    <2>. HIDE DEF j
    <2>2. JobType(j, fresh')
      BY <1>0, <2>1, JobWider DEF Typed, TFresh, Grows
    <2>3. TJobs' /\ TMet' /\ TFresh'
      BY <1>0, <2>1, <2>2, StepType, DeviceFacts
    <2>. QED  BY <1>0, <1>1, <2>3, RestType DEF Typed
  <1>2. CASE Finish(r) /\ UNCHANGED <<devices, paired, revoked>>
    <2>1. TJobs' /\ TMet' /\ TFresh'
      BY <1>0, <1>2, FinishType
    <2>. QED  BY <1>0, <1>2, <2>1, RestType DEF Typed
  <1>3. CASE /\ PairedRow(i) \in Row(fresh') /\ ~Dangling(PairedRow(i)) /\ PairedRow(i).id # 0
             /\ WriteDevices([devices EXCEPT ![i.at] = PairedRow(i)])
             /\ paired' = paired \cup {<<i.token, fresh>>}
             /\ Become(r, [i EXCEPT !.pc = "use", !.held = PairedRow(i)])
    <2>. DEFINE j == [i EXCEPT !.pc = "use", !.held = PairedRow(i)]
    <2>1. /\ DOMAIN j = Fields /\ j.pc = "use" /\ j.kind = i.kind /\ j.at = i.at /\ j.farm = i.farm
          /\ j.token = i.token /\ j.gateway = i.gateway /\ j.held = PairedRow(i) /\ j.loaded = i.loaded
      BY <1>0, DeviceFacts DEF Fields
    <2>2. Become(r, j)
      BY <1>3
    <2>. HIDE DEF j
    <2>3. JobType(i, fresh')
      BY <1>0, JobWider DEF Typed, TJobs, TFresh, Grows
    <2>4. DeviceJob(j, fresh')
      BY <1>0, <1>3, <2>1, <2>3 DEF JobType, DeviceJob
    <2>5. JobType(j, fresh')
      BY <1>0, <2>1, <2>3, <2>4 DEF JobType, DeviceKinds, AnyKind, GatewayKinds
    <2>6. TJobs' /\ TMet' /\ TFresh'
      BY <1>0, <2>1, <2>2, <2>5, StepType, DeviceFacts
    <2>7. TDevices' /\ revoked' \subseteq 1..(fresh' - 1)
      BY <1>0, <1>3, WriteRow, DeviceFacts
    <2>8. <<i.token, fresh>> \in (1..(fresh' - 1)) \X (1..(fresh' - 1))
      <3>1. i.token \in 1..(fresh - 1)
        BY PairForms
      <3>. QED  BY <1>0, <3>1 DEF Typed, TFresh
    <2>. QED  BY <1>0, <1>3, <2>6, <2>7, <2>8, DevicesType, PairedWider
  <1>. QED  BY <1>1, <1>2, <1>3, PairForms

LEMMA UseType ==
  ASSUME Typed, NEW r \in Request, UseToken(r)
  PROVE  Typed'
  <1>0. job[r].pc = "use" /\ job[r].kind \in DeviceKinds
    BY AtStep DEF UseToken, DeviceSteps
  <1>1. Grows /\ fresh' = fresh
    BY DEF UseToken, Grows, Typed, TFresh
  <1>2. TTokens'
    BY <1>1 DEF UseToken, Typed, TTokens, TokenRow
  <1>3. TJobs' /\ TMet' /\ TFresh'
    BY <1>0, <1>1, GotoDevice, StepType, DeviceFacts DEF UseToken, history
  <1>. QED  BY <1>1, <1>2, <1>3, RestType DEF UseToken, history, Typed

LEMMA OwnType ==
  ASSUME Typed, NEW r \in Request, SetOwner(r)
  PROVE  Typed'
  <1>0. job[r].pc = "own" /\ job[r].kind \in DeviceKinds
    BY AtStep DEF SetOwner, DeviceSteps
  <1>1. Grows /\ fresh' = fresh /\ met \subseteq met'
    BY DEF SetOwner, Grows, Typed, TFresh
  <1>2. job[r].held.cred \in 0..(fresh - 1)
    BY <1>0, DeviceFacts DEF DeviceJob, Row
  <1>3. TSent'
    BY <1>1, <1>2 DEF SetOwner, Typed, TSent
  <1>4. TJobs' /\ TMet' /\ TFresh'
    BY <1>1, FinishType DEF SetOwner
  <1>. QED  BY <1>1, <1>3, <1>4, RestType DEF SetOwner, tables, Typed

LEMMA CleanType ==
  ASSUME Typed, NEW r \in Request, CleanDeviceData(r)
  PROVE  Typed'
  <1>0. job[r].pc = "clean" /\ job[r].kind \in DeviceKinds
    BY AtStep DEF CleanDeviceData, DeviceSteps
  <1>1. Grows /\ fresh' = fresh
    BY DEF CleanDeviceData, Grows, Typed, TFresh
  <1>2. TTokens'
    <2>1. NoToken \in TokenRow(fresh)
      BY DEF NoToken, TokenRow, Typed, TFresh
    <2>. QED  BY <1>1, <2>1 DEF CleanDeviceData, Typed, TTokens
  <1>3. TJobs' /\ TMet' /\ TFresh'
    BY <1>0, <1>1, GotoDevice, StepType, DeviceFacts DEF CleanDeviceData, history
  <1>. QED  BY <1>1, <1>2, <1>3, RestType DEF CleanDeviceData, history, Typed

LEMMA RemoveType ==
  ASSUME Typed, NEW r \in Request, RemoveOrReset(r)
  PROVE  Typed'
  <1>. DEFINE j == job[r]
  <1>0. j.pc = "end" /\ j.kind \in DeviceKinds
    BY AtStep DEF RemoveOrReset, DeviceSteps
  <1>1. Grows /\ fresh' = fresh
    BY DEF RemoveOrReset, Grows, Typed, TFresh
  <1>2. CASE Found(r).id # j.held.id
    BY <1>2, OnlyFinish DEF RemoveOrReset, tables
  <1>3. CASE Found(r).id = j.held.id
    <2>. DEFINE row == IF j.kind = "remove" THEN NoRow ELSE Unpaired(Found(r))
    <2>1. WriteDevices([devices EXCEPT ![j.at] = row]) /\ Finish(r)
      BY <1>3 DEF RemoveOrReset, Found
    <2>2. Found(r) \in Row(fresh') /\ Found(r).id # 0 /\ ~Dangling(Found(r))
      BY <1>0, <1>1, <1>3, DeviceFacts DEF DeviceJob, Typed, TDevices, Found
    <2>3. /\ Unpaired(Found(r)) \in Row(fresh') /\ Unpaired(Found(r)).id # 0
          /\ Unpaired(Found(r)).gateway = Found(r).gateway
      BY <1>1, <2>2, UnpairedRow DEF Typed, TFresh
    <2>4. row = NoRow \/ (row \in Row(fresh') /\ row.id # 0 /\ ~Dangling(row))
      BY <2>2, <2>3 DEF Dangling
    <2>. HIDE DEF row
    <2>5. TDevices' /\ revoked' \subseteq 1..(fresh' - 1)
      BY <1>0, <1>1, <2>1, <2>4, WriteRow, DeviceFacts DEF RemoveOrReset
    <2>6. TJobs' /\ TMet' /\ TFresh'
      BY <1>1, <2>1, FinishType DEF RemoveOrReset
    <2>. QED  BY <1>1, <2>5, <2>6, DevicesType, PairedWider DEF RemoveOrReset
  <1>. QED  BY <1>2, <1>3

LEMMA OtherTypes ==
  ASSUME Typed, \/ \E s \in Serial : Expire(s)
                \/ Administer
  PROVE  Typed'
  <1>1. Grows /\ fresh' = fresh /\ UNCHANGED <<devices, gateways, controllers, told, job, history>>
    BY DEF Grows, Typed, TFresh, Expire, Administer, DeleteTokens
  <1>2. TTokens'
    <2>1. NoToken \in TokenRow(fresh)
      BY DEF NoToken, TokenRow, Typed, TFresh
    <2>2. CASE \E s \in Serial : Expire(s)
      BY <1>1, <2>2 DEF Expire, Typed, TTokens, TokenRow
    <2>3. ASSUME NEW S, DeleteTokens(S)
          PROVE  TTokens'
      BY <1>1, <2>1, <2>3 DEF DeleteTokens, Typed, TTokens
    <2>. QED  BY <2>2, <2>3 DEF Administer
  <1>3. TJobs' /\ TMet'
    BY <1>1 DEF Typed, TJobs, TMet, history
  <1>. QED  BY <1>1, <1>2, <1>3, RestType DEF Typed, history

LEMMA FailType ==
  ASSUME Typed, RequestFails \/ Crash
  PROVE  Typed'
  <1>1. PICK R : R \subseteq Request /\ Fail(R)
    BY DEF RequestFails, Crash
  <1>2. Grows /\ fresh' = fresh /\ met \subseteq met'
    BY <1>1 DEF Fail, Grows, Typed, TFresh
  <1>3. \A r \in Request : job'[r] \in {Idle, job[r]}
    BY <1>1 DEF Fail
  <1>4. TJobs'
    BY <1>1, <1>2, <1>3, IdleType DEF Fail, Typed, TJobs, TFresh
  <1>5. TMet'
    BY <1>2, <1>3 DEF Typed, TMet, Idle
  <1>. QED  BY <1>1, <1>2, <1>4, <1>5, RestType DEF Fail, Typed, tables

\* Requests about gateways.
LEMMA GatewayFacts ==
  ASSUME Typed, NEW r \in Request, job[r].kind \in GatewayKinds
  PROVE  /\ DOMAIN job[r] = Fields /\ JobType(job[r], fresh) /\ GatewayJob(job[r], fresh)
         /\ job[r].at \in Gateway /\ gateways[job[r].at] \in GatewayRow(fresh) /\ job[r].pc # "idle"
         /\ gateways[job[r].at].id = 0 => gateways[job[r].at] = NoGateway
  <1>1. JobType(job[r], fresh) /\ Idle.kind \notin GatewayKinds
    BY DEF Typed, TJobs, Idle, GatewayKinds
  <1>. QED  BY <1>1 DEF JobType, GatewayJob, Typed, TGateways

GatewaySteps == {"assign", "release", "remove"}

LEMMA AtGatewayStep ==
  ASSUME Typed, NEW r \in Request, job[r].pc \in GatewaySteps
  PROVE  job[r].kind \in GatewayKinds
  BY DEF Typed, TJobs, JobType, DeviceJob, AnyKind, GatewaySteps, Idle

\* A request about a gateway that moves on as one about a gateway.
LEMMA GatewayJobType ==
  ASSUME Typed, Grows, NEW r \in Request, NEW j, Become(r, j), job[r].kind \in GatewayKinds,
         DOMAIN j = Fields, j.kind = job[r].kind, j.pc # "idle", j.token \in 0..(fresh' - 1),
         j.gateway \in Nat, j.farm \in Farm \cup {None}, GatewayJob(j, fresh'), met \subseteq met'
  PROVE  TJobs' /\ TMet' /\ TFresh'
  <1>1. JobType(j, fresh')
    BY DEF JobType, DeviceKinds, AnyKind, GatewayKinds
  <1>. QED  BY <1>1, StepType, GatewayFacts

LEMMA WiderGatewayJob ==
  ASSUME Typed, Grows, NEW r \in Request, job[r].kind \in GatewayKinds
  PROVE  /\ GatewayJob(job[r], fresh') /\ job[r].token \in 0..(fresh' - 1)
         /\ job[r].gateway \in Nat /\ job[r].farm \in Farm \cup {None}
         /\ gateways[job[r].at] \in GatewayRow(fresh')
  <1>1. JobType(job[r], fresh')
    BY JobWider DEF Typed, TJobs, TFresh, Grows
  <1>2. gateways[job[r].at] \in GatewayRow(fresh')
    BY GatewayFacts, Wider DEF Typed, TFresh, Grows
  <1>. QED  BY <1>1, <1>2 DEF JobType

LEMMA GatewayProvisionType ==
  ASSUME Typed, NEW r \in Request, GatewayProvisionFind(r)
  PROVE  Typed'
  <1>. DEFINE row == gateways[job[r].at]
              held == [row EXCEPT !.token = fresh, !.used = FALSE]
              j == [job[r] EXCEPT !.pc = IF row.id = 0 THEN "write" ELSE "load", !.token = fresh,
                      !.held = held, !.loaded = NoGateway]
  <1>0. job[r].pc = "find" /\ job[r].kind = "gateway_provision" /\ job[r].kind \in GatewayKinds
    BY DEF GatewayProvisionFind, Finds, GatewayKinds
  <1>1. fresh' = fresh + 1 /\ Become(r, j) /\ Grows
    BY DEF GatewayProvisionFind, Grows, Typed, TFresh
  <1>2. fresh \in 0..(fresh' - 1) /\ fresh # 0 /\ 0 \in 0..(fresh' - 1)
    BY <1>1 DEF Typed, TFresh
  <1>3. held \in GatewayRow(fresh') /\ held.id = row.id
    <2>. DEFINE a == [row EXCEPT !.token = fresh]
    <2>1. a \in GatewayRow(fresh') /\ a.id = row.id
      BY <1>0, <1>1, <1>2, WiderGatewayJob DEF GatewayRow
    <2>2. held = [a EXCEPT !.used = FALSE]
      OBVIOUS
    <2>. HIDE DEF a
    <2>. QED  BY <2>1, <2>2 DEF GatewayRow
  <1>4. NoGateway \in GatewayRow(fresh')
    BY <1>2 DEF NoGateway, GatewayRow
  <1>. HIDE DEF held
  <1>5. /\ DOMAIN j = Fields /\ j.pc = (IF row.id = 0 THEN "write" ELSE "load") /\ j.kind = job[r].kind
        /\ j.at = job[r].at /\ j.farm = job[r].farm /\ j.token = fresh
        /\ j.gateway = job[r].gateway /\ j.held = held /\ j.loaded = NoGateway
    BY <1>0, GatewayFacts DEF Fields
  <1>. HIDE DEF j
  <1>6. GatewayJob(j, fresh')
    BY <1>0, <1>1, <1>2, <1>3, <1>4, <1>5, WiderGatewayJob DEF GatewayJob
  <1>7. j.gateway \in Nat /\ j.farm \in Farm \cup {None} /\ j.pc # "idle"
    BY <1>0, <1>1, <1>5, WiderGatewayJob
  <1>8. TJobs' /\ TMet' /\ TFresh'
    BY <1>0, <1>1, <1>2, <1>5, <1>6, <1>7, GatewayJobType DEF GatewayProvisionFind, history
  <1>. QED  BY <1>1, <1>8, RestType DEF GatewayProvisionFind, tables, history, Typed

LEMMA GatewayPairForms ==
  ASSUME Typed, NEW r \in Request, GatewayPairFind(r)
  PROVE  LET j == job[r] IN
         /\ j.pc = "find" /\ j.kind = "gateway_pair" /\ Grows /\ met \subseteq met'
         /\ UNCHANGED <<tables, controllers, told, paired, revoked>>
         /\ \/ Finish(r)
            \/ \E g \in Gateway :
                 /\ gateways[g].token = j.token /\ fresh + 1 <= fresh'
                 /\ gateways[g].farm \notin {None, j.farm} => {"gateway_pair", "move"} \in met'
                 /\ GatewaysOf(j.farm) \ {gateways[g].id} # {} => {"gateway_pair", "move"} \in met'
                 /\ Become(r, [j EXCEPT !.pc = "load", !.at = g, !.loaded = NoGateway,
                                 !.held = [gateways[g] EXCEPT !.farm = j.farm, !.cred = fresh, !.used = TRUE]])
  <1>. DEFINE j == job[r]
              match == {g \in Gateway : gateways[g].token = j.token /\ ~gateways[g].used}
  <1>0. j.pc = "find" /\ j.kind = "gateway_pair" /\ fresh' = fresh + Cardinality(match) /\ met \subseteq met'
        /\ UNCHANGED <<tables, controllers, told, paired, revoked>>
    BY DEF GatewayPairFind, Finds
  <1>1. IsFiniteSet(match)
    BY ConstantsAssumption, FS_Subset
  <1>2. Cardinality(match) \in Nat /\ (Cardinality(match) = 0 => match = {})
    BY <1>1, FS_CardinalityType, FS_EmptySet
  <1>3. Grows
    BY <1>0, <1>2 DEF Grows, Typed, TFresh
  <1>4. match # {} => fresh + 1 <= fresh'
    BY <1>0, <1>2 DEF Typed, TFresh
  <1>5. CASE match = {}
    BY <1>0, <1>3, <1>5 DEF GatewayPairFind
  <1>6. CASE match # {}
    <2>1. PICK g \in match :
            Become(r, [j EXCEPT !.pc = "load", !.at = g, !.loaded = NoGateway,
                         !.held = [gateways[g] EXCEPT !.farm = j.farm, !.cred = fresh, !.used = TRUE]])
      BY <1>6 DEF GatewayPairFind
    <2>2. /\ gateways[g].farm \notin {None, j.farm} => {"gateway_pair", "move"} \in met'
          /\ GatewaysOf(j.farm) \ {gateways[g].id} # {} => {"gateway_pair", "move"} \in met'
      BY <2>1 DEF GatewayPairFind
    <2>. HIDE DEF match
    <2>3. g \in Gateway /\ gateways[g].token = j.token
      BY <2>1 DEF match
    <2>. QED  BY <1>0, <1>3, <1>4, <1>6, <2>1, <2>2, <2>3
  <1>. QED  BY <1>5, <1>6

LEMMA GatewayPairType ==
  ASSUME Typed, NEW r \in Request, GatewayPairFind(r)
  PROVE  Typed'
  <1>0. job[r].pc = "find" /\ job[r].kind = "gateway_pair" /\ job[r].kind \in GatewayKinds /\ Grows
        /\ met \subseteq met' /\ UNCHANGED <<tables, controllers, told, paired, revoked>>
    BY GatewayPairForms DEF GatewayKinds
  <1>1. CASE Finish(r)
    <2>1. TJobs' /\ TMet' /\ TFresh'
      BY <1>0, <1>1, FinishType
    <2>. QED  BY <1>0, <2>1, RestType DEF tables, Typed
  <1>2. ASSUME NEW g \in Gateway, gateways[g].token = job[r].token, fresh + 1 <= fresh',
               Become(r, [job[r] EXCEPT !.pc = "load", !.at = g, !.loaded = NoGateway,
                            !.held = [gateways[g] EXCEPT !.farm = job[r].farm, !.cred = fresh, !.used = TRUE]])
        PROVE  Typed'
    <2>. DEFINE held == [gateways[g] EXCEPT !.farm = job[r].farm, !.cred = fresh, !.used = TRUE]
                j == [job[r] EXCEPT !.pc = "load", !.at = g, !.loaded = NoGateway, !.held = held]
    <2>1. job[r].farm \in Farm /\ job[r].token # 0 /\ gateways[g].id # 0
      <3>1. job[r].farm \in Farm /\ job[r].token # 0
        BY <1>0, GatewayFacts DEF GatewayJob
      <3>. QED  BY <1>2, <3>1 DEF Typed, TGateways, NoGateway
    <2>2. fresh \in 0..(fresh' - 1)
      BY <1>0, <1>2 DEF Typed, TFresh, Grows
    <2>3. held \in GatewayRow(fresh') /\ held.id # 0
      <3>. DEFINE a == [gateways[g] EXCEPT !.farm = job[r].farm]
                  b == [a EXCEPT !.cred = fresh]
      <3>1. gateways[g] \in GatewayRow(fresh')
        BY <1>0, Wider DEF Typed, TGateways, TFresh, Grows
      <3>2. a \in GatewayRow(fresh') /\ a.id # 0
        BY <2>1, <3>1 DEF GatewayRow
      <3>3. held = [b EXCEPT !.used = TRUE]
        OBVIOUS
      <3>. HIDE DEF a
      <3>4. b \in GatewayRow(fresh') /\ b.id # 0
        BY <2>2, <3>2 DEF GatewayRow
      <3>. HIDE DEF b
      <3>. QED  BY <3>3, <3>4 DEF GatewayRow
    <2>4. Become(r, j)
      BY <1>2
    <2>. HIDE DEF held
    <2>5. /\ DOMAIN j = Fields /\ j.pc = "load" /\ j.kind = job[r].kind
          /\ j.at = g /\ j.farm = job[r].farm /\ j.token = job[r].token
          /\ j.gateway = job[r].gateway /\ j.held = held /\ j.loaded = NoGateway
      BY <1>0, GatewayFacts DEF Fields
    <2>. HIDE DEF j
    <2>6. GatewayJob(j, fresh')
      BY <1>0, <2>1, <2>3, <2>5 DEF GatewayJob
    <2>7. j.gateway \in Nat /\ j.farm \in Farm \cup {None} /\ j.pc # "idle" /\ j.token \in 0..(fresh' - 1)
      BY <1>0, <2>5, WiderGatewayJob
    <2>8. TJobs' /\ TMet' /\ TFresh'
      BY <1>0, <2>4, <2>5, <2>6, <2>7, GatewayJobType
    <2>. QED  BY <1>0, <2>8, RestType DEF tables, Typed
  <1>. QED  BY <1>1, <1>2, GatewayPairForms

LEMMA LoadGatewayType ==
  ASSUME Typed, NEW r \in Request, LoadGateway(r)
  PROVE  Typed'
  <1>. DEFINE row == gateways[job[r].at]
              l == IF row.id = job[r].held.id THEN row ELSE NoGateway
              j == [job[r] EXCEPT !.pc = "write", !.loaded = l]
  <1>0. job[r].pc = "load" /\ job[r].kind \in GatewayKinds /\ Become(r, j) /\ UNCHANGED <<tables, controllers, told, fresh, history>>
    BY DEF LoadGateway, OnlyJob
  <1>1. Grows /\ fresh' = fresh
    BY <1>0 DEF Grows, Typed, TFresh
  <1>2. l \in GatewayRow(fresh) /\ (l = NoGateway \/ l.id = job[r].held.id)
    <2>1. NoGateway \in GatewayRow(fresh)
      BY DEF NoGateway, GatewayRow, Typed, TFresh
    <2>. QED  BY <1>0, <2>1, GatewayFacts
  <1>3. /\ DOMAIN j = Fields /\ j.pc = "write" /\ j.kind = job[r].kind
        /\ j.at = job[r].at /\ j.farm = job[r].farm /\ j.token = job[r].token
        /\ j.gateway = job[r].gateway /\ j.held = job[r].held /\ j.loaded = l
    BY <1>0, GatewayFacts DEF Fields
  <1>. HIDE DEF j, l
  <1>4. GatewayJob(j, fresh')
    BY <1>0, <1>1, <1>2, <1>3, GatewayFacts DEF GatewayJob
  <1>5. j.gateway \in Nat /\ j.farm \in Farm \cup {None} /\ j.pc # "idle" /\ j.token \in 0..(fresh' - 1)
    BY <1>0, <1>1, <1>3, WiderGatewayJob
  <1>6. TJobs' /\ TMet' /\ TFresh'
    BY <1>0, <1>1, <1>3, <1>4, <1>5, GatewayJobType DEF history
  <1>. QED  BY <1>0, <1>1, <1>6, RestType DEF tables, history, Typed

LEMMA AfterGatewayType ==
  ASSUME Typed, Grows, NEW r \in Request, job[r].kind \in GatewayKinds, job[r].pc = "write",
         NEW id \in Nat, AfterGatewayWrite(r, id), met \subseteq met'
  PROVE  TJobs' /\ TMet' /\ TFresh'
  <1>. DEFINE j == [job[r] EXCEPT !.pc = IF job[r].kind = "gateway_pair" THEN "assign" ELSE "respond",
                      !.gateway = id]
  <1>1. Become(r, j)
    BY DEF AfterGatewayWrite
  <1>2. /\ DOMAIN j = Fields /\ j.pc = (IF job[r].kind = "gateway_pair" THEN "assign" ELSE "respond")
        /\ j.kind = job[r].kind /\ j.at = job[r].at /\ j.farm = job[r].farm /\ j.token = job[r].token
        /\ j.gateway = id /\ j.held = job[r].held /\ j.loaded = job[r].loaded
    BY GatewayFacts DEF Fields
  <1>. HIDE DEF j
  <1>3. GatewayJob(j, fresh')
    BY <1>2, WiderGatewayJob DEF GatewayJob
  <1>4. j.gateway \in Nat /\ j.farm \in Farm \cup {None} /\ j.pc # "idle" /\ j.token \in 0..(fresh' - 1)
    BY <1>2, WiderGatewayJob
  <1>. QED  BY <1>1, <1>2, <1>3, <1>4, GatewayJobType

\* A gateway is written, and the ids of the others stay.
LEMMA WriteGateway ==
  ASSUME Typed, Grows, NEW g \in Gateway, NEW row \in GatewayRow(fresh'), row.id # 0,
         gateways' = [gateways EXCEPT ![g] = row], gateways[g].id \in {0, row.id}, UNCHANGED devices
  PROVE  TGateways' /\ TDevices'
  <1>1. Row(fresh) \subseteq Row(fresh') /\ GatewayRow(fresh) \subseteq GatewayRow(fresh')
    BY Wider DEF Typed, TFresh, Grows
  <1>2. \A h \in Gateway : gateways'[h] = IF h = g THEN row ELSE gateways[h]
    BY DEF Typed, TGateways
  <1>3. TGateways'
    BY <1>1, <1>2 DEF Typed, TGateways
  <1>4. ASSUME NEW s \in Serial
        PROVE  ~Dangling(devices[s])'
    <2>1. CASE devices[s].gateway = 0
      BY <2>1 DEF Dangling
    <2>2. CASE devices[s].gateway # 0
      <3>1. PICK h \in Gateway : gateways[h].id = devices[s].gateway
        BY <2>2 DEF Typed, TDevices, Dangling
      <3>2. gateways'[h].id = devices[s].gateway
        BY <1>2, <2>2, <3>1
      <3>. QED  BY <3>1, <3>2 DEF Dangling
    <2>. QED  BY <2>1, <2>2
  <1>. QED  BY <1>1, <1>3, <1>4 DEF Typed, TDevices

LEMMA InsertGatewayType ==
  ASSUME Typed, NEW r \in Request, InsertGateway(r)
  PROVE  Typed'
  <1>. DEFINE held == job[r].held
              id == IF held.id = 0 THEN fresh ELSE held.id
              row == [held EXCEPT !.id = id]
              g == job[r].at
  <1>0. job[r].kind \in GatewayKinds /\ job[r].pc = "write"
    BY DEF InsertGateway
  <1>1. CASE gateways[g] # NoGateway
    BY <1>1, OnlyFinish DEF InsertGateway, tables, history
  <1>2. CASE gateways[g] = NoGateway
    <2>1. gateways' = [gateways EXCEPT ![g] = row] /\ fresh' = fresh + 1 /\ AfterGatewayWrite(r, id)
      BY <1>2 DEF InsertGateway
    <2>2. Grows
      BY <2>1 DEF Grows, Typed, TFresh
    <2>3. held \in GatewayRow(fresh) /\ held \in GatewayRow(fresh') /\ g \in Gateway
      BY <1>0, <2>2, GatewayFacts, WiderGatewayJob DEF GatewayJob
    <2>4. id \in 0..(fresh' - 1) /\ id # 0 /\ id \in Nat
      BY <2>1, <2>3 DEF GatewayRow, Typed, TFresh
    <2>. HIDE DEF id
    <2>5. row \in GatewayRow(fresh') /\ row.id = id
      BY <2>3, <2>4 DEF GatewayRow
    <2>. HIDE DEF row
    <2>6. gateways[g].id = 0
      BY <1>2 DEF NoGateway
    <2>7. TGateways' /\ TDevices'
      BY <2>1, <2>2, <2>3, <2>4, <2>5, <2>6, WriteGateway DEF InsertGateway
    <2>8. TJobs' /\ TMet' /\ TFresh'
      BY <1>0, <2>1, <2>2, <2>4, AfterGatewayType DEF InsertGateway, history
    <2>. QED  BY <2>2, <2>7, <2>8, RestType DEF InsertGateway, history, Typed
  <1>. QED  BY <1>1, <1>2

LEMMA UpdateGatewayType ==
  ASSUME Typed, NEW r \in Request, UpdateGateway(r)
  PROVE  Typed'
  <1>. DEFINE j == job[r]
              row == gateways[j.at]
              new == Merge(row, j.held, j.loaded)
  <1>0. j.kind \in GatewayKinds /\ j.pc = "write" /\ j.loaded # NoGateway /\ AfterGatewayWrite(r, j.held.id)
        /\ UNCHANGED <<devices, tokens, controllers, told, fresh, started, failures, history>>
    BY DEF UpdateGateway
  <1>1. Grows /\ fresh' = fresh
    BY <1>0 DEF Grows, Typed, TFresh
  <1>2. /\ j.held \in GatewayRow(fresh) /\ j.loaded \in GatewayRow(fresh) /\ row \in GatewayRow(fresh)
        /\ j.held.id = j.loaded.id /\ j.held.id # 0 /\ j.at \in Gateway /\ j.held.id \in Nat
    BY <1>0, GatewayFacts DEF GatewayJob, GatewayRow, Typed, TFresh
  <1>3. TJobs' /\ TMet' /\ TFresh'
    BY <1>0, <1>1, <1>2, AfterGatewayType DEF history
  <1>4. CASE row.id # j.held.id
    BY <1>0, <1>1, <1>3, <1>4, RestType DEF UpdateGateway, history, Typed
  <1>5. CASE row.id = j.held.id
    <2>1. new \in GatewayRow(fresh) /\ new.id = row.id
      BY <1>2, MergeGateway
    <2>2. gateways' = [gateways EXCEPT ![j.at] = new]
      BY <1>5 DEF UpdateGateway
    <2>. HIDE DEF new
    <2>3. TGateways' /\ TDevices'
      BY <1>0, <1>1, <1>2, <1>5, <2>1, <2>2, WriteGateway
    <2>. QED  BY <1>0, <1>1, <1>3, <2>3, RestType DEF history, Typed
  <1>. QED  BY <1>4, <1>5

\* A request about a gateway with another step.
LEMMA GotoGateway ==
  ASSUME Typed, NEW r \in Request, NEW step, Goto(r, step),
         \/ step = "respond" /\ job[r].pc = "assign"
         \/ step = "remove" /\ job[r].pc = "release",
         fresh' = fresh, met \subseteq met'
  PROVE  TJobs' /\ TMet' /\ TFresh'
  <1>. DEFINE j == [job[r] EXCEPT !.pc = step]
  <1>0. job[r].kind \in GatewayKinds /\ Grows
    BY AtGatewayStep DEF GatewaySteps, Grows, Typed, TFresh
  <1>1. /\ DOMAIN j = Fields /\ j.pc = step /\ j.kind = job[r].kind /\ j.at = job[r].at /\ j.farm = job[r].farm
        /\ j.token = job[r].token /\ j.gateway = job[r].gateway /\ j.held = job[r].held /\ j.loaded = job[r].loaded
    BY <1>0, StepFields, GatewayFacts
  <1>2. Become(r, j)
    BY DEF Goto
  <1>. HIDE DEF j
  <1>3. GatewayJob(j, fresh')
    BY <1>0, <1>1, GatewayFacts DEF GatewayJob
  <1>4. j.gateway \in Nat /\ j.farm \in Farm \cup {None} /\ j.pc # "idle" /\ j.token \in 0..(fresh' - 1)
    BY <1>0, <1>1, WiderGatewayJob
  <1>. QED  BY <1>0, <1>1, <1>2, <1>3, <1>4, GatewayJobType

LEMMA AssignedRows ==
  ASSUME Typed, NEW f, f # None, NEW id \in Nat
  PROVE  /\ SameButGateway(Assigned(f, id))
         /\ \A s \in Serial : Assigned(f, id)[s].gateway = IF devices[s].farm = f THEN id ELSE devices[s].gateway
  <1>1. ASSUME NEW s \in Serial
        PROVE  LET row == [devices[s] EXCEPT !.gateway = id] IN
               /\ devices[s] \in Row(fresh) /\ row \in Row(fresh) /\ row.gateway = id /\ row.id = devices[s].id
               /\ row.cred = devices[s].cred /\ row.status = devices[s].status /\ row.farm = devices[s].farm
    <2>1. devices[s] \in Row(fresh)
      BY DEF Typed, TDevices
    <2>. QED  BY <2>1 DEF Row
  <1>2. ASSUME NEW s \in Serial PROVE devices[s] = NoRow => devices[s].farm = None
    BY DEF NoRow
  <1>. QED  BY <1>1, <1>2 DEF SameButGateway, Assigned

LEMMA ReleasedRows ==
  ASSUME Typed, NEW id \in Nat
  PROVE  /\ SameButGateway(Released(id))
         /\ \A s \in Serial : Released(id)[s].gateway = IF devices[s].gateway = id THEN 0 ELSE devices[s].gateway
  <1>1. ASSUME NEW s \in Serial
        PROVE  LET row == [devices[s] EXCEPT !.gateway = 0] IN
               /\ devices[s] \in Row(fresh) /\ row \in Row(fresh) /\ row.gateway = 0 /\ row.id = devices[s].id
               /\ row.cred = devices[s].cred /\ row.status = devices[s].status /\ row.farm = devices[s].farm
    <2>1. devices[s] \in Row(fresh)
      BY DEF Typed, TDevices
    <2>. QED  BY <2>1 DEF Row
  <1>2. ASSUME NEW s \in Serial, devices[s] = NoRow PROVE [devices[s] EXCEPT !.gateway = 0] = NoRow
    BY <1>2 DEF NoRow
  <1>. QED  BY <1>1, <1>2 DEF SameButGateway, Released

LEMMA AssignType ==
  ASSUME Typed, NEW r \in Request, AssignDevices(r)
  PROVE  Typed'
  <1>. DEFINE j == job[r]
  <1>0. j.pc = "assign" /\ j.kind \in GatewayKinds
    BY AtGatewayStep DEF AssignDevices, GatewaySteps
  <1>1. Grows /\ fresh' = fresh
    BY DEF AssignDevices, Grows, Typed, TFresh
  <1>2. CASE Finish(r) /\ UNCHANGED <<devices, revoked>>
    BY <1>2, OnlyFinish DEF AssignDevices, tables
  <1>3. CASE ~(Finish(r) /\ UNCHANGED <<devices, revoked>>)
    <2>1. /\ \A s \in Serial : devices[s].farm = j.farm => \E g \in Gateway : gateways[g].id = j.gateway
          /\ WriteDevices(Assigned(j.farm, j.gateway)) /\ Goto(r, "respond")
      BY <1>3 DEF AssignDevices
    <2>2. j.farm \in Farm /\ j.farm # None /\ j.gateway \in Nat
      BY <1>0, GatewayFacts, ConstantsAssumption DEF GatewayJob, JobType
    <2>3. TDevices' /\ revoked' = revoked
      <3>. DEFINE table == Assigned(j.farm, j.gateway)
      <3>1. SameButGateway(table)
            /\ \A s \in Serial : table[s].gateway = IF devices[s].farm = j.farm THEN j.gateway ELSE devices[s].gateway
        BY <2>2, AssignedRows
      <3>2. WriteDevices(table) /\ gateways' = gateways
        BY <2>1 DEF AssignDevices
      <3>. HIDE DEF table
      <3>3. \A s \in Serial : table[s].gateway # 0 => \E g \in Gateway : gateways'[g].id = table[s].gateway
        BY <2>1, <3>1, <3>2 DEF Typed, TDevices, Dangling
      <3>. QED  BY <1>1, <3>1, <3>2, <3>3, WriteGateways
    <2>4. TJobs' /\ TMet' /\ TFresh'
      BY <1>0, <1>1, <2>1, GotoGateway DEF AssignDevices
    <2>. QED  BY <1>1, <2>3, <2>4, DevicesType, PairedWider DEF AssignDevices
  <1>. QED  BY <1>2, <1>3

LEMMA GatewayRespondType ==
  ASSUME Typed, NEW r \in Request, GatewayRespond(r)
  PROVE  Typed'
  <1>. DEFINE j == job[r]
  <1>0. j.pc = "respond" /\ j.kind \in GatewayKinds
    BY DEF GatewayRespond
  <1>1. Grows /\ fresh' = fresh
    BY DEF GatewayRespond, Grows, Typed, TFresh
  <1>2. j.token \in 1..(fresh - 1) /\ j.held.cred \in 0..(fresh - 1)
    <2>1. j.token # 0 /\ j.token \in 0..(fresh - 1) /\ j.held \in GatewayRow(fresh)
      BY <1>0, GatewayFacts DEF GatewayJob, JobType
    <2>. QED  BY <2>1 DEF GatewayRow, Typed, TFresh
  <1>3. TSent'
    <2>1. CASE j.kind = "gateway_pair"
      BY <1>1, <1>2, <2>1 DEF GatewayRespond, Typed, TSent, history
    <2>2. CASE j.kind # "gateway_pair"
      <3>1. told'.device = told.device /\ told'.gateway = told.gateway \cup {j.token}
            /\ DOMAIN told' = {"device", "gateway"} /\ UNCHANGED controllers
        BY <2>2 DEF GatewayRespond, Typed, TSent
      <3>. QED  BY <1>1, <1>2, <3>1 DEF GatewayRespond, Typed, TSent, history
    <2>. QED  BY <2>1, <2>2
  <1>4. TJobs' /\ TMet' /\ TFresh'
    BY <1>1, FinishType DEF GatewayRespond, history
  <1>. QED  BY <1>1, <1>3, <1>4, RestType DEF GatewayRespond, tables, Typed

LEMMA DeleteType ==
  ASSUME Typed, NEW r \in Request, DeleteFind(r)
  PROVE  Typed'
  <1>. DEFINE row == gateways[job[r].at]
              j == [job[r] EXCEPT !.pc = "release", !.gateway = row.id]
  <1>0. job[r].pc = "find" /\ job[r].kind = "gateway_delete" /\ job[r].kind \in GatewayKinds
        /\ UNCHANGED <<tables, controllers, told, fresh, history>>
    BY DEF DeleteFind, Finds, GatewayKinds, OnlyJob
  <1>1. Grows /\ fresh' = fresh
    BY <1>0 DEF Grows, Typed, TFresh
  <1>2. CASE row = NoGateway
    BY <1>0, <1>2, OnlyFinish DEF DeleteFind, tables, history
  <1>3. CASE row # NoGateway
    <2>1. Become(r, j)
      BY <1>3 DEF DeleteFind
    <2>2. row.id \in Nat
      BY <1>0, GatewayFacts DEF GatewayRow, Typed, TFresh
    <2>3. /\ DOMAIN j = Fields /\ j.pc = "release" /\ j.kind = job[r].kind
          /\ j.at = job[r].at /\ j.farm = job[r].farm /\ j.token = job[r].token
          /\ j.gateway = row.id /\ j.held = job[r].held /\ j.loaded = job[r].loaded
      BY <1>0, GatewayFacts DEF Fields
    <2>. HIDE DEF j
    <2>4. GatewayJob(j, fresh')
      BY <1>0, <1>1, <2>3, GatewayFacts DEF GatewayJob
    <2>5. j.gateway \in Nat /\ j.farm \in Farm \cup {None} /\ j.pc # "idle" /\ j.token \in 0..(fresh' - 1)
      BY <1>0, <1>1, <2>2, <2>3, WiderGatewayJob
    <2>6. TJobs' /\ TMet' /\ TFresh'
      BY <1>0, <1>1, <2>1, <2>3, <2>4, <2>5, GatewayJobType DEF history
    <2>. QED  BY <1>0, <1>1, <2>6, RestType DEF tables, history, Typed
  <1>. QED  BY <1>2, <1>3

LEMMA ReleaseType ==
  ASSUME Typed, NEW r \in Request, ReleaseDevices(r)
  PROVE  Typed'
  <1>0. job[r].pc = "release" /\ job[r].kind \in GatewayKinds
    BY AtGatewayStep DEF ReleaseDevices, GatewaySteps
  <1>1. Grows /\ fresh' = fresh
    BY DEF ReleaseDevices, Grows, Typed, TFresh
  <1>2. job[r].gateway \in Nat
    BY <1>0, GatewayFacts DEF JobType
  <1>3. TDevices' /\ revoked' = revoked
    <2>. DEFINE table == Released(job[r].gateway)
    <2>1. SameButGateway(table)
          /\ \A s \in Serial : table[s].gateway = IF devices[s].gateway = job[r].gateway THEN 0 ELSE devices[s].gateway
      BY <1>2, ReleasedRows
    <2>2. WriteDevices(table) /\ gateways' = gateways
      BY DEF ReleaseDevices
    <2>. HIDE DEF table
    <2>3. \A s \in Serial : table[s].gateway # 0 => \E g \in Gateway : gateways'[g].id = table[s].gateway
      BY <2>1, <2>2 DEF Typed, TDevices, Dangling
    <2>. QED  BY <1>1, <2>1, <2>2, <2>3, WriteGateways
  <1>4. TJobs' /\ TMet' /\ TFresh'
    BY <1>0, <1>1, GotoGateway DEF ReleaseDevices
  <1>. QED  BY <1>1, <1>3, <1>4, DevicesType, PairedWider DEF ReleaseDevices

LEMMA RemoveGatewayType ==
  ASSUME Typed, NEW r \in Request, RemoveGateway(r)
  PROVE  Typed'
  <1>. DEFINE j == job[r]
  <1>0. j.pc = "remove" /\ j.kind \in GatewayKinds /\ Finish(r)
        /\ UNCHANGED <<tokens, controllers, told, fresh, started, failures, met, paired>>
    BY AtGatewayStep DEF RemoveGateway, GatewaySteps
  <1>1. Grows /\ fresh' = fresh
    BY <1>0 DEF Grows, Typed, TFresh
  <1>2. CASE gateways[j.at].id # j.gateway
    BY <1>2, OnlyFinish DEF RemoveGateway, tables
  <1>3. CASE gateways[j.at].id = j.gateway
    <2>1. gateways' = [gateways EXCEPT ![j.at] = NoGateway] /\ WriteDevices(Released(j.gateway))
      BY <1>3 DEF RemoveGateway
    <2>2. j.gateway \in Nat /\ j.at \in Gateway
      BY <1>0, GatewayFacts DEF JobType
    <2>3. NoGateway \in GatewayRow(fresh)
      BY DEF NoGateway, GatewayRow, Typed, TFresh
    <2>4. \A g \in Gateway : gateways'[g] = IF g = j.at THEN NoGateway ELSE gateways[g]
      BY <2>1 DEF Typed, TGateways
    <2>5. TGateways'
      BY <1>1, <2>1, <2>3, <2>4 DEF Typed, TGateways
    <2>6. TDevices' /\ revoked' = revoked
      <3>. DEFINE table == Released(j.gateway)
      <3>1. SameButGateway(table)
            /\ \A s \in Serial : table[s].gateway = IF devices[s].gateway = j.gateway THEN 0 ELSE devices[s].gateway
        BY <2>2, ReleasedRows
      <3>2. WriteDevices(table)
        BY <2>1
      <3>. HIDE DEF table
      <3>3. ASSUME NEW s \in Serial, table[s].gateway # 0
            PROVE  \E g \in Gateway : gateways'[g].id = table[s].gateway
        <4>1. table[s].gateway = devices[s].gateway /\ devices[s].gateway # j.gateway
          BY <3>1, <3>3
        <4>2. PICK g \in Gateway : gateways[g].id = devices[s].gateway
          BY <3>3, <4>1 DEF Typed, TDevices, Dangling
        <4>3. g # j.at
          BY <1>3, <4>1, <4>2
        <4>. QED  BY <2>4, <4>1, <4>2, <4>3
      <3>. QED  BY <1>1, <3>1, <3>2, <3>3, WriteGateways
    <2>7. TJobs' /\ TMet' /\ TFresh'
      BY <1>0, <1>1, FinishType
    <2>8. TSent'
      BY <1>0, <1>1, <2>6 DEF Typed, TSent
    <2>. QED  BY <1>0, <1>1, <2>5, <2>6, <2>7, <2>8, RestType DEF Typed
  <1>. QED  BY <1>2, <1>3

LEMMA TypedStep ==
  ASSUME Typed, [Next]_vars
  PROVE  Typed'
  <1>1. CASE UNCHANGED vars
    BY <1>1 DEF vars, tables, history, Typed, TFresh, TJobs, TDevices, TGateways, TTokens, TSent, TMet, Dangling
  <1>2. ASSUME NEW r \in Request, Arrive(r) \/ Handle(r)
        PROVE  Typed'
    BY <1>2, ArriveType, FindTypes, RegenerateType, LoadType, InsertType, UpdateType, GenerateType, RespondType,
       PairFindType, CheckType, PickType, PairType, UseType, OwnType, CleanType, RemoveType DEF Handle
  <1>3. ASSUME NEW r \in Request, ArriveGateway(r) \/ HandleGateway(r)
        PROVE  Typed'
    BY <1>3, ArriveGatewayType, GatewayProvisionType, GatewayPairType, LoadGatewayType, InsertGatewayType,
       UpdateGatewayType, AssignType, GatewayRespondType, DeleteType, ReleaseType, RemoveGatewayType
       DEF HandleGateway
  <1>. QED  BY <1>1, <1>2, <1>3, OtherTypes, FailType DEF Next, DeviceNext, GatewayNext

\* Every variable keeps its type and no row refers to a gateway that is gone,
\* however requests overlap and fail.
THEOREM TypeInvariant == Spec => []TypeOK
  <1>1. Init => Typed
    BY TypedInit
  <1>2. Typed /\ [Next]_vars => Typed'
    BY TypedStep
  <1>3. Typed => TypeOK
    BY TypedImplies
  <1>. QED  BY <1>1, <1>2, <1>3, PTL DEF Spec

-----------------------------------------------------------------------------
(* A pairing token pairs once. *)

\* Pairings that hold a token that was checked and is not marked yet.
Pairing(j) == j.pc \in {"gateway", "pair", "use"}

OnePairing == ~Met({"pair"}, {"pair", "failure"})

\* A token is in one row.
OneRow ==
  /\ \A s, t \in Serial : tokens[s].value # 0 /\ tokens[s].value = tokens[t].value => s = t
  /\ \A r \in Request : Pairing(job[r]) =>
       \A s \in Serial : tokens[s].value = job[r].token => s = job[r].at

\* A token that paired is used, or about to be marked so.
UsedUp ==
  \A p \in paired, s \in Serial :
    tokens[s].value = p[1] /\ ~tokens[s].used =>
      \E r \in Request : job[r].pc = "use" /\ job[r].token = p[1] /\ job[r].at = s

\* A pairing under way has a token that did not pair yet.
NotYet ==
  \A r \in Request : job[r].pc \in {"gateway", "pair"} => \A p \in paired : p[1] # job[r].token

Once == \A p, q \in paired : p[1] = q[1] => p = q

TokenInv == OneRow /\ (OnePairing => UsedUp /\ NotYet /\ Once)

\* A step that checks no token, pairs no device and marks no token.
TokensLeft ==
  \A s \in Serial : \/ tokens'[s].value = tokens[s].value /\ tokens'[s].used = tokens[s].used
                    \/ tokens'[s].value = 0
Aside ==
  /\ met \subseteq met' /\ paired' = paired /\ TokensLeft
  /\ \A q \in Request : job'[q] = job[q] \/ (~Pairing(job'[q]) /\ job[q].pc # "use")

LEMMA MetGrows ==
  ASSUME NEW K, NEW L, met \subseteq met', Met(K, L)
  PROVE  Met(K, L)'
  BY DEF Met

LEMMA TwoPairings ==
  ASSUME Typed, OnePairing, NEW p \in Request, NEW q \in Request,
         job[p].pc # "idle", job[q].pc # "idle", job[p].kind = "pair", job[q].kind = "pair"
  PROVE  p = q
  BY DEF Typed, TMet, OnePairing, Met

LEMMA PairingKind ==
  ASSUME Typed, NEW r \in Request, Pairing(job[r]) \/ job[r].pc \in {"check", "own"}
  PROVE  job[r].kind = "pair" /\ job[r].kind \in DeviceKinds /\ job[r].token \in 1..(fresh - 1) /\ job[r].at \in Serial
         /\ job[r].pc # "idle"
  <1>1. job[r].kind \in DeviceKinds
    BY AtStep DEF Pairing, DeviceSteps
  <1>. QED  BY <1>1, DeviceFacts DEF Pairing, DeviceJob, JobType, Typed, TFresh

LEMMA AsideKeeps ==
  ASSUME Typed, TokenInv, Aside
  PROVE  TokenInv'
  <1>1. OneRow'
    <2>1. ASSUME NEW s \in Serial, NEW t \in Serial, tokens'[s].value # 0, tokens'[s].value = tokens'[t].value
          PROVE  s = t
      BY <2>1 DEF TokenInv, OneRow, Aside, TokensLeft
    <2>2. ASSUME NEW r \in Request, Pairing(job'[r]), NEW s \in Serial, tokens'[s].value = job'[r].token
          PROVE  s = job'[r].at
      <3>1. job'[r] = job[r]
        BY <2>2 DEF Aside
      <3>2. job[r].token \in 1..(fresh - 1)
        BY <2>2, <3>1, PairingKind
      <3>3. tokens'[s].value = tokens[s].value
        BY <2>2, <3>1, <3>2 DEF Aside, TokensLeft
      <3>. QED  BY <2>2, <3>1, <3>3 DEF TokenInv, OneRow
    <2>. QED  BY <2>1, <2>2 DEF OneRow, Pairing
  <1>. SUFFICES ASSUME OnePairing' PROVE UsedUp' /\ NotYet' /\ Once'
    BY <1>1 DEF TokenInv
  <1>2. OnePairing
    BY MetGrows DEF OnePairing, Aside
  <1>3. UsedUp'
    <2>. SUFFICES ASSUME NEW p \in paired, NEW s \in Serial, tokens'[s].value = p[1], ~tokens'[s].used
                  PROVE  \E r \in Request : job'[r].pc = "use" /\ job'[r].token = p[1] /\ job'[r].at = s
      BY DEF UsedUp, Aside
    <2>1. p[1] # 0
      BY DEF Typed, TSent
    <2>2. tokens[s].value = p[1] /\ ~tokens[s].used
      BY <2>1 DEF Aside, TokensLeft
    <2>3. PICK r \in Request : job[r].pc = "use" /\ job[r].token = p[1] /\ job[r].at = s
      BY <1>2, <2>2 DEF TokenInv, UsedUp
    <2>4. job'[r] = job[r]
      BY <2>3 DEF Aside
    <2>. QED  BY <2>3, <2>4
  <1>4. NotYet'
    BY <1>2 DEF TokenInv, NotYet, Aside, Pairing
  <1>5. Once'
    BY <1>2 DEF TokenInv, Once, Aside
  <1>. QED  BY <1>3, <1>4, <1>5

\* One request moves and checks, pairs and marks nothing.
LEMMA MovesAside ==
  ASSUME Typed, NEW r \in Request, NEW j, Become(r, j), ~Pairing(j), job[r].pc # "use",
         met \subseteq met', UNCHANGED <<tokens, paired>>
  PROVE  Aside
  <1>1. \A q \in Request : q # r => job'[q] = job[q]
    BY DEF Become, Typed, TJobs
  <1>2. job'[r] = j
    BY DEF Become, Typed, TJobs
  <1>. QED  BY <1>1, <1>2 DEF Aside, TokensLeft

LEMMA HandleAside ==
  ASSUME Typed, NEW r \in Request,
         \/ Arrive(r) \/ ArriveGateway(r) \/ HandleGateway(r)
         \/ ProvisionFind(r) \/ LoadRow(r) \/ InsertRow(r) \/ UpdateRow(r) \/ Respond(r) \/ PairFind(r)
         \/ SetOwner(r) \/ UnpairFind(r) \/ RegenerateFind(r) \/ Preload(r) \/ RemoveFind(r)
         \/ RemoveOrReset(r)
  PROVE  Aside
  <1>0. ~Pairing(Idle) /\ (job[r].pc # "idle" => DOMAIN job[r] = Fields)
    BY DEF Pairing, Idle, Typed, TJobs, JobType
  <1>1. ASSUME NEW j, Start(r, j), ~Pairing(j), UNCHANGED <<tokens, paired>>
        PROVE  Aside
    BY <1>1, MovesAside DEF Start
  <1>2. ASSUME NEW j, Become(r, j), j = Idle \/ j.pc \in {"load", "write", "token", "check", "clean", "assign",
                 "respond", "release", "remove"},
               job[r].pc # "use", met \subseteq met', UNCHANGED <<tokens, paired>>
        PROVE  Aside
    BY <1>0, <1>2, MovesAside DEF Pairing
  <1>3. ASSUME NEW step, Goto(r, step), job[r].pc # "idle", job[r].pc # "use", met \subseteq met',
               UNCHANGED <<tokens, paired>>, step \in {"token", "respond", "remove"}
        PROVE  Aside
    <2>. DEFINE j == [job[r] EXCEPT !.pc = step]
    <2>1. j.pc = step
      BY <1>0, <1>3, StepFields
    <2>2. Become(r, j)
      BY <1>3 DEF Goto
    <2>. HIDE DEF j
    <2>3. j.pc \in {"token", "respond", "remove"}
      BY <1>3, <2>1
    <2>. QED  BY <1>2, <1>3, <2>2, <2>3
  <1>4. CASE Arrive(r)
    BY <1>1, <1>4 DEF Arrive, tables, Pairing, Idle
  <1>5. CASE ArriveGateway(r)
    BY <1>1, <1>5 DEF ArriveGateway, tables, Pairing, Idle
  <1>6. ASSUME NEW entity, Save(r, entity), job[r].pc = "find", met \subseteq met', UNCHANGED <<tokens, paired>>
        PROVE  Aside
    <2>. DEFINE j == [job[r] EXCEPT !.pc = IF entity.id = 0 THEN "write" ELSE "load", !.held = entity]
    <2>1. j.pc \in {"load", "write"}
      BY <1>0, <1>6 DEF Fields
    <2>. HIDE DEF j
    <2>. QED  BY <1>2, <1>6, <2>1 DEF Save, j
  <1>7. ASSUME Finish(r), job[r].pc # "use", met \subseteq met', UNCHANGED <<tokens, paired>>
        PROVE  Aside
    BY <1>2, <1>7 DEF Finish
  <1>8. CASE ProvisionFind(r)
    BY <1>6, <1>7, <1>8 DEF ProvisionFind, Finds, OnlyJob, tables, history
  <1>9. CASE UnpairFind(r)
    BY <1>6, <1>7, <1>9 DEF UnpairFind, Finds, OnlyJob, tables, history
  <1>10. CASE RegenerateFind(r)
    BY <1>6, <1>7, <1>10 DEF RegenerateFind, Finds, tables, history
  <1>11. CASE Preload(r)
    BY <1>6, <1>7, <1>11 DEF Preload, Finds, tables
  <1>12. CASE LoadRow(r)
    BY <1>0, <1>2, <1>12 DEF LoadRow, OnlyJob, tables, history, Fields
  <1>13. CASE InsertRow(r)
    BY <1>3, <1>7, <1>13 DEF InsertRow, AfterWrite
  <1>14. CASE UpdateRow(r)
    BY <1>3, <1>7, <1>14 DEF UpdateRow, AfterWrite
  <1>15. CASE Respond(r)
    BY <1>7, <1>15 DEF Respond, tables, history
  <1>16. CASE PairFind(r)
    BY <1>0, <1>2, <1>7, <1>16 DEF PairFind, Finds, OnlyJob, tables, history, Fields
  <1>17. CASE SetOwner(r)
    BY <1>7, <1>17 DEF SetOwner, tables
  <1>18. CASE RemoveFind(r)
    BY <1>0, <1>2, <1>7, <1>18 DEF RemoveFind, OnlyJob, tables, history, Fields
  <1>19. CASE RemoveOrReset(r)
    BY <1>7, <1>19 DEF RemoveOrReset
  <1>20. CASE GatewayProvisionFind(r)
    BY <1>0, <1>2, <1>20 DEF GatewayProvisionFind, Finds, tables, history, Fields
  <1>21. CASE GatewayPairFind(r)
    BY <1>0, <1>2, <1>7, <1>21, GatewayPairForms DEF tables, Fields
  <1>22. CASE LoadGateway(r)
    BY <1>0, <1>2, <1>22 DEF LoadGateway, OnlyJob, tables, history, Fields
  <1>23. ASSUME NEW id, AfterGatewayWrite(r, id), job[r].pc = "write", met \subseteq met', UNCHANGED <<tokens, paired>>
         PROVE  Aside
    BY <1>0, <1>2, <1>23 DEF AfterGatewayWrite, Fields
  <1>24. CASE InsertGateway(r)
    BY <1>7, <1>23, <1>24 DEF InsertGateway, history
  <1>25. CASE UpdateGateway(r)
    BY <1>23, <1>25 DEF UpdateGateway, history
  <1>26. CASE AssignDevices(r)
    BY <1>3, <1>7, <1>26 DEF AssignDevices
  <1>27. CASE GatewayRespond(r)
    BY <1>7, <1>27 DEF GatewayRespond, tables, history
  <1>28. CASE DeleteFind(r)
    BY <1>0, <1>2, <1>7, <1>28 DEF DeleteFind, Finds, OnlyJob, tables, history, Fields
  <1>29. CASE ReleaseDevices(r)
    BY <1>3, <1>29 DEF ReleaseDevices
  <1>30. CASE RemoveGateway(r)
    BY <1>7, <1>30 DEF RemoveGateway
  <1>. QED
    BY <1>4, <1>5, <1>8, <1>9, <1>10, <1>11, <1>12, <1>13, <1>14, <1>15, <1>16, <1>17, <1>18, <1>19, <1>20,
       <1>21, <1>22, <1>24, <1>25, <1>26, <1>27, <1>28, <1>29, <1>30 DEF HandleGateway

LEMMA TokensAside ==
  ASSUME Typed, \/ \E s \in Serial : Expire(s)
                \/ Administer
                \/ \E r \in Request : CleanDeviceData(r)
  PROVE  Aside
  <1>1. NoToken.value = 0
    BY DEF NoToken
  <1>2. CASE \E s \in Serial : Expire(s)
    <2>1. PICK s \in Serial : tokens' = [tokens EXCEPT ![s].expired = TRUE]
      BY <1>2 DEF Expire
    <2>2. TokensLeft
      BY <2>1 DEF TokensLeft, Typed, TTokens, TokenRow
    <2>. QED  BY <1>2, <2>2 DEF Aside, Expire, history
  <1>3. ASSUME NEW S, DeleteTokens(S)
        PROVE  Aside
    BY <1>1, <1>3 DEF Aside, TokensLeft, DeleteTokens, history
  <1>4. ASSUME NEW r \in Request, CleanDeviceData(r)
        PROVE  Aside
    <2>1. job[r].pc = "clean" /\ job[r].kind \in DeviceKinds
      BY <1>4, AtStep DEF CleanDeviceData, DeviceSteps
    <2>2. \A q \in Request : job'[q] = job[q] \/ (~Pairing(job'[q]) /\ job[q].pc # "use")
      BY <1>4, <2>1, DeviceFacts DEF CleanDeviceData, Goto, Become, Pairing, Typed, TJobs, Fields
    <2>3. TokensLeft
      BY <1>1, <1>4 DEF TokensLeft, CleanDeviceData, Typed, TTokens
    <2>. QED  BY <1>4, <2>2, <2>3 DEF Aside, CleanDeviceData, history
  <1>. QED  BY <1>2, <1>3, <1>4 DEF Administer

LEMMA GenerateToken1 ==
  ASSUME Typed, TokenInv, NEW r \in Request, GenerateToken(r)
  PROVE  TokenInv'
  <1>. DEFINE s == job[r].at
  <1>0. job[r].pc = "token" /\ job[r].kind \in DeviceKinds /\ s \in Serial /\ DOMAIN job[r] = Fields
        /\ UNCHANGED <<met, paired>>
    BY AtStep, DeviceFacts DEF GenerateToken, DeviceSteps, history
  <1>1. \A q \in Request : job'[q] = job[q] \/ (~Pairing(job'[q]) /\ job[q].pc # "use")
    <2>1. PICK j : Become(r, j) /\ j.pc \in {"idle", "respond"}
      <3>1. [job[r] EXCEPT !.pc = "respond", !.token = fresh].pc = "respond" /\ Idle.pc = "idle"
        BY <1>0 DEF Fields, Idle
      <3>. QED  BY <3>1 DEF GenerateToken, Finish
    <2>. QED  BY <1>0, <2>1 DEF Become, Pairing, Typed, TJobs
  <1>2. CASE tokens[s] # NoToken
    <2>1. Aside
      BY <1>0, <1>1, <1>2 DEF Aside, TokensLeft, GenerateToken
    <2>. QED  BY <2>1, AsideKeeps
  <1>3. CASE tokens[s] = NoToken
    <2>1. tokens' = [tokens EXCEPT ![s] = [NoToken EXCEPT !.value = fresh]]
      BY <1>3 DEF GenerateToken
    <2>2. /\ tokens'[s].value = fresh /\ \A t \in Serial : t # s => tokens'[t] = tokens[t]
          /\ \A t \in Serial : tokens[t].value # fresh
      BY <1>0, <2>1 DEF NoToken, Typed, TTokens, TokenRow, TFresh
    <2>3. OneRow'
      <3>1. ASSUME NEW t \in Serial, NEW u \in Serial, tokens'[t].value # 0, tokens'[t].value = tokens'[u].value
            PROVE  t = u
        BY <3>1, <2>2 DEF TokenInv, OneRow
      <3>2. ASSUME NEW q \in Request, Pairing(job'[q]), NEW t \in Serial, tokens'[t].value = job'[q].token
            PROVE  t = job'[q].at
        <4>1. job'[q] = job[q]
          BY <1>1, <3>2
        <4>2. job[q].token \in 1..(fresh - 1)
          BY <3>2, <4>1, PairingKind
        <4>3. t # s
          BY <2>2, <3>2, <4>1, <4>2 DEF Typed, TFresh
        <4>. QED  BY <2>2, <3>2, <4>1, <4>3 DEF TokenInv, OneRow
      <3>. QED  BY <3>1, <3>2 DEF OneRow, Pairing
    <2>. SUFFICES ASSUME OnePairing' PROVE UsedUp' /\ NotYet' /\ Once'
      BY <2>3 DEF TokenInv
    <2>4. OnePairing
      BY <1>0 DEF OnePairing, Met
    <2>5. ASSUME NEW p \in paired, NEW t \in Serial, tokens'[t].value = p[1], ~tokens'[t].used
          PROVE  \E q \in Request : job'[q].pc = "use" /\ job'[q].token = p[1] /\ job'[q].at = t
      <3>1. p[1] \in 1..(fresh - 1)
        BY DEF Typed, TSent
      <3>2. t # s
        BY <2>2, <2>5, <3>1 DEF Typed, TFresh
      <3>3. PICK q \in Request : job[q].pc = "use" /\ job[q].token = p[1] /\ job[q].at = t
        BY <2>2, <2>4, <2>5, <3>2 DEF TokenInv, UsedUp
      <3>. QED  BY <1>1, <3>3
    <2>6. NotYet'
      BY <1>0, <1>1, <2>4 DEF TokenInv, NotYet, Pairing
    <2>. QED  BY <1>0, <2>4, <2>5, <2>6 DEF TokenInv, UsedUp, Once
  <1>. QED  BY <1>2, <1>3

LEMMA CheckToken1 ==
  ASSUME Typed, TokenInv, NEW r \in Request, CheckToken(r)
  PROVE  TokenInv'
  <1>0. job[r].pc = "check" /\ UNCHANGED <<met, paired, tokens>>
    BY DEF CheckToken, OnlyJob, tables, history
  <1>1. CASE Finish(r)
    <2>1. Aside
      BY <1>0, <1>1, MovesAside DEF Finish, Idle, Pairing
    <2>. QED  BY <2>1, AsideKeeps
  <1>2. CASE ~Finish(r)
    <2>. DEFINE s == job[r].at
    <2>1. tokens[s].value = job[r].token /\ ~tokens[s].used /\ Goto(r, "gateway")
      BY <1>2 DEF CheckToken
    <2>2. job[r].kind = "pair" /\ job[r].token # 0 /\ s \in Serial /\ DOMAIN job[r] = Fields /\ job[r].pc # "idle"
      BY <1>0, PairingKind, DeviceFacts
    <2>3. /\ \A q \in Request : q # r => job'[q] = job[q]
          /\ job'[r].pc = "gateway" /\ job'[r].token = job[r].token /\ job'[r].at = s
      BY <2>1, <2>2 DEF Goto, Become, Typed, TJobs, Fields
    <2>4. OneRow'
      BY <1>0, <2>1, <2>2, <2>3 DEF TokenInv, OneRow
    <2>. SUFFICES ASSUME OnePairing' PROVE UsedUp' /\ NotYet' /\ Once'
      BY <2>4 DEF TokenInv
    <2>5. OnePairing
      BY <1>0 DEF OnePairing, Met
    <2>6. UsedUp'
      BY <1>0, <2>3, <2>5 DEF TokenInv, UsedUp
    <2>7. ASSUME NEW p \in paired, p[1] = job[r].token
          PROVE  FALSE
      <3>1. PICK q \in Request : job[q].pc = "use" /\ job[q].token = p[1] /\ job[q].at = s
        BY <2>1, <2>2, <2>5, <2>7 DEF TokenInv, UsedUp
      <3>2. job[q].kind = "pair" /\ job[q].pc # "idle" /\ q # r
        BY <1>0, <3>1, PairingKind DEF Pairing
      <3>. QED  BY <2>2, <2>5, <3>2, TwoPairings
    <2>8. NotYet'
      BY <1>0, <2>3, <2>5, <2>7 DEF TokenInv, NotYet
    <2>. QED  BY <1>0, <2>5, <2>6, <2>8 DEF TokenInv, Once
  <1>. QED  BY <1>1, <1>2

LEMMA PickGateway1 ==
  ASSUME Typed, TokenInv, NEW r \in Request, PickGateway(r)
  PROVE  TokenInv'
  <1>0. job[r].pc = "gateway" /\ UNCHANGED <<met, paired, tokens>>
    BY DEF PickGateway, OnlyJob, tables, history
  <1>1. DOMAIN job[r] = Fields
    BY <1>0, PairingKind, DeviceFacts DEF Pairing
  <1>2. /\ \A q \in Request : q # r => job'[q] = job[q]
        /\ job'[r].pc = "pair" /\ job'[r].token = job[r].token /\ job'[r].at = job[r].at
    BY <1>1 DEF PickGateway, Become, Typed, TJobs, Fields
  <1>3. OneRow'
    BY <1>0, <1>2 DEF TokenInv, OneRow, Pairing
  <1>4. OnePairing' = OnePairing
    BY <1>0 DEF OnePairing, Met
  <1>5. OnePairing => UsedUp' /\ NotYet' /\ Once'
    BY <1>0, <1>2 DEF TokenInv, UsedUp, NotYet, Once
  <1>. QED  BY <1>3, <1>4, <1>5 DEF TokenInv

LEMMA PairUpdate1 ==
  ASSUME Typed, TokenInv, NEW r \in Request, PairUpdate(r)
  PROVE  TokenInv'
  <1>. DEFINE j == job[r]
  <1>0. /\ j.pc = "pair" /\ j.kind = "pair" /\ j.at \in Serial /\ j.token \in 1..(fresh - 1) /\ DOMAIN j = Fields
        /\ j.pc # "idle" /\ UNCHANGED <<tokens, met>>
    BY PairForms, DeviceFacts, PairingKind DEF Pairing
  <1>1. \A q \in Request : q # r => job'[q] = job[q]
    BY PairForms DEF Goto, Finish, Become, Typed, TJobs
  <1>2. CASE Finish(r) /\ UNCHANGED paired
    <2>1. Aside
      BY <1>0, <1>2, MovesAside DEF Finish, Idle, Pairing
    <2>. QED  BY <2>1, AsideKeeps
  <1>3. CASE ~(Finish(r) /\ UNCHANGED paired)
    <2>1. /\ job'[r].pc = "use" /\ job'[r].token = j.token /\ job'[r].at = j.at
          /\ paired' \in {paired, paired \cup {<<j.token, fresh>>}}
      <3>1. \/ Goto(r, "use") /\ UNCHANGED paired
            \/ paired' = paired \cup {<<j.token, fresh>>} /\ Become(r, [j EXCEPT !.pc = "use", !.held = PairedRow(j)])
        BY <1>3, PairForms
      <3>. QED  BY <1>0, <3>1 DEF Goto, Become, Typed, TJobs, Fields
    <2>2. OneRow'
      BY <1>0, <1>1, <2>1 DEF TokenInv, OneRow, Pairing
    <2>. SUFFICES ASSUME OnePairing' PROVE UsedUp' /\ NotYet' /\ Once'
      BY <2>2 DEF TokenInv
    <2>3. OnePairing
      BY <1>0 DEF OnePairing, Met
    <2>4. ASSUME NEW q \in Request, job[q].pc \in {"gateway", "pair", "use"}
          PROVE  q = r
      <3>1. job[q].kind = "pair" /\ job[q].pc # "idle"
        BY <2>4, PairingKind DEF Pairing
      <3>. QED  BY <1>0, <2>3, <3>1, TwoPairings
    <2>5. \A p \in paired : p[1] # j.token
      BY <1>0, <2>3 DEF TokenInv, NotYet
    <2>6. NotYet'
      BY <1>1, <2>1, <2>4 DEF NotYet
    <2>7. \A p \in paired' : p \in paired \/ p = <<j.token, fresh>>
      BY <2>1
    <2>8. Once'
      BY <2>3, <2>5, <2>7 DEF TokenInv, Once
    <2>9. UsedUp'
      <3>. SUFFICES ASSUME NEW p \in paired', NEW s \in Serial, tokens'[s].value = p[1], ~tokens'[s].used
                    PROVE  \E q \in Request : job'[q].pc = "use" /\ job'[q].token = p[1] /\ job'[q].at = s
        BY DEF UsedUp
      <3>1. CASE p \in paired
        <4>1. PICK q \in Request : job[q].pc = "use" /\ job[q].token = p[1] /\ job[q].at = s
          BY <1>0, <2>3, <3>1 DEF TokenInv, UsedUp
        <4>. QED  BY <1>0, <1>1, <4>1
      <3>2. CASE p = <<j.token, fresh>>
        <4>1. tokens[s].value = j.token
          BY <1>0, <3>2
        <4>2. s = j.at
          BY <1>0, <4>1 DEF TokenInv, OneRow, Pairing
        <4>. QED  BY <2>1, <3>2, <4>2
      <3>. QED  BY <2>7, <3>1, <3>2
    <2>. QED  BY <2>6, <2>8, <2>9
  <1>. QED  BY <1>2, <1>3

LEMMA UseToken1 ==
  ASSUME Typed, TokenInv, NEW r \in Request, UseToken(r)
  PROVE  TokenInv'
  <1>. DEFINE t == job[r].at
  <1>0. job[r].pc = "use" /\ UNCHANGED <<met, paired>>
    BY DEF UseToken, history
  <1>1. DOMAIN job[r] = Fields /\ t \in Serial
    BY <1>0, PairingKind, DeviceFacts DEF Pairing
  <1>2. \A q \in Request : q # r => job'[q] = job[q]
    BY DEF UseToken, Goto, Become, Typed, TJobs
  <1>3. job'[r].pc = "own"
    BY <1>1 DEF UseToken, Goto, Become, Typed, TJobs, Fields
  <1>4. \A s \in Serial : /\ tokens'[s].value = tokens[s].value
                          /\ ~tokens'[s].used => ~tokens[s].used
                          /\ s = t /\ tokens[s].value = job[r].token => tokens'[s].used
    BY <1>1 DEF UseToken, Typed, TTokens, TokenRow
  <1>5. OneRow'
    BY <1>2, <1>3, <1>4 DEF TokenInv, OneRow, Pairing
  <1>. SUFFICES ASSUME OnePairing' PROVE UsedUp' /\ NotYet' /\ Once'
    BY <1>5 DEF TokenInv
  <1>6. OnePairing
    BY <1>0 DEF OnePairing, Met
  <1>7. UsedUp'
    <2>. SUFFICES ASSUME NEW p \in paired, NEW s \in Serial, tokens'[s].value = p[1], ~tokens'[s].used
                  PROVE  \E q \in Request : job'[q].pc = "use" /\ job'[q].token = p[1] /\ job'[q].at = s
      BY <1>0 DEF UsedUp
    <2>1. PICK q \in Request : job[q].pc = "use" /\ job[q].token = p[1] /\ job[q].at = s
      BY <1>4, <1>6 DEF TokenInv, UsedUp
    <2>2. q # r
      BY <1>4, <2>1
    <2>. QED  BY <1>2, <2>1, <2>2
  <1>8. NotYet' /\ Once'
    BY <1>0, <1>2, <1>3, <1>6 DEF TokenInv, NotYet, Once
  <1>. QED  BY <1>7, <1>8

LEMMA FailToken1 ==
  ASSUME Typed, TokenInv, RequestFails \/ Crash
  PROVE  TokenInv'
  <1>1. PICK R : R \subseteq Request /\ Fail(R)
    BY DEF RequestFails, Crash
  <1>2. /\ \A q \in Request : job'[q] = job[q] \/ (job'[q] = Idle /\ q \in R) 
        /\ UNCHANGED <<tokens, paired>> /\ met \subseteq met'
        /\ \A q \in R : {job[q].kind, "failure"} \in met'
    BY <1>1 DEF Fail, tables
  <1>3. ~Pairing(Idle) /\ Idle.pc = "idle"
    BY DEF Pairing, Idle
  <1>4. CASE \E q \in R : job[q].pc = "use"
    <2>1. PICK q \in R : job[q].pc = "use"
      BY <1>4
    <2>2. job[q].kind = "pair"
      BY <1>1, <2>1, PairingKind DEF Pairing
    <2>3. ~OnePairing'
      BY <1>2, <2>1, <2>2 DEF OnePairing, Met
    <2>4. OneRow'
      BY <1>2, <1>3 DEF TokenInv, OneRow, Pairing
    <2>. QED  BY <2>3, <2>4 DEF TokenInv
  <1>5. CASE \A q \in R : job[q].pc # "use"
    <2>1. Aside
      BY <1>2, <1>3, <1>5 DEF Aside, TokensLeft
    <2>. QED  BY <2>1, AsideKeeps
  <1>. QED  BY <1>4, <1>5

LEMMA TokenStep ==
  ASSUME Typed, TokenInv, [Next]_vars
  PROVE  TokenInv'
  <1>1. CASE UNCHANGED vars
    <2>1. Aside
      BY <1>1 DEF vars, tables, history, Aside, TokensLeft
    <2>. QED  BY <2>1, AsideKeeps
  <1>2. ASSUME NEW r \in Request, Arrive(r) \/ Handle(r)
        PROVE  TokenInv'
    BY <1>2, HandleAside, TokensAside, AsideKeeps, GenerateToken1, CheckToken1, PickGateway1, PairUpdate1,
       UseToken1 DEF Handle
  <1>3. ASSUME NEW r \in Request, ArriveGateway(r) \/ HandleGateway(r)
        PROVE  TokenInv'
    BY <1>3, HandleAside, AsideKeeps
  <1>. QED  BY <1>1, <1>2, <1>3, TokensAside, AsideKeeps, FailToken1 DEF Next, DeviceNext, GatewayNext

\* A pairing token pairs once, unless two pairings overlap or one fails between
\* its two updates, for any number of controllers and requests.
THEOREM TokensPairOnce == Spec => []TokenOnce
  <1>1. Init => Typed /\ TokenInv
    <2>1. Init => TokenInv
      BY DEF Init, TokenInv, OneRow, UsedUp, NotYet, Once, Idle, Pairing, NoToken
    <2>. QED  BY <2>1, TypedInit
  <1>2. Typed /\ TokenInv /\ [Next]_vars => (Typed /\ TokenInv)'
    BY TypedStep, TokenStep
  <1>3. TokenInv => TokenOnce
    BY DEF TokenInv, OnePairing, Once, TokenOnce
  <1>. QED  BY <1>1, <1>2, <1>3, PTL DEF Spec

-----------------------------------------------------------------------------
(* What a step does to the rows, and to the requests that save one. *)

\* No step of a request that saves, pairs or removes.
StillRow(s) ==
  /\ devices'[s].id = devices[s].id /\ devices'[s].status = devices[s].status
  /\ devices'[s].cred = devices[s].cred
Still ==
  /\ met \subseteq met' /\ fresh <= fresh' /\ UNCHANGED <<paired, revoked>>
  /\ \A s \in Serial : StillRow(s)
  /\ \A q \in Request : job'[q] = job[q] \/ ~Saving(job'[q])

\* Only the row of request r changes.
OneRowOf(r, row) ==
  /\ WriteDevices([devices EXCEPT ![job[r].at] = row])
  /\ devices'[job[r].at] = row /\ \A s \in Serial : s # job[r].at => devices'[s] = devices[s]

OthersWait(r) == \A q \in Request : q # r => job'[q] = job[q]

LEMMA OthersWaitFor ==
  ASSUME Typed, NEW r \in Request, NEW j, Become(r, j)
  PROVE  OthersWait(r) /\ job'[r] = j
  BY DEF OthersWait, Become, Typed, TJobs

LEMMA WroteOne ==
  ASSUME Typed, NEW r \in Request, job[r].at \in Serial, NEW row,
         WriteDevices([devices EXCEPT ![job[r].at] = row])
  PROVE  OneRowOf(r, row)
  BY DEF OneRowOf, WriteDevices, Typed, TDevices

\* An entity is found, changed and about to be saved.
SaveFind(r) == ProvisionFind(r) \/ UnpairFind(r) \/ RegenerateFind(r) \/ Preload(r)

FoundFor(r, entity) ==
  /\ entity.id = Found(r).id
  /\ job[r].kind = "provision" =>
       Found(r).status # "paired" /\ entity.status = "pending" /\ entity.cred = Found(r).cred
  /\ job[r].kind = "unpair" => entity.status = "pending" /\ entity.cred = 0
  /\ job[r].kind = "regenerate" =>
       /\ Found(r).status = "paired" /\ entity.status = "paired" /\ entity.cred = fresh
       /\ fresh < fresh'
  /\ job[r].kind = "update" =>
       entity.id # 0 /\ entity.status = Found(r).status /\ entity.cred = Found(r).cred

LEMMA SaveForms ==
  ASSUME Typed, NEW r \in Request, SaveFind(r)
  PROVE  /\ UNCHANGED <<devices, controllers, paired, revoked>> /\ met \subseteq met' /\ Grows
         /\ job[r].pc = "find" /\ job[r].kind \in SaveKinds /\ job[r].kind \in DeviceKinds /\ OthersWait(r)
         /\ \/ job'[r] = Idle
            \/ \E entity : /\ FoundFor(r, entity) /\ job'[r].pc = IF entity.id = 0 THEN "write" ELSE "load"
                           /\ job'[r].kind = job[r].kind /\ job'[r].at = job[r].at
                           /\ job'[r].held = entity /\ job'[r].loaded = NoRow
  <1>1. /\ UNCHANGED <<devices, controllers, paired, revoked>> /\ met \subseteq met' /\ Grows
        /\ job[r].pc = "find" /\ job[r].kind \in SaveKinds
    BY DEF SaveFind, ProvisionFind, UnpairFind, RegenerateFind, Preload, Finds, OnlyJob, tables, history, Grows,
           Typed, TFresh, SaveKinds
  <1>2. job[r].kind \in DeviceKinds
    BY <1>1 DEF SaveKinds, DeviceKinds
  <1>3. DOMAIN job[r] = Fields /\ job[r].loaded = NoRow /\ Found(r) \in Row(fresh)
        /\ (Found(r).id = 0 => Found(r) = NoRow)
    BY <1>1, <1>2, DeviceFacts DEF DeviceJob
  <1>4. CASE Finish(r)
    BY <1>1, <1>2, <1>4, OthersWaitFor DEF Finish
  <1>5. ASSUME NEW entity, Save(r, entity), FoundFor(r, entity)
        PROVE  /\ OthersWait(r) /\ job'[r].pc = IF entity.id = 0 THEN "write" ELSE "load"
               /\ job'[r].kind = job[r].kind /\ job'[r].at = job[r].at
               /\ job'[r].held = entity /\ job'[r].loaded = NoRow
    <2>. DEFINE j == [job[r] EXCEPT !.pc = IF entity.id = 0 THEN "write" ELSE "load", !.held = entity]
    <2>1. OthersWait(r) /\ job'[r] = j
      BY <1>5, OthersWaitFor DEF Save
    <2>. QED  BY <1>3, <2>1 DEF Fields
  <1>6. CASE ProvisionFind(r) /\ ~Finish(r)
    <2>. DEFINE entity == [Found(r) EXCEPT !.status = "pending"]
    <2>1. Save(r, entity) /\ Found(r).status # "paired" /\ job[r].kind = "provision"
      BY <1>6 DEF ProvisionFind, Finds
    <2>2. entity.id = Found(r).id /\ entity.status = "pending" /\ entity.cred = Found(r).cred
      BY <1>3 DEF Row
    <2>3. FoundFor(r, entity)
      BY <2>1, <2>2 DEF FoundFor
    <2>. QED  BY <1>1, <1>2, <1>5, <2>1, <2>3
  <1>7. CASE UnpairFind(r) /\ ~Finish(r)
    <2>1. Save(r, Unpaired(Found(r))) /\ job[r].kind = "unpair"
      BY <1>7 DEF UnpairFind, Finds
    <2>2. FoundFor(r, Unpaired(Found(r)))
      BY <1>3, <2>1, UnpairedRow DEF FoundFor, Typed, TFresh
    <2>. QED  BY <1>1, <1>2, <1>5, <2>1, <2>2
  <1>8. CASE RegenerateFind(r) /\ ~Finish(r)
    <2>. DEFINE entity == [Found(r) EXCEPT !.cred = fresh]
    <2>1. Save(r, entity) /\ Found(r).status = "paired" /\ job[r].kind = "regenerate" /\ fresh < fresh'
      BY <1>8 DEF RegenerateFind, Finds, Typed, TFresh
    <2>2. entity.id = Found(r).id /\ entity.status = "paired" /\ entity.cred = fresh
      BY <1>3, <2>1 DEF Row
    <2>3. FoundFor(r, entity)
      BY <2>1, <2>2 DEF FoundFor
    <2>. QED  BY <1>1, <1>2, <1>5, <2>1, <2>3
  <1>9. CASE Preload(r) /\ ~Finish(r)
    <2>1. PICK f \in {Found(r).farm, job[r].farm} : Save(r, [Found(r) EXCEPT !.farm = f])
      BY <1>9 DEF Preload
    <2>. DEFINE entity == [Found(r) EXCEPT !.farm = f]
    <2>2. Save(r, entity) /\ Found(r) # NoRow /\ job[r].kind = "update"
      BY <1>9, <2>1 DEF Preload, Finds
    <2>3. entity.id = Found(r).id /\ entity.status = Found(r).status /\ entity.cred = Found(r).cred
      BY <1>3 DEF Row
    <2>4. FoundFor(r, entity)
      BY <1>3, <2>2, <2>3 DEF FoundFor
    <2>. QED  BY <1>1, <1>2, <1>5, <2>2, <2>4
  <1>. QED  BY <1>4, <1>6, <1>7, <1>8, <1>9 DEF SaveFind

LEMMA LoadForms ==
  ASSUME Typed, NEW r \in Request, LoadRow(r)
  PROVE  /\ UNCHANGED <<devices, controllers, paired, revoked, met, fresh>>
         /\ job[r].pc = "load" /\ job[r].kind \in DeviceKinds /\ OthersWait(r)
         /\ job'[r].pc = "write" /\ job'[r].kind = job[r].kind /\ job'[r].at = job[r].at
         /\ job'[r].held = job[r].held
         /\ job'[r].loaded = IF Found(r).id = job[r].held.id THEN Found(r) ELSE NoRow
  <1>. DEFINE j == [job[r] EXCEPT !.pc = "write",
                      !.loaded = IF Found(r).id = job[r].held.id THEN Found(r) ELSE NoRow]
  <1>1. job[r].pc = "load" /\ job[r].kind \in DeviceKinds /\ Become(r, j)
    BY DEF LoadRow
  <1>2. OthersWait(r) /\ job'[r] = j
    BY <1>1, OthersWaitFor
  <1>. QED  BY <1>1, <1>2, DeviceFacts DEF LoadRow, OnlyJob, tables, history, Fields

\* After a write the request saves no more.
LEMMA AfterForms ==
  ASSUME Typed, NEW r \in Request, job[r].kind \in DeviceKinds, AfterWrite(r) \/ Finish(r)
  PROVE  OthersWait(r) /\ ~Saving(job'[r]) /\ job'[r].kind # "pair"
  <1>1. CASE Finish(r)
    BY <1>1, OthersWaitFor DEF Finish, Saving, Idle
  <1>2. CASE AfterWrite(r) /\ ~Finish(r)
    <2>. DEFINE j == [job[r] EXCEPT !.pc = "token"]
    <2>1. Become(r, j) /\ job[r].kind = "provision"
      BY <1>2 DEF AfterWrite, Goto
    <2>2. j.pc = "token" /\ j.kind = "provision"
      BY <2>1, DeviceFacts DEF Fields
    <2>. HIDE DEF j
    <2>. QED  BY <2>1, <2>2, OthersWaitFor DEF Saving
  <1>. QED  BY <1>1, <1>2

LEMMA InsertForms ==
  ASSUME Typed, NEW r \in Request, InsertRow(r)
  PROVE  /\ UNCHANGED <<controllers, paired, met>> /\ Grows
         /\ job[r].kind \in SaveKinds /\ Saving(job[r]) /\ job[r].pc = "write" /\ job[r].loaded = NoRow
         /\ OthersWait(r) /\ ~Saving(job'[r]) /\ job'[r].kind # "pair"
         /\ \/ UNCHANGED <<devices, revoked>>
            \/ \E row : /\ OneRowOf(r, row) /\ row.status = job[r].held.status /\ row.cred = job[r].held.cred
                        /\ row.id = (IF job[r].held.id = 0 THEN fresh ELSE job[r].held.id) /\ Found(r) = NoRow
  <1>. DEFINE held == job[r].held
  <1>0. /\ job[r].kind \in DeviceKinds /\ job[r].pc = "write" /\ job[r].loaded = NoRow
        /\ UNCHANGED <<controllers, paired, met>> /\ Grows
    BY DEF InsertRow, Grows, Typed, TFresh
  <1>1. job[r].kind \in SaveKinds /\ Saving(job[r]) /\ held \in Row(fresh) /\ job[r].at \in Serial
    BY <1>0, DeviceFacts DEF DeviceJob, Saving
  <1>2. CASE Found(r) # NoRow \/ Dangling(held)
    <2>1. Finish(r) /\ UNCHANGED <<devices, revoked>>
      BY <1>2 DEF InsertRow
    <2>. QED  BY <1>0, <1>1, <2>1, AfterForms
  <1>3. CASE ~(Found(r) # NoRow \/ Dangling(held))
    <2>. DEFINE row == IF held.id = 0 THEN [held EXCEPT !.id = fresh] ELSE held
    <2>1. WriteDevices([devices EXCEPT ![job[r].at] = row]) /\ AfterWrite(r)
      BY <1>3 DEF InsertRow
    <2>2. /\ row.status = held.status /\ row.cred = held.cred
          /\ row.id = IF held.id = 0 THEN fresh ELSE held.id
      BY <1>1 DEF Row
    <2>. HIDE DEF row
    <2>3. OneRowOf(r, row)
      BY <1>1, <2>1, WroteOne
    <2>. QED  BY <1>0, <1>1, <1>3, <2>1, <2>2, <2>3, AfterForms
  <1>. QED  BY <1>2, <1>3

LEMMA UpdateForms ==
  ASSUME Typed, NEW r \in Request, UpdateRow(r)
  PROVE  /\ UNCHANGED <<controllers, paired, met, fresh>>
         /\ job[r].kind \in SaveKinds /\ Saving(job[r]) /\ job[r].pc = "write" /\ job[r].loaded # NoRow
         /\ job[r].loaded.id = job[r].held.id /\ job[r].held.id # 0
         /\ OthersWait(r) /\ ~Saving(job'[r]) /\ job'[r].kind # "pair"
         /\ \/ UNCHANGED <<devices, revoked>>
            \/ \E row : LET held == job[r].held
                            loaded == job[r].loaded
                        IN
                        /\ OneRowOf(r, row) /\ row.id = held.id /\ Found(r).id = held.id
                        /\ row.status = IF held.status # loaded.status THEN held.status ELSE Found(r).status
                        /\ row.cred = IF held.cred # loaded.cred THEN held.cred ELSE Found(r).cred
  <1>. DEFINE j == job[r]
              new == Merge(Found(r), j.held, j.loaded)
  <1>0. /\ j.kind \in DeviceKinds /\ j.pc = "write" /\ j.loaded # NoRow
        /\ UNCHANGED <<controllers, paired, met, fresh>>
    BY DEF UpdateRow
  <1>1. /\ j.kind \in SaveKinds /\ Saving(j) /\ j.held \in Row(fresh) /\ j.loaded \in Row(fresh) /\ j.at \in Serial
        /\ j.loaded.id = j.held.id /\ j.held.id # 0 /\ Found(r) \in Row(fresh)
    BY <1>0, DeviceFacts DEF DeviceJob, Saving
  <1>2. CASE UNCHANGED <<devices, revoked>> /\ (AfterWrite(r) \/ Finish(r))
    BY <1>0, <1>1, <1>2, AfterForms
  <1>3. CASE ~(UNCHANGED <<devices, revoked>> /\ (AfterWrite(r) \/ Finish(r)))
    <2>1. WriteDevices([devices EXCEPT ![j.at] = new]) /\ AfterWrite(r) /\ Found(r).id = j.held.id
      BY <1>3 DEF UpdateRow
    <2>2. /\ new.id = (IF j.held.id # j.loaded.id THEN j.held.id ELSE Found(r).id)
          /\ new.status = (IF j.held.status # j.loaded.status THEN j.held.status ELSE Found(r).status)
          /\ new.cred = (IF j.held.cred # j.loaded.cred THEN j.held.cred ELSE Found(r).cred)
      BY <1>1, MergeRow
    <2>. HIDE DEF new
    <2>3. OneRowOf(r, new)
      BY <1>1, <2>1, WroteOne
    <2>. QED  BY <1>0, <1>1, <2>1, <2>2, <2>3, AfterForms
  <1>. QED  BY <1>2, <1>3

LEMMA RemoveForms ==
  ASSUME Typed, NEW r \in Request, RemoveOrReset(r)
  PROVE  /\ UNCHANGED <<controllers, paired, met, fresh>>
         /\ job[r].kind \in {"remove", "reset"} /\ job[r].at \in Serial /\ job[r].pc = "end"
         /\ OthersWait(r) /\ job'[r] = Idle
         /\ \/ UNCHANGED <<devices, revoked>>
            \/ \E row : /\ OneRowOf(r, row) /\ row.cred = 0 /\ row.status # "paired"
                        /\ row.id # 0 => job[r].kind = "reset" /\ row.status = "pending"
  <1>. DEFINE j == job[r]
  <1>0. /\ j.pc = "end" /\ Finish(r) /\ UNCHANGED <<controllers, paired, met, fresh>>
    BY DEF RemoveOrReset
  <1>1. j.kind \in DeviceKinds /\ j.kind \in {"remove", "reset"} /\ j.at \in Serial /\ Found(r) \in Row(fresh)
    BY <1>0, AtStep, DeviceFacts DEF DeviceSteps, DeviceJob
  <1>2. OthersWait(r) /\ job'[r] = Idle
    BY <1>0, OthersWaitFor DEF Finish
  <1>3. CASE UNCHANGED <<devices, revoked>>
    BY <1>0, <1>1, <1>2, <1>3
  <1>4. CASE ~UNCHANGED <<devices, revoked>>
    <2>. DEFINE row == IF j.kind = "remove" THEN NoRow ELSE Unpaired(Found(r))
    <2>1. WriteDevices([devices EXCEPT ![j.at] = row])
      BY <1>4 DEF RemoveOrReset, Found
    <2>2. row.cred = 0 /\ row.status # "paired" /\ (row.id # 0 => j.kind = "reset" /\ row.status = "pending")
      BY <1>1, UnpairedRow DEF NoRow, Typed, TFresh
    <2>. HIDE DEF row
    <2>3. OneRowOf(r, row)
      BY <1>1, <2>1, WroteOne
    <2>. QED  BY <1>0, <1>1, <1>2, <2>2, <2>3
  <1>. QED  BY <1>3, <1>4

\* A pairing writes its row, or nothing.
LEMMA PairRows ==
  ASSUME Typed, NEW r \in Request, PairUpdate(r)
  PROVE  /\ UNCHANGED <<controllers, met>> /\ Grows /\ fresh < fresh'
         /\ job[r].kind = "pair" /\ job[r].pc = "pair" /\ job[r].at \in Serial /\ OthersWait(r) /\ ~Saving(job'[r])
         /\ \/ UNCHANGED <<devices, revoked>>
            \/ \E row : /\ OneRowOf(r, row) /\ row.id # 0 /\ row.status = "paired" /\ row.cred = fresh
  <1>. DEFINE j == job[r]
  <1>1. /\ j.kind = "pair" /\ j.pc = "pair" /\ j.at \in Serial /\ UNCHANGED <<controllers, met>> /\ Grows
        /\ fresh' = fresh + 1 /\ DOMAIN j = Fields
    BY PairForms, DeviceFacts DEF DeviceKinds
  <1>2. fresh < fresh'
    BY <1>1 DEF Typed, TFresh
  <1>3. ASSUME NEW i, Become(r, i), i = Idle \/ i.pc = "use"
        PROVE  OthersWait(r) /\ ~Saving(job'[r])
    BY <1>3, OthersWaitFor DEF Saving, Idle
  <1>4. OthersWait(r) /\ ~Saving(job'[r])
    <2>1. [j EXCEPT !.pc = "use"].pc = "use" /\ [j EXCEPT !.pc = "use", !.held = PairedRow(j)].pc = "use"
      BY <1>1 DEF Fields
    <2>2. Finish(r) \/ Goto(r, "use") \/ Become(r, [j EXCEPT !.pc = "use", !.held = PairedRow(j)])
      BY PairForms
    <2>. QED  BY <1>3, <2>1, <2>2 DEF Finish, Goto
  <1>5. \/ UNCHANGED <<devices, revoked>>
        \/ /\ WriteDevices([devices EXCEPT ![j.at] = PairedRow(j)])
           /\ PairedRow(j).id # 0 /\ PairedRow(j).status = "paired" /\ PairedRow(j).cred = fresh
    BY PairForms
  <1>. QED  BY <1>1, <1>2, <1>4, <1>5, WroteOne

\* The other steps save nothing.
LEMMA JobStill ==
  ASSUME Typed, NEW r \in Request, NEW j, Become(r, j), ~Saving(j), met \subseteq met', fresh <= fresh',
         UNCHANGED <<paired, revoked>>, \A s \in Serial : StillRow(s)
  PROVE  Still
  BY OthersWaitFor DEF Still, OthersWait

LEMMA RowsStill ==
  ASSUME UNCHANGED devices
  PROVE  \A s \in Serial : StillRow(s)
  BY DEF StillRow

LEMMA DeviceStill ==
  ASSUME Typed, NEW r \in Request,
         \/ Arrive(r) \/ ArriveGateway(r) \/ GenerateToken(r) \/ Respond(r) \/ PairFind(r) \/ CheckToken(r)
         \/ PickGateway(r) \/ UseToken(r) \/ SetOwner(r) \/ RemoveFind(r) \/ CleanDeviceData(r)
  PROVE  Still
  <1>0. UNCHANGED <<devices, paired, revoked>> /\ met \subseteq met' /\ fresh <= fresh'
    <2>1. fresh \in Nat
      BY DEF Typed, TFresh
    <2>2. CASE Arrive(r) \/ ArriveGateway(r)
      <3>1. UNCHANGED <<tables, fresh, paired, revoked>>
        BY <2>2 DEF Arrive, ArriveGateway
      <3>2. PICK j : Start(r, j)
        BY <2>2 DEF Arrive, ArriveGateway
      <3>3. met \subseteq met'
        BY <3>2 DEF Start
      <3>. QED  BY <2>1, <3>1, <3>3 DEF tables
    <2>3. CASE GenerateToken(r)
      BY <2>1, <2>3 DEF GenerateToken, history
    <2>4. CASE SetOwner(r)
      BY <2>1, <2>4 DEF SetOwner, tables
    <2>5. CASE Respond(r) \/ UseToken(r) \/ CleanDeviceData(r)
      BY <2>1, <2>5 DEF Respond, UseToken, CleanDeviceData, tables, history
    <2>6. CASE PairFind(r) \/ CheckToken(r) \/ PickGateway(r) \/ RemoveFind(r)
      <3>1. OnlyJob
        BY <2>6 DEF PairFind, CheckToken, PickGateway, RemoveFind
      <3>. QED  BY <2>1, <3>1 DEF OnlyJob, tables, history
    <2>. QED  BY <2>2, <2>3, <2>4, <2>5, <2>6
  <1>1. job[r].pc # "idle" => DOMAIN job[r] = Fields
    BY DEF Typed, TJobs, JobType
  <1>2. ASSUME NEW j, Become(r, j), j.pc \notin {"load", "write"}
        PROVE  Still
    BY <1>0, <1>2, JobStill, RowsStill DEF Saving
  <1>3. ASSUME NEW step, Goto(r, step), job[r].pc # "idle", step \notin {"load", "write"}
        PROVE  Still
    <2>. DEFINE j == [job[r] EXCEPT !.pc = step]
    <2>1. j.pc = step /\ Become(r, j)
      BY <1>1, <1>3, StepFields DEF Goto
    <2>. HIDE DEF j
    <2>. QED  BY <1>2, <1>3, <2>1
  <1>4. ASSUME Finish(r)
        PROVE  Still
    BY <1>2, <1>4 DEF Finish, Idle
  <1>5. CASE Arrive(r)
    BY <1>2, <1>5 DEF Arrive, Start, Idle
  <1>6. CASE ArriveGateway(r)
    BY <1>2, <1>6 DEF ArriveGateway, Start, Idle
  <1>7. CASE GenerateToken(r)
    BY <1>1, <1>2, <1>4, <1>7 DEF GenerateToken, Fields
  <1>8. CASE Respond(r) \/ SetOwner(r)
    BY <1>4, <1>8 DEF Respond, SetOwner
  <1>9. CASE PairFind(r) \/ RemoveFind(r)
    BY <1>1, <1>2, <1>4, <1>9 DEF PairFind, RemoveFind, Finds, Fields
  <1>10. CASE CheckToken(r)
    BY <1>3, <1>4, <1>10 DEF CheckToken
  <1>11. CASE PickGateway(r)
    BY <1>1, <1>2, <1>11 DEF PickGateway, Fields
  <1>12. CASE UseToken(r) \/ CleanDeviceData(r)
    BY <1>3, <1>12 DEF UseToken, CleanDeviceData
  <1>. QED  BY <1>5, <1>6, <1>7, <1>8, <1>9, <1>10, <1>11, <1>12

\* Steps of a request about a gateway change no credential and no status.
LEMMA GatewayRows ==
  ASSUME Typed, NEW r \in Request, HandleGateway(r)
  PROVE  (\A s \in Serial : StillRow(s)) /\ UNCHANGED <<paired, revoked>> /\ met \subseteq met' /\ fresh <= fresh'
  <1>0. UNCHANGED paired
    BY DEF HandleGateway, GatewayProvisionFind, GatewayPairFind, LoadGateway, InsertGateway, UpdateGateway, AssignDevices,
           GatewayRespond, DeleteFind, ReleaseDevices, RemoveGateway, OnlyJob, history
  <1>1. met \subseteq met' /\ fresh <= fresh'
    <2>1. CASE GatewayPairFind(r)
      BY <2>1, GatewayPairForms DEF Grows
    <2>2. CASE ~GatewayPairFind(r)
      BY <2>2 DEF HandleGateway, GatewayProvisionFind, LoadGateway, InsertGateway, UpdateGateway, AssignDevices,
             GatewayRespond, DeleteFind, ReleaseDevices, RemoveGateway, OnlyJob, history, Typed, TFresh
    <2>. QED  BY <2>1, <2>2
  <1>2. ASSUME NEW table, SameButGateway(table), WriteDevices(table)
        PROVE  (\A s \in Serial : StillRow(s)) /\ UNCHANGED revoked
    <2>1. Creds(table) = Creds(devices)
      BY <1>2 DEF Creds, SameButGateway
    <2>. QED  BY <1>2, <2>1 DEF StillRow, SameButGateway, WriteDevices
  <1>3. CASE UNCHANGED <<devices, revoked>>
    BY <1>0, <1>1, <1>3, RowsStill
  <1>4. CASE AssignDevices(r) /\ ~UNCHANGED <<devices, revoked>>
    <2>1. job[r].farm # None /\ job[r].gateway \in Nat
      BY <1>4, AtGatewayStep, GatewayFacts, ConstantsAssumption
         DEF AssignDevices, GatewaySteps, GatewayJob, JobType
    <2>2. WriteDevices(Assigned(job[r].farm, job[r].gateway))
      BY <1>4 DEF AssignDevices
    <2>. QED  BY <1>0, <1>1, <1>2, <2>1, <2>2, AssignedRows
  <1>5. CASE (ReleaseDevices(r) \/ RemoveGateway(r)) /\ ~UNCHANGED <<devices, revoked>>
    <2>1. job[r].gateway \in Nat
      BY <1>5, AtGatewayStep, GatewayFacts DEF ReleaseDevices, RemoveGateway, GatewaySteps, JobType
    <2>2. WriteDevices(Released(job[r].gateway))
      BY <1>5 DEF ReleaseDevices, RemoveGateway
    <2>. QED  BY <1>0, <1>1, <1>2, <2>1, <2>2, ReleasedRows
  <1>. QED
    BY <1>3, <1>4, <1>5 DEF HandleGateway, GatewayProvisionFind, GatewayPairFind, LoadGateway, InsertGateway,
       UpdateGateway, GatewayRespond, DeleteFind, OnlyJob, tables, history

\* A request about a gateway stays one, or ends.
LEMMA GatewayJobs ==
  ASSUME Typed, NEW r \in Request, HandleGateway(r)
  PROVE  OthersWait(r) /\ (job'[r] = Idle \/ job'[r].kind \in GatewayKinds)
  <1>0. job[r].kind \in GatewayKinds /\ DOMAIN job[r] = Fields
    <2>1. job[r].kind \in GatewayKinds
      BY AtGatewayStep DEF HandleGateway, GatewayProvisionFind, GatewayPairFind, LoadGateway, InsertGateway, UpdateGateway,
         AssignDevices, GatewayRespond, DeleteFind, ReleaseDevices, RemoveGateway, Finds, GatewayKinds, GatewaySteps
    <2>. QED  BY <2>1, GatewayFacts
  <1>1. ASSUME NEW j, Become(r, j), j = Idle \/ j.kind = job[r].kind
        PROVE  OthersWait(r) /\ (job'[r] = Idle \/ job'[r].kind \in GatewayKinds)
    BY <1>0, <1>1, OthersWaitFor
  <1>2. ASSUME NEW step, Goto(r, step)
        PROVE  OthersWait(r) /\ (job'[r] = Idle \/ job'[r].kind \in GatewayKinds)
    <2>. DEFINE j == [job[r] EXCEPT !.pc = step]
    <2>1. j.kind = job[r].kind /\ Become(r, j)
      BY <1>0, <1>2, StepFields DEF Goto
    <2>. HIDE DEF j
    <2>. QED  BY <1>1, <2>1
  <1>3. CASE Finish(r)
    BY <1>1, <1>3 DEF Finish
  <1>4. ASSUME NEW id, AfterGatewayWrite(r, id)
        PROVE  OthersWait(r) /\ (job'[r] = Idle \/ job'[r].kind \in GatewayKinds)
    BY <1>0, <1>1, <1>4 DEF AfterGatewayWrite, Fields
  <1>5. CASE GatewayProvisionFind(r)
    BY <1>0, <1>1, <1>5 DEF GatewayProvisionFind, Fields
  <1>6. CASE GatewayPairFind(r) /\ ~Finish(r)
    <2>1. PICK g \in Gateway :
            Become(r, [job[r] EXCEPT !.pc = "load", !.at = g, !.loaded = NoGateway,
                         !.held = [gateways[g] EXCEPT !.farm = job[r].farm, !.cred = fresh, !.used = TRUE]])
      BY <1>6, GatewayPairForms
    <2>. QED  BY <1>0, <1>1, <2>1 DEF Fields
  <1>7. CASE LoadGateway(r)
    BY <1>0, <1>1, <1>7 DEF LoadGateway, Fields
  <1>8. CASE DeleteFind(r)
    BY <1>0, <1>1, <1>3, <1>8 DEF DeleteFind, Fields
  <1>. QED
    BY <1>2, <1>3, <1>4, <1>5, <1>6, <1>7, <1>8 DEF HandleGateway, InsertGateway, UpdateGateway, AssignDevices,
       GatewayRespond, ReleaseDevices, RemoveGateway

LEMMA GatewayStill ==
  ASSUME Typed, NEW r \in Request, HandleGateway(r)
  PROVE  Still
  <1>1. ~Saving(job'[r])
    BY GatewayJobs DEF Saving, Idle, DeviceKinds, GatewayKinds
  <1>. QED  BY <1>1, GatewayRows, GatewayJobs DEF Still, OthersWait

LEMMA OtherStill ==
  ASSUME Typed, \/ UNCHANGED vars
                \/ \E s \in Serial : Expire(s)
                \/ Administer
                \/ RequestFails \/ Crash
  PROVE  Still
  <1>1. CASE UNCHANGED vars
    BY <1>1, RowsStill DEF vars, tables, history, Still, Typed, TFresh
  <1>2. CASE (\E s \in Serial : Expire(s)) \/ Administer
    BY <1>2, RowsStill DEF Expire, Administer, DeleteTokens, history, Still, Typed, TFresh
  <1>3. ASSUME NEW R, Fail(R)
        PROVE  Still
    <2>1. \A q \in Request : job'[q] = job[q] \/ ~Saving(job'[q])
      BY <1>3 DEF Fail, Saving, Idle
    <2>. QED  BY <1>3, <2>1, RowsStill DEF Fail, tables, Still, Typed, TFresh
  <1>. QED  BY <1>1, <1>2, <1>3 DEF RequestFails, Crash

\* Every step is one of these.
LEMMA StepForms ==
  ASSUME Typed, [Next]_vars
  PROVE  \/ Still
         \/ \E r \in Request : \/ SaveFind(r) \/ LoadRow(r) \/ InsertRow(r) \/ UpdateRow(r) \/ PairUpdate(r)
                               \/ RemoveOrReset(r)
  <1>1. ASSUME NEW r \in Request, Handle(r)
        PROVE  \/ Still
               \/ SaveFind(r) \/ LoadRow(r) \/ InsertRow(r) \/ UpdateRow(r) \/ PairUpdate(r) \/ RemoveOrReset(r)
    BY <1>1, DeviceStill DEF Handle, SaveFind
  <1>. QED  BY <1>1, DeviceStill, GatewayStill, OtherStill DEF Next, DeviceNext, GatewayNext

-----------------------------------------------------------------------------
(* A device has a credential exactly when it is paired. *)

\* The premise of PairedHasCredential.
Mild == ~Met({"regenerate"}, {"unpair", "reset", "update", "provision"}) /\ ~Met({"update"}, {"pair"})

Consistent(row) == /\ row.status = "paired" <=> row.cred # 0
                   /\ row.id # 0 => row.status # "none"

\* What a request that is about to save holds, beside the row there is now:
\* a regeneration saves over a paired row, and a rename holds the credential of
\* the row unless that was withdrawn.
Holds(j, row) ==
  /\ Consistent(j.held) /\ j.held.status # "none"
  /\ j.kind \in {"provision", "unpair"} => j.held.cred = 0
  /\ j.kind = "regenerate" => j.held.id # 0 /\ j.held.cred # 0
  /\ j.kind = "regenerate" /\ row.id = j.held.id => row.status = "paired"
  /\ j.kind = "update" /\ j.held.cred # 0 => row.cred \in {0, j.held.cred}
  /\ j.pc = "write" =>
       /\ Consistent(j.loaded)
       /\ j.kind = "regenerate" => j.loaded = NoRow \/ j.loaded.status = "paired"
       /\ j.kind = "update" /\ j.held.cred # 0 => j.loaded.cred \in {0, j.held.cred}

RowsConsistent == \A s \in Serial : Consistent(devices[s])
JobsHold == \A r \in Request : Saving(job[r]) => Holds(job[r], Found(r))

\* Renames of one device that hold a credential hold the same one.
Renames(r, s) == Saving(job[r]) /\ job[r].kind = "update" /\ job[r].at = s /\ job[r].held.cred # 0
RenamesAgree ==
  \A p, q \in Request, s \in Serial : Renames(p, s) /\ Renames(q, s) => job[p].held.cred = job[q].held.cred

CredFacts == RowsConsistent /\ JobsHold /\ RenamesAgree
CredInv == Mild => CredFacts

LEMMA MildBefore ==
  ASSUME met \subseteq met', Mild'
  PROVE  Mild
  BY DEF Mild, Met

\* What Mild excludes.
LEMMA Apart ==
  ASSUME Typed, Mild, NEW p \in Request, NEW q \in Request, p # q, job[p].pc # "idle", job[q].pc # "idle"
  PROVE  /\ job[p].kind = "regenerate" => job[q].kind \notin {"unpair", "reset", "update", "provision"}
         /\ job[p].kind = "update" => job[q].kind \notin {"pair", "regenerate"}
  <1>1. {job[p].kind, job[q].kind} \in met /\ {job[q].kind, job[p].kind} \in met
    BY DEF Typed, TMet
  <1>. QED  BY <1>1 DEF Mild, Met

LEMMA SavingAt ==
  ASSUME Typed, NEW r \in Request, Saving(job[r])
  PROVE  job[r].at \in Serial /\ job[r].pc # "idle" /\ job[r].kind \in SaveKinds
  BY DeviceFacts DEF Saving, DeviceJob

\* Nothing that Holds looks at changes.
LEMMA StillCred ==
  ASSUME Typed, CredFacts, \A s \in Serial : StillRow(s),
         \A q \in Request : job'[q] = job[q] \/ ~Saving(job'[q])
  PROVE  CredFacts'
  <1>1. RowsConsistent'
    BY DEF CredFacts, RowsConsistent, Consistent, StillRow
  <1>2. JobsHold'
    <2>. SUFFICES ASSUME NEW q \in Request, Saving(job'[q])
                  PROVE  Holds(job'[q], devices'[job'[q].at])
      BY DEF JobsHold, Found
    <2>1. job'[q] = job[q] /\ job[q].at \in Serial
      BY SavingAt
    <2>2. Holds(job[q], Found(q)) /\ StillRow(job[q].at)
      BY <2>1 DEF CredFacts, JobsHold
    <2>. QED  BY <2>1, <2>2 DEF Holds, StillRow, Found
  <1>3. RenamesAgree'
    BY DEF CredFacts, RenamesAgree, Renames
  <1>. QED  BY <1>1, <1>2, <1>3 DEF CredFacts

\* One row is written.
LEMMA RowCred ==
  ASSUME Typed, CredFacts, NEW r \in Request, job[r].at \in Serial, OthersWait(r), ~Saving(job'[r]),
         NEW row, OneRowOf(r, row), Consistent(row),
         \A q \in Request :
           q # r /\ Saving(job[q]) /\ job[q].at = job[r].at =>
             /\ job[q].kind = "regenerate" /\ row.id = job[q].held.id => row.status = "paired"
             /\ job[q].kind = "update" /\ job[q].held.cred # 0 => row.cred \in {0, job[q].held.cred}
  PROVE  CredFacts'
  <1>1. RowsConsistent'
    BY DEF CredFacts, RowsConsistent, OneRowOf
  <1>2. JobsHold'
    <2>. SUFFICES ASSUME NEW q \in Request, Saving(job'[q])
                  PROVE  Holds(job'[q], devices'[job'[q].at])
      BY DEF JobsHold, Found
    <2>1. q # r /\ job'[q] = job[q] /\ Saving(job[q])
      BY DEF OthersWait
    <2>2. job[q].at \in Serial /\ Holds(job[q], Found(q))
      BY <2>1, SavingAt DEF CredFacts, JobsHold
    <2>3. CASE job[q].at = job[r].at
      <3>1. devices'[job[q].at] = row
        BY <2>3 DEF OneRowOf
      <3>. QED  BY <2>1, <2>2, <2>3, <3>1 DEF Holds
    <2>4. CASE job[q].at # job[r].at
      BY <2>1, <2>2, <2>4 DEF OneRowOf, Found
    <2>. QED  BY <2>3, <2>4
  <1>3. RenamesAgree'
    BY DEF CredFacts, RenamesAgree, Renames, OthersWait
  <1>. QED  BY <1>1, <1>2, <1>3 DEF CredFacts

\* Request r is about to save another entity, or loads the row it compares with.
LEMMA JobCred ==
  ASSUME Typed, CredFacts, UNCHANGED devices, NEW r \in Request, OthersWait(r), job'[r].at \in Serial,
         Saving(job'[r]) => Holds(job'[r], devices[job'[r].at]),
         \A q \in Request, s \in Serial :
           q # r /\ Renames(q, s) /\ Renames(r, s)' => job[q].held.cred = job'[r].held.cred
  PROVE  CredFacts'
  <1>1. RowsConsistent'
    BY DEF CredFacts, RowsConsistent
  <1>2. JobsHold'
    BY DEF CredFacts, JobsHold, OthersWait, Found
  <1>3. RenamesAgree'
    <2>1. \A q \in Request, s \in Serial : q # r => (Renames(q, s)' <=> Renames(q, s)) /\ job'[q] = job[q]
      BY DEF OthersWait, Renames
    <2>. QED  BY <2>1 DEF CredFacts, RenamesAgree
  <1>. QED  BY <1>1, <1>2, <1>3 DEF CredFacts

LEMMA SaveFindCred ==
  ASSUME Typed, Mild, CredFacts, NEW r \in Request, SaveFind(r)
  PROVE  CredFacts'
  <1>0. UNCHANGED devices /\ OthersWait(r) /\ job[r].kind \in DeviceKinds
    BY SaveForms
  <1>1. CASE job'[r] = Idle
    BY <1>0, <1>1, StillCred, RowsStill DEF OthersWait, Saving, Idle
  <1>2. CASE job'[r] # Idle
    <2>1. PICK entity : /\ FoundFor(r, entity) /\ job'[r].pc = IF entity.id = 0 THEN "write" ELSE "load"
                        /\ job'[r].kind = job[r].kind /\ job'[r].at = job[r].at
                        /\ job'[r].held = entity /\ job'[r].loaded = NoRow /\ job[r].kind \in SaveKinds
                        /\ Grows
      BY <1>2, SaveForms
    <2>2. job[r].at \in Serial /\ Consistent(Found(r)) /\ fresh # 0
      BY <1>0, DeviceFacts DEF CredFacts, RowsConsistent, Found, Typed, TFresh
    <2>3. Found(r).id = 0 => Found(r).status = "none"
      BY <1>0, DeviceFacts DEF NoRow
    <2>4. Consistent(NoRow) /\ NoRow.cred = 0
      BY DEF Consistent, NoRow
    <2>5. Holds(job'[r], Found(r))
      <3>1. Consistent(entity) /\ entity.status # "none"
        BY <2>1, <2>2 DEF FoundFor, Consistent, SaveKinds
      <3>. QED  BY <2>1, <2>2, <2>3, <2>4, <3>1 DEF FoundFor, Consistent, Holds
    <2>6. ASSUME NEW q \in Request, NEW s \in Serial, q # r, Renames(q, s), Renames(r, s)'
          PROVE  job[q].held.cred = job'[r].held.cred
      <3>1. Holds(job[q], devices[s])
        BY <2>6 DEF Renames, CredFacts, JobsHold, Found
      <3>2. job'[r].held.cred = devices[s].cred /\ devices[s].cred # 0
        BY <2>1, <2>6 DEF Renames, FoundFor, Found
      <3>. QED  BY <2>6, <3>1, <3>2 DEF Renames, Holds
    <2>7. job'[r].at \in Serial /\ Holds(job'[r], devices[job'[r].at])
      BY <2>1, <2>2, <2>5 DEF Found
    <2>. QED  BY <1>0, <2>6, <2>7, JobCred
  <1>. QED  BY <1>1, <1>2

LEMMA LoadCred ==
  ASSUME Typed, Mild, CredFacts, NEW r \in Request, LoadRow(r)
  PROVE  CredFacts'
  <1>0. /\ UNCHANGED devices /\ OthersWait(r) /\ job[r].kind \in DeviceKinds /\ job[r].pc = "load"
        /\ job'[r].pc = "write" /\ job'[r].kind = job[r].kind /\ job'[r].at = job[r].at
        /\ job'[r].held = job[r].held
        /\ job'[r].loaded = IF Found(r).id = job[r].held.id THEN Found(r) ELSE NoRow
    BY LoadForms
  <1>1. Saving(job[r]) /\ job[r].at \in Serial
    BY <1>0, DeviceFacts DEF Saving
  <1>2. Consistent(NoRow) /\ NoRow.cred = 0 /\ Consistent(Found(r)) /\ Holds(job[r], Found(r))
    BY <1>1 DEF CredFacts, RowsConsistent, JobsHold, Consistent, NoRow, Found
  <1>3. Holds(job'[r], Found(r))
    BY <1>0, <1>2 DEF Holds
  <1>4. ASSUME NEW q \in Request, NEW s \in Serial, q # r, Renames(q, s), Renames(r, s)'
        PROVE  job[q].held.cred = job'[r].held.cred
    <2>1. Renames(r, s)
      BY <1>0, <1>1, <1>4 DEF Renames
    <2>. QED  BY <1>0, <1>4, <2>1 DEF CredFacts, RenamesAgree
  <1>5. job'[r].at \in Serial /\ Holds(job'[r], devices[job'[r].at])
    BY <1>0, <1>1, <1>3 DEF Found
  <1>. QED  BY <1>0, <1>4, <1>5, JobCred

\* A save over the row of r leaves what the others hold.
LEMMA SaveLeaves ==
  ASSUME Typed, Mild, CredFacts, NEW r \in Request, Saving(job[r]), NEW row,
         row.cred \in {0, Found(r).cred, job[r].held.cred},
         job[r].kind \in {"provision", "unpair"} => row.cred \in {0, Found(r).cred},
         job[r].kind = "update" => row.cred = 0 \/ row.cred = Found(r).cred \/ row.cred = job[r].held.cred,
         job[r].kind = "regenerate" => row.status = "paired"
  PROVE  \A q \in Request :
           q # r /\ Saving(job[q]) /\ job[q].at = job[r].at =>
             /\ job[q].kind = "regenerate" /\ row.id = job[q].held.id => row.status = "paired"
             /\ job[q].kind = "update" /\ job[q].held.cred # 0 => row.cred \in {0, job[q].held.cred}
  <1>. SUFFICES ASSUME NEW q \in Request, q # r, Saving(job[q]), job[q].at = job[r].at
                PROVE  /\ job[q].kind = "regenerate" /\ row.id = job[q].held.id => row.status = "paired"
                       /\ job[q].kind = "update" /\ job[q].held.cred # 0 => row.cred \in {0, job[q].held.cred}
    OBVIOUS
  <1>1. job[r].at \in Serial /\ job[r].pc # "idle" /\ job[q].pc # "idle" /\ job[r].kind \in SaveKinds
    BY SavingAt
  <1>2. CASE job[q].kind = "regenerate"
    BY <1>1, <1>2, Apart DEF SaveKinds
  <1>3. CASE job[q].kind = "update" /\ job[q].held.cred # 0
    <2>1. Found(r).cred \in {0, job[q].held.cred}
      BY <1>3 DEF CredFacts, JobsHold, Holds, Found
    <2>2. job[r].kind # "regenerate"
      BY <1>1, <1>3, Apart
    <2>3. job[r].kind = "update" /\ job[r].held.cred # 0 => job[r].held.cred = job[q].held.cred
      BY <1>1, <1>3 DEF CredFacts, RenamesAgree, Renames
    <2>. QED  BY <1>1, <1>3, <2>1, <2>2, <2>3 DEF SaveKinds
  <1>. QED  BY <1>2, <1>3

LEMMA InsertCred ==
  ASSUME Typed, Mild, CredFacts, NEW r \in Request, InsertRow(r)
  PROVE  CredFacts'
  <1>0. /\ Saving(job[r]) /\ job[r].kind \in SaveKinds /\ OthersWait(r) /\ ~Saving(job'[r])
        /\ job[r].at \in Serial /\ Holds(job[r], Found(r))
    BY InsertForms, SavingAt DEF CredFacts, JobsHold
  <1>1. CASE UNCHANGED devices
    BY <1>0, <1>1, StillCred, RowsStill DEF OthersWait
  <1>2. CASE ~UNCHANGED devices
    <2>1. PICK row : /\ OneRowOf(r, row) /\ row.status = job[r].held.status /\ row.cred = job[r].held.cred
                     /\ Found(r) = NoRow
      BY <1>2, InsertForms
    <2>2. Consistent(row)
      BY <1>0, <2>1 DEF Holds, Consistent
    <2>3. /\ job[r].kind \in {"provision", "unpair"} => row.cred = 0
          /\ job[r].kind = "regenerate" => row.status = "paired"
      BY <1>0, <2>1 DEF Holds, Consistent
    <2>4. \A q \in Request :
            q # r /\ Saving(job[q]) /\ job[q].at = job[r].at =>
              /\ job[q].kind = "regenerate" /\ row.id = job[q].held.id => row.status = "paired"
              /\ job[q].kind = "update" /\ job[q].held.cred # 0 => row.cred \in {0, job[q].held.cred}
      BY <1>0, <2>1, <2>3, SaveLeaves
    <2>. QED  BY <1>0, <2>1, <2>2, <2>4, RowCred
  <1>. QED  BY <1>1, <1>2

LEMMA UpdateCred ==
  ASSUME Typed, Mild, CredFacts, NEW r \in Request, UpdateRow(r)
  PROVE  CredFacts'
  <1>. DEFINE held == job[r].held
              loaded == job[r].loaded
  <1>0. /\ Saving(job[r]) /\ job[r].kind \in SaveKinds /\ OthersWait(r) /\ ~Saving(job'[r]) /\ job[r].pc = "write"
        /\ job[r].at \in Serial /\ Holds(job[r], Found(r)) /\ loaded # NoRow /\ loaded.id = held.id /\ held.id # 0
    BY UpdateForms, SavingAt DEF CredFacts, JobsHold
  <1>1. CASE UNCHANGED devices
    BY <1>0, <1>1, StillCred, RowsStill DEF OthersWait
  <1>2. CASE ~UNCHANGED devices
    <2>1. PICK row : /\ OneRowOf(r, row) /\ row.id = held.id /\ Found(r).id = held.id
                     /\ row.status = IF held.status # loaded.status THEN held.status ELSE Found(r).status
                     /\ row.cred = IF held.cred # loaded.cred THEN held.cred ELSE Found(r).cred
      BY <1>2, UpdateForms
    <2>2. Consistent(Found(r)) /\ Consistent(held) /\ Consistent(loaded) /\ held.status # "none"
          /\ loaded.status # "none" /\ Found(r).status # "none"
      BY <1>0, <2>1 DEF Holds, CredFacts, RowsConsistent, Found, Consistent
    <2>3. /\ Found(r).status \in {"none", "pending", "paired"} /\ held.status \in {"none", "pending", "paired"}
          /\ loaded.status \in {"none", "pending", "paired"}
      <3>1. {Found(r), held, loaded} \subseteq Row(fresh)
        BY <1>0, DeviceFacts DEF Saving, DeviceJob
      <3>. QED  BY <3>1 DEF Row
    <2>4. /\ job[r].kind \in {"provision", "unpair"} => held.cred = 0
          /\ job[r].kind = "regenerate" => /\ held.status = "paired" /\ loaded.status = "paired"
                                           /\ Found(r).status = "paired" /\ row.status = "paired"
          /\ job[r].kind = "update" /\ held.cred # 0 => loaded.cred \in {0, held.cred}
      BY <1>0, <2>1, <2>2 DEF Holds, Consistent
    <2>5. Consistent(row)
      <3>1. CASE job[r].kind \in {"provision", "unpair"}
        BY <2>1, <2>2, <2>3, <2>4, <3>1 DEF Consistent
      <3>2. CASE job[r].kind = "regenerate"
        BY <2>1, <2>2, <2>4, <3>2 DEF Consistent
      <3>3. CASE job[r].kind = "update"
        BY <2>1, <2>2, <2>3, <2>4, <3>3 DEF Consistent
      <3>. QED  BY <1>0, <3>1, <3>2, <3>3 DEF SaveKinds
    <2>6. \A q \in Request :
            q # r /\ Saving(job[q]) /\ job[q].at = job[r].at =>
              /\ job[q].kind = "regenerate" /\ row.id = job[q].held.id => row.status = "paired"
              /\ job[q].kind = "update" /\ job[q].held.cred # 0 => row.cred \in {0, job[q].held.cred}
      BY <1>0, <2>1, <2>4, SaveLeaves
    <2>. QED  BY <1>0, <2>1, <2>5, <2>6, RowCred
  <1>. QED  BY <1>1, <1>2

LEMMA PairCred ==
  ASSUME Typed, Mild, CredFacts, NEW r \in Request, PairUpdate(r)
  PROVE  CredFacts'
  <1>0. /\ job[r].kind = "pair" /\ job[r].pc = "pair" /\ job[r].at \in Serial /\ OthersWait(r) /\ ~Saving(job'[r])
    BY PairRows
  <1>1. CASE UNCHANGED devices
    BY <1>0, <1>1, StillCred, RowsStill DEF OthersWait
  <1>2. CASE ~UNCHANGED devices
    <2>1. PICK row : OneRowOf(r, row) /\ row.id # 0 /\ row.status = "paired" /\ row.cred = fresh
      BY <1>2, PairRows
    <2>2. Consistent(row)
      BY <2>1 DEF Consistent, Typed, TFresh
    <2>3. \A q \in Request : q # r /\ Saving(job[q]) => job[q].kind # "update"
      BY <1>0, SavingAt, Apart
    <2>. QED  BY <1>0, <2>1, <2>2, <2>3, RowCred
  <1>. QED  BY <1>1, <1>2

LEMMA RemoveCred ==
  ASSUME Typed, Mild, CredFacts, NEW r \in Request, RemoveOrReset(r)
  PROVE  CredFacts'
  <1>0. /\ job[r].kind \in {"remove", "reset"} /\ job[r].pc = "end" /\ job[r].at \in Serial /\ OthersWait(r)
        /\ ~Saving(job'[r])
    BY RemoveForms DEF Saving, Idle
  <1>1. CASE UNCHANGED devices
    BY <1>0, <1>1, StillCred, RowsStill DEF OthersWait
  <1>2. CASE ~UNCHANGED devices
    <2>1. PICK row : /\ OneRowOf(r, row) /\ row.cred = 0 /\ row.status # "paired"
                     /\ row.id # 0 => job[r].kind = "reset" /\ row.status = "pending"
      BY <1>2, RemoveForms
    <2>2. Consistent(row)
      BY <2>1 DEF Consistent
    <2>3. ASSUME NEW q \in Request, q # r, Saving(job[q]), job[q].kind = "regenerate"
          PROVE  row.id # job[q].held.id
      <3>1. job[r].kind # "reset" /\ job[q].held.id # 0
        BY <1>0, <2>3, SavingAt, Apart DEF CredFacts, JobsHold, Holds
      <3>. QED  BY <2>1, <3>1
    <2>. QED  BY <1>0, <2>1, <2>2, <2>3, RowCred
  <1>. QED  BY <1>1, <1>2

LEMMA CredStep ==
  ASSUME Typed, CredInv, [Next]_vars
  PROVE  CredInv'
  <1>. SUFFICES ASSUME Mild' PROVE CredFacts'
    BY DEF CredInv
  <1>1. CASE Still
    <2>1. CredFacts
      BY <1>1, MildBefore DEF Still, CredInv
    <2>. QED  BY <1>1, <2>1, StillCred DEF Still
  <1>2. ASSUME NEW r \in Request,
               SaveFind(r) \/ LoadRow(r) \/ InsertRow(r) \/ UpdateRow(r) \/ PairUpdate(r) \/ RemoveOrReset(r)
        PROVE  CredFacts'
    <2>1. met \subseteq met'
      BY <1>2, SaveForms, LoadForms, InsertForms, UpdateForms, PairRows, RemoveForms
    <2>2. Mild /\ CredFacts
      BY <2>1, MildBefore DEF CredInv
    <2>. QED  BY <1>2, <2>2, SaveFindCred, LoadCred, InsertCred, UpdateCred, PairCred, RemoveCred
  <1>. QED  BY <1>1, <1>2, StepForms

\* A device has a credential exactly when it is paired, for any number of
\* controllers, farms and requests that interleave, fail and crash, unless a
\* regeneration overlapped with a request that unpairs or saves, or a rename
\* with a pairing.
THEOREM PairedDevices == Spec => []PairedHasCredential
  <1>1. Init => Typed /\ CredInv
    <2>1. Init => CredFacts
      BY DEF Init, CredFacts, RowsConsistent, JobsHold, RenamesAgree, Renames, Saving, Consistent, NoRow, Idle
    <2>. QED  BY <2>1, TypedInit DEF CredInv
  <1>2. Typed /\ CredInv /\ [Next]_vars => (Typed /\ CredInv)'
    BY TypedStep, CredStep
  <1>3. CredInv => PairedHasCredential
    BY DEF CredInv, Mild, CredFacts, RowsConsistent, Consistent, PairedHasCredential
  <1>. QED  BY <1>1, <1>2, <1>3, PTL DEF Spec

-----------------------------------------------------------------------------
(* A withdrawn credential does not come back. *)

\* The premise of RevokedStaysOut: renames and regenerations overlap with nothing.
Alone == ~Met({"update", "regenerate"}, DeviceKinds)

\* What is about to be saved is not withdrawn: a rename saves the row as it is,
\* a regeneration a credential that no row has had.
Keeps(r) ==
  /\ job[r].kind = "update" =>
       /\ job[r].held.cred = Found(r).cred /\ job[r].held.id = Found(r).id
       /\ job[r].pc = "write" => job[r].loaded # NoRow
  /\ job[r].kind = "regenerate" => job[r].held.cred \notin revoked

AllKeep == \A r \in Request : Saving(job[r]) => Keeps(r)
RevFacts == Creds(devices) \cap revoked = {} /\ AllKeep
RevInv == Alone => RevFacts

LEMMA AloneBefore ==
  ASSUME met \subseteq met', Alone'
  PROVE  Alone
  BY DEF Alone, Met

LEMMA AloneMild == Alone => Mild
  BY DEF Alone, Mild, Met, DeviceKinds

LEMMA NothingElse ==
  ASSUME Typed, Alone, NEW r \in Request, job[r].kind \in DeviceKinds,
         NEW q \in Request, q # r, Saving(job[q])
  PROVE  job[q].kind \notin {"update", "regenerate"}
  BY DeviceFacts DEF Saving, Alone, Met, Typed, TMet

LEMMA StillRev ==
  ASSUME Typed, RevFacts, \A s \in Serial : StillRow(s), UNCHANGED revoked,
         \A q \in Request : job'[q] = job[q] \/ ~Saving(job'[q])
  PROVE  RevFacts'
  <1>1. Creds(devices)' = Creds(devices)
    BY DEF Creds, StillRow
  <1>2. AllKeep'
    <2>. SUFFICES ASSUME NEW q \in Request, Saving(job'[q])
                  PROVE  Keeps(q)'
      BY DEF AllKeep
    <2>1. job'[q] = job[q] /\ Keeps(q) /\ StillRow(job[q].at)
      BY SavingAt DEF RevFacts, AllKeep
    <2>. QED  BY <2>1 DEF Keeps, Found, StillRow
  <1>. QED  BY <1>1, <1>2 DEF RevFacts

\* One row is written, or none.
LEMMA RowRev ==
  ASSUME Typed, Alone, RevFacts, NEW r \in Request, job[r].kind \in DeviceKinds, OthersWait(r), ~Saving(job'[r]),
         \/ UNCHANGED <<devices, revoked>>
         \/ \E row : OneRowOf(r, row) /\ (row.cred \notin revoked \/ row.cred = 0)
  PROVE  RevFacts'
  <1>1. CASE UNCHANGED <<devices, revoked>>
    BY <1>1, StillRev, RowsStill DEF OthersWait
  <1>2. CASE \E row : OneRowOf(r, row) /\ (row.cred \notin revoked \/ row.cred = 0)
    <2>1. PICK row : OneRowOf(r, row) /\ (row.cred \notin revoked \/ row.cred = 0)
      BY <1>2
    <2>2. ASSUME NEW c \in Creds(devices') PROVE c \notin revoked
      <3>1. PICK s \in Serial : c = devices'[s].cred /\ c # 0
        BY <2>2 DEF Creds
      <3>2. CASE s = job[r].at
        BY <2>1, <3>1, <3>2 DEF OneRowOf
      <3>3. CASE s # job[r].at
        BY <2>1, <3>1, <3>3 DEF OneRowOf, RevFacts, Creds
      <3>. QED  BY <3>2, <3>3
    <2>3. revoked' = revoked \cup (Creds(devices) \ Creds(devices'))
      BY <2>1 DEF OneRowOf, WriteDevices
    <2>4. Creds(devices)' \cap revoked' = {}
      BY <2>2, <2>3 DEF Creds
    <2>5. AllKeep'
      <3>. SUFFICES ASSUME NEW q \in Request, Saving(job'[q])
                    PROVE  job'[q].kind \notin {"update", "regenerate"}
        BY DEF AllKeep, Keeps
      <3>. QED  BY NothingElse DEF OthersWait
    <2>. QED  BY <2>4, <2>5 DEF RevFacts
  <1>. QED  BY <1>1, <1>2

LEMMA SaveFindRev ==
  ASSUME Typed, Alone, CredFacts, RevFacts, NEW r \in Request, SaveFind(r)
  PROVE  RevFacts'
  <1>0. UNCHANGED <<devices, revoked>> /\ OthersWait(r) /\ job[r].kind \in DeviceKinds
    BY SaveForms
  <1>1. CASE job'[r] = Idle
    BY <1>0, <1>1, StillRev, RowsStill DEF OthersWait, Saving, Idle
  <1>2. CASE job'[r] # Idle
    <2>1. PICK entity : /\ FoundFor(r, entity) /\ job'[r].pc = IF entity.id = 0 THEN "write" ELSE "load"
                        /\ job'[r].kind = job[r].kind /\ job'[r].at = job[r].at /\ job'[r].held = entity
      BY <1>2, SaveForms
    <2>2. fresh \notin revoked
      BY DEF Typed, TSent, TFresh
    <2>3. Keeps(r)'
      BY <1>0, <2>1, <2>2 DEF FoundFor, Keeps, Found
    <2>4. AllKeep'
      <3>. SUFFICES ASSUME NEW q \in Request, q # r, Saving(job'[q])
                    PROVE  Keeps(q)'
        BY <2>3 DEF AllKeep
      <3>1. job'[q] = job[q] /\ Keeps(q)
        BY <1>0 DEF OthersWait, RevFacts, AllKeep
      <3>. QED  BY <1>0, <3>1 DEF Keeps, Found
    <2>. QED  BY <1>0, <2>4 DEF RevFacts, Creds
  <1>. QED  BY <1>1, <1>2

LEMMA LoadRev ==
  ASSUME Typed, Alone, RevFacts, NEW r \in Request, LoadRow(r)
  PROVE  RevFacts'
  <1>0. /\ UNCHANGED <<devices, revoked>> /\ OthersWait(r) /\ job[r].kind \in DeviceKinds /\ job[r].pc = "load"
        /\ job'[r].pc = "write" /\ job'[r].kind = job[r].kind /\ job'[r].at = job[r].at
        /\ job'[r].held = job[r].held
        /\ job'[r].loaded = IF Found(r).id = job[r].held.id THEN Found(r) ELSE NoRow
    BY LoadForms
  <1>1. Keeps(r) /\ job[r].held.id # 0 /\ NoRow.id = 0
    BY <1>0, DeviceFacts DEF RevFacts, AllKeep, Saving, DeviceJob, NoRow
  <1>2. Keeps(r)'
    BY <1>0, <1>1 DEF Keeps, Found
  <1>3. AllKeep'
    <2>. SUFFICES ASSUME NEW q \in Request, q # r, Saving(job'[q])
                  PROVE  Keeps(q)'
      BY <1>2 DEF AllKeep
    <2>1. job'[q] = job[q] /\ Keeps(q)
      BY <1>0 DEF OthersWait, RevFacts, AllKeep
    <2>. QED  BY <1>0, <2>1 DEF Keeps, Found
  <1>. QED  BY <1>0, <1>3 DEF RevFacts, Creds

\* A save writes no withdrawn credential.
LEMMA SavedCred ==
  ASSUME Typed, CredFacts, RevFacts, NEW r \in Request, Saving(job[r])
  PROVE  /\ Found(r).cred = 0 \/ Found(r).cred \notin revoked
         /\ job[r].kind = "update" /\ job[r].pc = "write" => job[r].loaded # NoRow
         /\ job[r].held.cred = 0 \/ job[r].held.cred \notin revoked
  <1>1. job[r].at \in Serial /\ job[r].kind \in SaveKinds /\ Keeps(r) /\ Holds(job[r], Found(r))
    BY SavingAt DEF RevFacts, AllKeep, CredFacts, JobsHold
  <1>2. Found(r).cred = 0 \/ Found(r).cred \notin revoked
    BY <1>1 DEF RevFacts, Creds, Found
  <1>. QED  BY <1>1, <1>2 DEF Keeps, Holds, SaveKinds

LEMMA WritesRev ==
  ASSUME Typed, Alone, CredFacts, RevFacts, NEW r \in Request,
         InsertRow(r) \/ UpdateRow(r) \/ PairUpdate(r) \/ RemoveOrReset(r)
  PROVE  RevFacts'
  <1>1. CASE InsertRow(r)
    <2>1. Saving(job[r]) /\ job[r].kind \in DeviceKinds
      BY <1>1, InsertForms DEF Saving
    <2>. QED  BY <1>1, <2>1, InsertForms, SavedCred, RowRev
  <1>2. CASE UpdateRow(r)
    <2>1. Saving(job[r]) /\ job[r].kind \in DeviceKinds
      BY <1>2, UpdateForms DEF Saving
    <2>2. \/ UNCHANGED <<devices, revoked>>
          \/ \E row : OneRowOf(r, row) /\ row.cred \in {job[r].held.cred, Found(r).cred}
      BY <1>2, UpdateForms
    <2>. QED  BY <1>2, <2>1, <2>2, UpdateForms, SavedCred, RowRev
  <1>3. CASE PairUpdate(r)
    <2>1. fresh \notin revoked
      BY DEF Typed, TSent, TFresh
    <2>. QED  BY <1>3, <2>1, PairRows, RowRev DEF DeviceKinds
  <1>4. CASE RemoveOrReset(r)
    BY <1>4, RemoveForms, RowRev DEF DeviceKinds, Saving, Idle
  <1>. QED  BY <1>1, <1>2, <1>3, <1>4

LEMMA RevStep ==
  ASSUME Typed, CredInv, RevInv, [Next]_vars
  PROVE  RevInv'
  <1>. SUFFICES ASSUME Alone' PROVE RevFacts'
    BY DEF RevInv
  <1>1. CASE Still
    <2>1. RevFacts
      BY <1>1, AloneBefore DEF Still, RevInv
    <2>. QED  BY <1>1, <2>1, StillRev DEF Still
  <1>2. ASSUME NEW r \in Request,
               SaveFind(r) \/ LoadRow(r) \/ InsertRow(r) \/ UpdateRow(r) \/ PairUpdate(r) \/ RemoveOrReset(r)
        PROVE  RevFacts'
    <2>1. met \subseteq met'
      BY <1>2, SaveForms, LoadForms, InsertForms, UpdateForms, PairRows, RemoveForms
    <2>2. Alone /\ CredFacts /\ RevFacts
      BY <2>1, AloneBefore, AloneMild DEF CredInv, RevInv
    <2>. QED  BY <1>2, <2>2, SaveFindRev, LoadRev, WritesRev
  <1>. QED  BY <1>1, <1>2, StepForms

\* A withdrawn credential stays out of the device table, for any number of
\* controllers and requests, unless a rename or a regeneration overlaps with
\* another request about a device.
THEOREM RevokedOut == Spec => []RevokedStaysOut
  <1>1. Init => Typed /\ CredInv /\ RevInv
    <2>1. Init => CredFacts
      BY DEF Init, CredFacts, RowsConsistent, JobsHold, RenamesAgree, Renames, Saving, Consistent, NoRow, Idle
    <2>2. Init => RevFacts
      BY DEF Init, RevFacts, AllKeep, Saving, Idle
    <2>. QED  BY <2>1, <2>2, TypedInit DEF CredInv, RevInv
  <1>2. Typed /\ CredInv /\ RevInv /\ [Next]_vars => (Typed /\ CredInv /\ RevInv)'
    BY TypedStep, CredStep, RevStep
  <1>3. RevInv => RevokedStaysOut
    BY DEF RevInv, Alone, RevFacts, RevokedStaysOut
  <1>. QED  BY <1>1, <1>2, <1>3, PTL DEF Spec

-----------------------------------------------------------------------------
(* A controller holds the credential of its row. *)

\* The premise of ControllerMatches.
Undisturbed == ~Met({"pair"}, DeviceKinds \cup {"failure", "silence"})

PairSteps == {"check", "gateway", "pair", "use", "own"}
PairCreds == {p[2] : p \in paired}

\* The controller holds it, or a pairing is about to send it.
Sent ==
  \A s \in Serial : devices[s].cred \in PairCreds =>
    \/ controllers[s] = devices[s].cred
    \/ \E r \in Request : job[r].pc \in {"use", "own"} /\ job[r].at = s
PairHolds(r) ==
  /\ job[r].held.id = Found(r).id
  /\ job[r].pc \in {"use", "own"} => job[r].held.cred = Found(r).cred
SaveSent(r) == job[r].held.cred \in PairCreds => controllers[job[r].at] = job[r].held.cred

MatchFacts ==
  /\ Sent
  /\ \A r \in Request : job[r].pc \in PairSteps => PairHolds(r)
  /\ \A r \in Request : Saving(job[r]) => SaveSent(r)
MatchInv == Undisturbed => MatchFacts

\* No pairing moves, and no controller learns a credential.
Away ==
  /\ \A s \in Serial : controllers'[s] = controllers[s]
  /\ \A q \in Request : job'[q] = job[q] \/ (job'[q].pc \notin PairSteps /\ job[q].pc \notin {"use", "own"})

LEMMA UndisturbedBefore ==
  ASSUME met \subseteq met', Undisturbed'
  PROVE  Undisturbed
  BY DEF Undisturbed, Met

LEMMA PairsAre ==
  ASSUME Typed, NEW r \in Request, job[r].pc \in PairSteps
  PROVE  job[r].kind = "pair" /\ job[r].kind \in DeviceKinds /\ job[r].at \in Serial /\ ~Saving(job[r])
         /\ job[r].pc # "idle"
  <1>1. job[r].kind \in DeviceKinds
    BY AtStep DEF PairSteps, DeviceSteps
  <1>. QED  BY <1>1, DeviceFacts DEF DeviceJob, PairSteps, Saving

\* Beside a pairing there is no other request about a device.
LEMMA OnlyPairing ==
  ASSUME Typed, Undisturbed, NEW r \in Request, job[r].kind = "pair", NEW q \in Request, q # r
  PROVE  job[q].kind \notin DeviceKinds
  <1>1. job[r].pc # "idle" /\ (job[q].kind \in DeviceKinds => job[q].pc # "idle")
    BY DeviceFacts DEF DeviceKinds
  <1>. QED  BY <1>1 DEF Undisturbed, Met, Typed, TMet

\* A request that is no pairing leaves the pairings alone.
LEMMA AwayFrom ==
  ASSUME Typed, Typed', NEW r \in Request, OthersWait(r), job[r].kind # "pair", job'[r].kind # "pair",
         \A s \in Serial : controllers'[s] = controllers[s]
  PROVE  Away
  <1>1. job[r].pc \notin PairSteps
    BY PairsAre
  <1>2. job'[r].pc \notin PairSteps
    BY DEF Typed, TJobs, JobType, DeviceJob, GatewayJob, AnyKind, Idle, PairSteps
  <1>. QED  BY <1>1, <1>2 DEF Away, OthersWait, PairSteps

\* Neither a row, a saving request nor a pairing changes.
LEMMA AwayMatch ==
  ASSUME Typed, MatchFacts, Away, \A s \in Serial : StillRow(s), UNCHANGED paired,
         \A q \in Request : job'[q] = job[q] \/ ~Saving(job'[q])
  PROVE  MatchFacts'
  <1>1. PairCreds' = PairCreds
    BY DEF PairCreds
  <1>2. Sent'
    <2>. SUFFICES ASSUME NEW s \in Serial, devices'[s].cred \in PairCreds
                  PROVE  \/ controllers'[s] = devices'[s].cred
                         \/ \E r \in Request : job'[r].pc \in {"use", "own"} /\ job'[r].at = s
      BY <1>1 DEF Sent
    <2>1. devices'[s].cred = devices[s].cred /\ controllers'[s] = controllers[s]
      BY DEF StillRow, Away
    <2>. QED  BY <2>1 DEF MatchFacts, Sent, Away
  <1>3. ASSUME NEW r \in Request, job'[r].pc \in PairSteps
        PROVE  PairHolds(r)'
    <2>1. job'[r] = job[r] /\ PairHolds(r) /\ job[r].at \in Serial
      BY <1>3, PairsAre DEF Away, MatchFacts
    <2>. QED  BY <2>1 DEF PairHolds, Found, StillRow
  <1>4. ASSUME NEW r \in Request, Saving(job'[r])
        PROVE  SaveSent(r)'
    <2>1. job'[r] = job[r] /\ SaveSent(r) /\ job[r].at \in Serial
      BY <1>4, SavingAt DEF MatchFacts
    <2>. QED  BY <1>1, <2>1 DEF SaveSent, Away
  <1>. QED  BY <1>2, <1>3, <1>4 DEF MatchFacts

\* A pairing moves on; the row and the controller stay.
LEMMA PairMoves ==
  ASSUME Typed, MatchFacts, UNCHANGED <<devices, controllers, paired>>, NEW r \in Request, OthersWait(r),
         ~Saving(job'[r]), job'[r].at = job[r].at, job'[r].held.id = Found(r).id,
         job[r].pc \in {"use", "own"} => job'[r].pc \in {"use", "own"},
         job'[r].pc \in {"use", "own"} => job'[r].held.cred = Found(r).cred
  PROVE  MatchFacts'
  <1>1. PairCreds' = PairCreds
    BY DEF PairCreds
  <1>2. Sent'
    <2>. SUFFICES ASSUME NEW s \in Serial, devices[s].cred \in PairCreds, controllers[s] # devices[s].cred
                  PROVE  \E q \in Request : job'[q].pc \in {"use", "own"} /\ job'[q].at = s
      BY <1>1 DEF Sent
    <2>1. PICK q \in Request : job[q].pc \in {"use", "own"} /\ job[q].at = s
      BY DEF MatchFacts, Sent
    <2>2. CASE q = r
      BY <2>1, <2>2
    <2>3. CASE q # r
      BY <2>1, <2>3 DEF OthersWait
    <2>. QED  BY <2>2, <2>3
  <1>3. ASSUME NEW q \in Request, job'[q].pc \in PairSteps
        PROVE  PairHolds(q)'
    <2>1. CASE q = r
      BY <2>1 DEF PairHolds, Found
    <2>2. CASE q # r
      BY <1>3, <2>2 DEF PairHolds, Found, OthersWait, MatchFacts
    <2>. QED  BY <2>1, <2>2
  <1>4. ASSUME NEW q \in Request, Saving(job'[q])
        PROVE  SaveSent(q)'
    BY <1>1, <1>4 DEF SaveSent, OthersWait, MatchFacts
  <1>. QED  BY <1>2, <1>3, <1>4 DEF MatchFacts

\* These steps leave the pairings and the controllers alone.
LEMMA StartAway ==
  ASSUME Typed, NEW r \in Request, Arrive(r) \/ ArriveGateway(r)
  PROVE  Away
  <1>1. UNCHANGED controllers
    BY DEF Arrive, ArriveGateway
  <1>2. ASSUME NEW j, Start(r, j), j.pc = "find"
        PROVE  Away
    <2>1. OthersWait(r) /\ job'[r] = j /\ job[r].pc = "idle"
      BY <1>2, OthersWaitFor DEF Start
    <2>. QED  BY <1>1, <1>2, <2>1 DEF Away, OthersWait, PairSteps
  <1>3. CASE Arrive(r)
    BY <1>2, <1>3 DEF Arrive, Idle
  <1>4. CASE ArriveGateway(r)
    BY <1>2, <1>4 DEF ArriveGateway, Idle
  <1>. QED  BY <1>3, <1>4

LEMMA DeviceAway ==
  ASSUME Typed, Typed', NEW r \in Request,
         GenerateToken(r) \/ Respond(r) \/ RemoveFind(r) \/ CleanDeviceData(r)
  PROVE  Away
  <1>0. UNCHANGED controllers
    BY DEF GenerateToken, Respond, RemoveFind, CleanDeviceData, OnlyJob
  <1>1. job[r].kind \in DeviceKinds /\ job[r].kind # "pair" /\ DOMAIN job[r] = Fields
    <2>1. job[r].kind \in DeviceKinds
      BY AtStep DEF GenerateToken, Respond, RemoveFind, CleanDeviceData, DeviceSteps, DeviceKinds
    <2>. QED  BY <2>1, DeviceFacts DEF DeviceJob, GenerateToken, Respond, RemoveFind, CleanDeviceData
  <1>2. ASSUME NEW j, Become(r, j), j = Idle \/ j.kind = job[r].kind
        PROVE  Away
    <2>1. OthersWait(r) /\ job'[r].kind # "pair"
      BY <1>1, <1>2, OthersWaitFor DEF Idle
    <2>. QED  BY <1>0, <1>1, <2>1, AwayFrom
  <1>3. CASE Finish(r)
    BY <1>2, <1>3 DEF Finish
  <1>4. CASE GenerateToken(r)
    BY <1>1, <1>2, <1>3, <1>4 DEF GenerateToken, Fields
  <1>5. CASE RemoveFind(r)
    BY <1>1, <1>2, <1>3, <1>5 DEF RemoveFind, Fields
  <1>6. CASE CleanDeviceData(r)
    BY <1>1, <1>2, <1>6 DEF CleanDeviceData, Goto, Fields
  <1>. QED  BY <1>3, <1>4, <1>5, <1>6 DEF Respond

LEMMA SaveAway ==
  ASSUME Typed, Typed', NEW r \in Request,
         SaveFind(r) \/ LoadRow(r) \/ InsertRow(r) \/ UpdateRow(r) \/ RemoveOrReset(r)
  PROVE  Away
  <1>1. CASE SaveFind(r)
    BY <1>1, SaveForms, AwayFrom DEF SaveKinds, Idle
  <1>2. CASE LoadRow(r)
    <2>1. job[r].kind \in SaveKinds
      BY <1>2, LoadForms, SavingAt DEF Saving
    <2>. QED  BY <1>2, <2>1, LoadForms, AwayFrom DEF SaveKinds
  <1>3. CASE InsertRow(r) \/ UpdateRow(r)
    BY <1>3, InsertForms, UpdateForms, AwayFrom DEF SaveKinds
  <1>4. CASE RemoveOrReset(r)
    BY <1>4, RemoveForms, AwayFrom DEF Idle
  <1>. QED  BY <1>1, <1>2, <1>3, <1>4

LEMMA GatewayAway ==
  ASSUME Typed, Typed', NEW r \in Request, HandleGateway(r)
  PROVE  Away
  <1>1. \A s \in Serial : controllers'[s] = controllers[s]
    <2>1. CASE GatewayRespond(r)
      <3>1. job[r].at \in Gateway
        BY <2>1, GatewayFacts DEF GatewayRespond, GatewayJob
      <3>2. job[r].at \notin Serial
        BY <3>1, ConstantsAssumption
      <3>. QED  BY <2>1, <3>2 DEF GatewayRespond, Typed, TSent
    <2>2. CASE ~GatewayRespond(r)
      <3>1. UNCHANGED controllers
        BY <2>2, GatewayPairForms DEF HandleGateway, GatewayProvisionFind, LoadGateway, InsertGateway, UpdateGateway,
           AssignDevices, DeleteFind, ReleaseDevices, RemoveGateway, OnlyJob
      <3>. QED  BY <3>1
    <2>. QED  BY <2>1, <2>2
  <1>2. job[r].kind \in GatewayKinds
    BY AtGatewayStep DEF HandleGateway, GatewayProvisionFind, GatewayPairFind, LoadGateway, InsertGateway, UpdateGateway,
       AssignDevices, GatewayRespond, DeleteFind, ReleaseDevices, RemoveGateway, Finds, GatewayKinds, GatewaySteps
  <1>. QED  BY <1>1, <1>2, GatewayJobs, AwayFrom DEF GatewayKinds, Idle

LEMMA OtherAway ==
  ASSUME Typed, Undisturbed',
         \/ UNCHANGED vars
         \/ \E s \in Serial : Expire(s)
         \/ Administer
         \/ RequestFails \/ Crash
  PROVE  Away
  <1>1. CASE UNCHANGED vars
    BY <1>1 DEF vars, Away
  <1>2. CASE (\E s \in Serial : Expire(s)) \/ Administer
    BY <1>2 DEF Expire, Administer, DeleteTokens, Away
  <1>3. ASSUME NEW R, R \subseteq Request, Fail(R)
        PROVE  Away
    <2>1. \A q \in R : job[q].kind # "pair"
      BY <1>3 DEF Fail, Undisturbed, Met
    <2>2. \A q \in R : job[q].pc \notin PairSteps
      BY <1>3, <2>1, PairsAre
    <2>. QED  BY <1>3, <2>2 DEF Fail, Away, PairSteps, Idle
  <1>. QED  BY <1>1, <1>2, <1>3 DEF RequestFails, Crash

\* A request that saves runs beside no pairing, and holds nothing its
\* controller was not sent.
LEMMA SaverFacts ==
  ASSUME Typed, Undisturbed, MatchFacts, NEW r \in Request, job[r].kind \in DeviceKinds, job[r].kind # "pair"
  PROVE  /\ \A q \in Request : job[q].pc \notin PairSteps
         /\ Found(r).cred \in PairCreds => controllers[job[r].at] = Found(r).cred
         /\ Saving(job[r]) => SaveSent(r)
         /\ 0 \notin PairCreds /\ fresh \notin PairCreds
  <1>1. \A q \in Request : job[q].pc \notin PairSteps
    BY PairsAre, OnlyPairing
  <1>2. Found(r).cred \in PairCreds => controllers[job[r].at] = Found(r).cred
    BY <1>1, DeviceFacts DEF MatchFacts, Sent, Found, PairSteps
  <1>3. PairCreds \subseteq 1..(fresh - 1)
    BY DEF PairCreds, Typed, TSent
  <1>. QED  BY <1>1, <1>2, <1>3 DEF MatchFacts, Typed, TFresh

LEMMA SaveFindMatch ==
  ASSUME Typed, Typed', Undisturbed, MatchFacts, NEW r \in Request, SaveFind(r)
  PROVE  MatchFacts'
  <1>0. /\ UNCHANGED <<devices, controllers, paired>> /\ OthersWait(r) /\ Away
        /\ job[r].kind \in SaveKinds /\ job[r].kind \in DeviceKinds /\ job[r].kind # "pair"
    BY SaveForms, SaveAway DEF SaveKinds
  <1>1. CASE job'[r] = Idle
    BY <1>0, <1>1, AwayMatch, RowsStill DEF OthersWait, Saving, Idle
  <1>2. CASE job'[r] # Idle
    <2>1. PICK entity : FoundFor(r, entity) /\ job'[r].at = job[r].at /\ job'[r].held = entity
      BY <1>2, SaveForms
    <2>2. entity.cred \in PairCreds => controllers[job[r].at] = entity.cred
      BY <1>0, <2>1, SaverFacts DEF FoundFor, SaveKinds
    <2>3. PairCreds' = PairCreds
      BY <1>0 DEF PairCreds
    <2>4. SaveSent(r)'
      BY <1>0, <2>1, <2>2, <2>3 DEF SaveSent
    <2>5. ASSUME NEW q \in Request, Saving(job'[q])
          PROVE  SaveSent(q)'
      BY <1>0, <2>3, <2>4, <2>5 DEF SaveSent, OthersWait, MatchFacts
    <2>6. Sent' /\ \A q \in Request : job'[q].pc \notin PairSteps
      BY <1>0, <2>3, SaverFacts DEF MatchFacts, Sent, Away, PairSteps
    <2>. QED  BY <2>5, <2>6 DEF MatchFacts
  <1>. QED  BY <1>1, <1>2

LEMMA LoadMatch ==
  ASSUME Typed, Typed', Undisturbed, MatchFacts, NEW r \in Request, LoadRow(r)
  PROVE  MatchFacts'
  <1>0. /\ UNCHANGED <<devices, controllers, paired>> /\ OthersWait(r) /\ Away
        /\ job'[r].at = job[r].at /\ job'[r].held = job[r].held /\ job[r].kind \in DeviceKinds
        /\ job[r].pc = "load"
    BY LoadForms, SaveAway
  <1>1. Saving(job[r]) /\ job[r].kind # "pair"
    BY <1>0, SavingAt DEF Saving, SaveKinds
  <1>2. PairCreds' = PairCreds
    BY <1>0 DEF PairCreds
  <1>3. ASSUME NEW q \in Request, Saving(job'[q])
        PROVE  SaveSent(q)'
    BY <1>0, <1>1, <1>2, <1>3 DEF SaveSent, OthersWait, MatchFacts
  <1>4. Sent' /\ \A q \in Request : job'[q].pc \notin PairSteps
    BY <1>0, <1>1, <1>2, SaverFacts DEF MatchFacts, Sent, Away, PairSteps
  <1>. QED  BY <1>3, <1>4 DEF MatchFacts

\* A request that is no pairing writes its row, or none.
LEMMA RowMatch ==
  ASSUME Typed, Typed', Undisturbed, MatchFacts, NEW r \in Request, job[r].kind \in DeviceKinds, job[r].kind # "pair",
         Away, OthersWait(r), ~Saving(job'[r]), UNCHANGED <<controllers, paired>>,
         \/ UNCHANGED devices
         \/ \E row : OneRowOf(r, row) /\ (row.cred \in PairCreds => controllers[job[r].at] = row.cred)
  PROVE  MatchFacts'
  <1>1. CASE UNCHANGED devices
    BY <1>1, AwayMatch, RowsStill DEF OthersWait
  <1>2. CASE \E row : OneRowOf(r, row) /\ (row.cred \in PairCreds => controllers[job[r].at] = row.cred)
    <2>1. PICK row : OneRowOf(r, row) /\ (row.cred \in PairCreds => controllers[job[r].at] = row.cred)
      BY <1>2
    <2>2. PairCreds' = PairCreds
      BY DEF PairCreds
    <2>3. \A q \in Request : job[q].pc \notin PairSteps /\ job'[q].pc \notin PairSteps
      BY SaverFacts DEF Away
    <2>4. ASSUME NEW s \in Serial, devices'[s].cred \in PairCreds
          PROVE  controllers'[s] = devices'[s].cred
      <3>1. CASE s = job[r].at
        BY <2>1, <2>4, <3>1 DEF OneRowOf
      <3>2. CASE s # job[r].at
        BY <2>1, <2>3, <2>4, <3>2 DEF OneRowOf, MatchFacts, Sent, PairSteps
      <3>. QED  BY <3>1, <3>2
    <2>5. ASSUME NEW q \in Request, Saving(job'[q])
          PROVE  SaveSent(q)'
      BY <2>2, <2>5 DEF SaveSent, OthersWait, MatchFacts
    <2>. QED  BY <2>2, <2>3, <2>4, <2>5 DEF MatchFacts, Sent
  <1>. QED  BY <1>1, <1>2

LEMMA WritesMatch ==
  ASSUME Typed, Typed', Undisturbed, MatchFacts, NEW r \in Request,
         InsertRow(r) \/ UpdateRow(r) \/ RemoveOrReset(r)
  PROVE  MatchFacts'
  <1>1. CASE InsertRow(r) \/ UpdateRow(r)
    <2>1. /\ Saving(job[r]) /\ job[r].kind \in DeviceKinds /\ job[r].kind # "pair" /\ OthersWait(r)
          /\ ~Saving(job'[r]) /\ UNCHANGED <<controllers, paired>>
          /\ \/ UNCHANGED devices
             \/ \E row : OneRowOf(r, row) /\ row.cred \in {job[r].held.cred, Found(r).cred}
      BY <1>1, InsertForms, UpdateForms DEF Saving, SaveKinds
    <2>2. /\ Found(r).cred \in PairCreds => controllers[job[r].at] = Found(r).cred
          /\ job[r].held.cred \in PairCreds => controllers[job[r].at] = job[r].held.cred
      BY <2>1, SaverFacts DEF SaveSent
    <2>. QED  BY <1>1, <2>1, <2>2, SaveAway, RowMatch
  <1>2. CASE RemoveOrReset(r)
    <2>1. /\ job[r].kind \in DeviceKinds /\ job[r].kind # "pair" /\ OthersWait(r)
          /\ ~Saving(job'[r]) /\ UNCHANGED <<controllers, paired>>
          /\ \/ UNCHANGED devices
             \/ \E row : OneRowOf(r, row) /\ row.cred = 0
      BY <1>2, RemoveForms DEF DeviceKinds, Saving, Idle
    <2>2. 0 \notin PairCreds
      BY <2>1, SaverFacts
    <2>. QED  BY <1>2, <2>1, <2>2, SaveAway, RowMatch
  <1>. QED  BY <1>1, <1>2

LEMMA PairFindMatch ==
  ASSUME Typed, Typed', MatchFacts, NEW r \in Request,
         PairFind(r) \/ CheckToken(r) \/ PickGateway(r) \/ UseToken(r)
  PROVE  MatchFacts'
  <1>0. /\ UNCHANGED <<devices, controllers, paired>>
        /\ DOMAIN job[r] = Fields /\ job[r].kind = "pair" /\ job[r].pc # "own" /\ job[r].at \in Serial
    <2>1. UNCHANGED <<devices, controllers, paired>>
      BY DEF PairFind, CheckToken, PickGateway, UseToken, OnlyJob, tables, history
    <2>2. job[r].kind = "pair" /\ job[r].pc # "own"
      BY PairsAre DEF PairFind, CheckToken, PickGateway, UseToken, Finds, PairSteps
    <2>. QED  BY <2>1, <2>2, DeviceFacts DEF DeviceKinds
  <1>1. CASE Finish(r) /\ job[r].pc # "use"
    <2>1. OthersWait(r) /\ job'[r] = Idle
      BY <1>1, OthersWaitFor DEF Finish
    <2>2. Away
      BY <1>0, <1>1, <2>1 DEF Away, OthersWait, Idle, PairSteps
    <2>. QED  BY <1>0, <2>1, <2>2, AwayMatch, RowsStill DEF OthersWait, Saving, Idle
  <1>2. ASSUME NEW j, Become(r, j), j.kind = "pair", j.at = job[r].at, j.pc \in PairSteps, j.held.id = Found(r).id,
               job[r].pc = "use" => j.pc = "own",
               j.pc \in {"use", "own"} => j.held.cred = Found(r).cred
        PROVE  MatchFacts'
    <2>1. OthersWait(r) /\ job'[r] = j
      BY <1>2, OthersWaitFor
    <2>2. ~Saving(j)
      BY <1>2 DEF Saving, PairSteps
    <2>. QED  BY <1>0, <1>2, <2>1, <2>2, PairMoves
  <1>3. CASE PairFind(r) /\ ~Finish(r)
    <2>. DEFINE j == [job[r] EXCEPT !.pc = "check", !.held = Found(r)]
    <2>1. Become(r, j) /\ job[r].pc = "find"
      BY <1>3 DEF PairFind, Finds
    <2>2. j.kind = "pair" /\ j.at = job[r].at /\ j.pc = "check" /\ j.held = Found(r)
      BY <1>0 DEF Fields
    <2>. HIDE DEF j
    <2>. QED  BY <1>2, <2>1, <2>2 DEF PairSteps
  <1>4. ASSUME NEW j, Become(r, j), j.kind = "pair", j.at = job[r].at, j.held = job[r].held,
               \/ job[r].pc \in {"check", "gateway"} /\ j.pc \in {"gateway", "pair"}
               \/ job[r].pc = "use" /\ j.pc = "own"
        PROVE  MatchFacts'
    <2>1. PairHolds(r)
      BY <1>4 DEF MatchFacts, PairSteps
    <2>. QED  BY <1>2, <1>4, <2>1 DEF PairHolds, PairSteps
  <1>5. ASSUME NEW step, Goto(r, step),
               \/ job[r].pc = "check" /\ step = "gateway"
               \/ job[r].pc = "use" /\ step = "own"
        PROVE  MatchFacts'
    <2>. DEFINE j == [job[r] EXCEPT !.pc = step]
    <2>1. Become(r, j) /\ j.pc = step /\ j.kind = job[r].kind /\ j.at = job[r].at /\ j.held = job[r].held
      BY <1>0, <1>5, StepFields DEF Goto
    <2>. HIDE DEF j
    <2>. QED  BY <1>0, <1>4, <1>5, <2>1
  <1>6. CASE PickGateway(r)
    <2>1. PICK g : Become(r, [job[r] EXCEPT !.pc = "pair", !.gateway = g])
      BY <1>6 DEF PickGateway
    <2>. DEFINE j == [job[r] EXCEPT !.pc = "pair", !.gateway = g]
    <2>2. Become(r, j) /\ j.pc = "pair" /\ j.kind = job[r].kind /\ j.at = job[r].at /\ j.held = job[r].held
      BY <1>0, <2>1 DEF Fields
    <2>3. job[r].pc = "gateway"
      BY <1>6 DEF PickGateway
    <2>. HIDE DEF j
    <2>. QED  BY <1>0, <1>4, <2>2, <2>3
  <1>7. CASE CheckToken(r)
    <2>1. job[r].pc = "check" /\ (Finish(r) \/ Goto(r, "gateway"))
      BY <1>7 DEF CheckToken
    <2>. QED  BY <1>1, <1>5, <2>1
  <1>8. CASE UseToken(r)
    BY <1>5, <1>8 DEF UseToken
  <1>9. CASE PairFind(r) /\ Finish(r)
    BY <1>1, <1>9 DEF PairFind, Finds
  <1>. QED  BY <1>3, <1>6, <1>7, <1>8, <1>9

LEMMA PairUpdateMatch ==
  ASSUME Typed, Typed', Undisturbed, MatchFacts, NEW r \in Request, PairUpdate(r)
  PROVE  MatchFacts'
  <1>. DEFINE j == job[r]
              new == [j EXCEPT !.pc = "use", !.held = PairedRow(j)]
  <1>0. /\ j.kind = "pair" /\ j.pc = "pair" /\ j.at \in Serial /\ UNCHANGED controllers /\ PairHolds(r)
        /\ DOMAIN j = Fields
    BY PairForms, DeviceFacts DEF MatchFacts, PairSteps, DeviceKinds
  <1>1. CASE Finish(r) /\ UNCHANGED <<devices, paired>>
    <2>1. OthersWait(r) /\ job'[r] = Idle
      BY <1>1, OthersWaitFor DEF Finish
    <2>2. Away
      BY <1>0, <2>1 DEF Away, OthersWait, Idle, PairSteps
    <2>. QED  BY <1>1, <2>1, <2>2, AwayMatch, RowsStill DEF OthersWait, Saving, Idle
  <1>2. CASE ~(Finish(r) /\ UNCHANGED <<devices, paired>>)
    <2>1. /\ WriteDevices([devices EXCEPT ![j.at] = PairedRow(j)]) /\ PairedRow(j).cred = fresh
          /\ paired' = paired \cup {<<j.token, fresh>>} /\ Become(r, new)
      BY <1>0, <1>2, PairForms DEF PairHolds
    <2>2. new.pc = "use" /\ new.held = PairedRow(j) /\ new.at = j.at
      BY <1>0 DEF Fields
    <2>. HIDE DEF new
    <2>3. OthersWait(r) /\ job'[r] = new
      BY <2>1, OthersWaitFor
    <2>4. OneRowOf(r, PairedRow(j))
      BY <1>0, <2>1, WroteOne
    <2>5. \A q \in Request : q # r => job[q].kind \notin DeviceKinds
      BY <1>0, OnlyPairing
    <2>6. \A q \in Request : q # r => job'[q].pc \notin PairSteps /\ ~Saving(job'[q])
      BY <2>3, <2>5, PairsAre DEF OthersWait, Saving
    <2>7. PairCreds' = PairCreds \cup {fresh}
      <3>1. PairCreds' = {p[2] : p \in paired \cup {<<j.token, fresh>>}}
        BY <2>1 DEF PairCreds
      <3>2. ASSUME NEW c PROVE c \in PairCreds' <=> c \in PairCreds \cup {fresh}
        <4>. DEFINE last == <<j.token, fresh>>
        <4>1. last[2] = fresh
          OBVIOUS
        <4>. HIDE DEF last
        <4>. QED  BY <3>1, <4>1 DEF PairCreds, last
      <3>. QED  BY <3>2
    <2>8. Sent'
      <3>. SUFFICES ASSUME NEW s \in Serial, s # j.at, devices'[s].cred \in PairCreds'
                    PROVE  controllers'[s] = devices'[s].cred
        BY <2>2, <2>3 DEF Sent
      <3>1. devices'[s] = devices[s] /\ devices[s].cred # fresh
        <4>1. devices[s] \in Row(fresh)
          BY DEF Typed, TDevices
        <4>. QED  BY <2>4, <4>1 DEF OneRowOf, Row, Typed, TFresh
      <3>2. \A q \in Request : job[q].pc \notin {"use", "own"}
        BY <1>0, <2>3, <2>6 DEF OthersWait, PairSteps
      <3>. QED  BY <1>0, <2>7, <3>1, <3>2 DEF MatchFacts, Sent
    <2>9. PairHolds(r)' /\ ~Saving(job'[r])
      BY <2>2, <2>3, <2>4 DEF PairHolds, OneRowOf, Found, Saving
    <2>. QED  BY <2>6, <2>8, <2>9 DEF MatchFacts
  <1>. QED  BY <1>1, <1>2

LEMMA SetOwnerMatch ==
  ASSUME Typed, Undisturbed, Undisturbed', MatchFacts, NEW r \in Request, SetOwner(r)
  PROVE  MatchFacts'
  <1>0. /\ job[r].pc = "own" /\ job[r].kind = "pair" /\ job[r].at \in Serial /\ PairHolds(r)
        /\ UNCHANGED <<devices, paired>> /\ Finish(r)
    BY PairsAre DEF SetOwner, MatchFacts, PairSteps, tables
  <1>1. controllers' = [controllers EXCEPT ![job[r].at] = job[r].held.cred]
    <2>1. {"pair", "silence"} \notin met'
      BY DEF Undisturbed, Met
    <2>. QED  BY <2>1 DEF SetOwner
  <1>2. OthersWait(r) /\ job'[r] = Idle
    BY <1>0, OthersWaitFor DEF Finish
  <1>3. \A q \in Request : job'[q].pc \notin PairSteps /\ ~Saving(job'[q])
    BY <1>0, <1>2, OnlyPairing, PairsAre DEF OthersWait, Saving, Idle, PairSteps
  <1>4. PairCreds' = PairCreds
    BY <1>0 DEF PairCreds
  <1>5. ASSUME NEW s \in Serial, devices[s].cred \in PairCreds
        PROVE  controllers'[s] = devices[s].cred
    <2>1. \A q \in Request : q # r => job[q].pc \notin {"use", "own"}
      BY <1>2, <1>3 DEF OthersWait, PairSteps
    <2>2. CASE s = job[r].at
      BY <1>0, <1>1, <2>2 DEF PairHolds, Found, Typed, TSent
    <2>3. CASE s # job[r].at
      BY <1>1, <1>5, <2>1, <2>3 DEF MatchFacts, Sent, Typed, TSent
    <2>. QED  BY <2>2, <2>3
  <1>. QED  BY <1>0, <1>3, <1>4, <1>5 DEF MatchFacts, Sent

LEMMA MatchStep ==
  ASSUME Typed, Typed', MatchInv, [Next]_vars
  PROVE  MatchInv'
  <1>. SUFFICES ASSUME Undisturbed' PROVE MatchFacts'
    BY DEF MatchInv
  <1>1. ASSUME Still, Away
        PROVE  MatchFacts'
    <2>1. MatchFacts
      BY <1>1, UndisturbedBefore DEF Still, MatchInv
    <2>. QED  BY <1>1, <2>1, AwayMatch DEF Still
  <1>2. CASE \/ UNCHANGED vars
             \/ \E s \in Serial : Expire(s)
             \/ Administer
             \/ RequestFails \/ Crash
    BY <1>1, <1>2, OtherStill, OtherAway
  <1>3. ASSUME NEW r \in Request, ArriveGateway(r) \/ HandleGateway(r)
        PROVE  MatchFacts'
    BY <1>1, <1>3, DeviceStill, GatewayStill, StartAway, GatewayAway
  <1>4. ASSUME NEW r \in Request, Arrive(r) \/ Handle(r)
        PROVE  MatchFacts'
    <2>1. CASE Arrive(r) \/ GenerateToken(r) \/ Respond(r) \/ RemoveFind(r) \/ CleanDeviceData(r)
      BY <1>1, <2>1, DeviceStill, StartAway, DeviceAway
    <2>2. CASE SaveFind(r) \/ LoadRow(r) \/ InsertRow(r) \/ UpdateRow(r) \/ RemoveOrReset(r) \/ PairUpdate(r)
      <3>1. met \subseteq met'
        BY <2>2, SaveForms, LoadForms, InsertForms, UpdateForms, PairRows, RemoveForms
      <3>2. Undisturbed /\ MatchFacts
        BY <3>1, UndisturbedBefore DEF MatchInv
      <3>. QED  BY <2>2, <3>2, SaveFindMatch, LoadMatch, WritesMatch, PairUpdateMatch
    <2>3. CASE PairFind(r) \/ CheckToken(r) \/ PickGateway(r) \/ UseToken(r) \/ SetOwner(r)
      <3>1. met \subseteq met'
        BY <2>3, DeviceStill DEF Still
      <3>2. Undisturbed /\ MatchFacts
        BY <3>1, UndisturbedBefore DEF MatchInv
      <3>. QED  BY <2>3, <3>2, PairFindMatch, SetOwnerMatch
    <2>. QED  BY <1>4, <2>1, <2>2, <2>3 DEF Handle, SaveFind
  <1>. QED  BY <1>2, <1>3, <1>4 DEF Next, DeviceNext, GatewayNext

\* A device that no request is about and whose credential a pairing gave holds
\* that credential, for any number of controllers and requests, unless a pairing
\* overlapped with another request, failed, or lost its set_owner.
THEOREM ControllersMatch == Spec => []ControllerMatches
  <1>1. Init => Typed /\ MatchInv
    <2>1. Init => MatchFacts
      BY DEF Init, MatchFacts, Sent, PairCreds, PairSteps, Saving, Idle
    <2>. QED  BY <2>1, TypedInit DEF MatchInv
  <1>2. Typed /\ MatchInv /\ [Next]_vars => (Typed /\ MatchInv)'
    BY TypedStep, MatchStep
  <1>3. MatchInv => ControllerMatches
    BY DEF MatchInv, Undisturbed, MatchFacts, Sent, PairCreds, ControllerMatches
  <1>. QED  BY <1>1, <1>2, <1>3, PTL DEF Spec

-----------------------------------------------------------------------------
(* A paired device has the gateway of its farm. *)

\* The premise of GatewayOfFarm on what overlapped and failed.
Calm ==
  /\ ~Met({"gateway_pair"}, AnyKind \cup {"failure", "move"})
  /\ ~Met({"pair"}, {"provision", "unpair", "regenerate", "update"})
  /\ ~Met({"gateway_delete"}, {"failure", "gateway_provision"}) /\ ~Met({"update"}, {"move"})

\* Gateway n can stand in the row of a device of farm f: it is the gateway of
\* the farm, it is gone and the database will refuse it, there is none as the
\* farm has none or one that is being deleted, or the farm is being assigned.
Leaving(f) == \E q \in Request : job[q].pc = "remove" /\ job[q].gateway \in GatewaysOf(f)
Settling(f) == \E q \in Request : job[q].pc = "assign" /\ job[q].farm = f
Fits(n, f) ==
  \/ n \in GatewaysOf(f)
  \/ n # 0 /\ n < fresh /\ \A g \in Gateway : gateways[g].id # n
  \/ n = 0 /\ (GatewaysOf(f) = {} \/ Leaving(f))
  \/ Settling(f)

\* The row of a device, and what requests hold to save over it.
Version(s, x) ==
  /\ x.id # 0
  /\ \/ x = devices[s]
     \/ \E r \in Request : Saving(job[r]) /\ job[r].at = s /\ (x = job[r].held \/ x = job[r].loaded)

\* A save writes some columns of one version over another, so any two of them
\* have to agree: their farms, and the gateway of one with the farm of the other.
Sound(x) == x.status # "none" /\ (x.status = "paired" <=> x.farm # None)
Suits(x, y) == x.id = y.id /\ x.farm # None => Fits(y.gateway, x.farm) /\ y.farm \in {None, x.farm}
VersionsAgree == \A s \in Serial : \A x, y : Version(s, x) /\ Version(s, y) => Sound(x) /\ Suits(x, y)
NewRows == \A r \in Request :
             Saving(job[r]) /\ job[r].held.id = 0 => job[r].held.farm = None /\ job[r].held.status = "pending"
PairsFit == \A r \in Request : \A n \in Nat, f \in Farm :
              job[r].pc = "pair" /\ job[r].gateway = n /\ job[r].farm = f => Fits(n, f)

\* Gateways have ids of their own, and a farm has one at most.
OwnIds == \A g, h \in Gateway : gateways[g].id = gateways[h].id /\ gateways[g].id # 0 => g = h
OnePerFarm == \A g, h \in Gateway : gateways[g].farm = gateways[h].farm /\ gateways[g].farm # None => g = h

\* What a request about a gateway holds is still there.
DeleteHolds(r) ==
  /\ job[r].gateway # 0 /\ job[r].gateway < fresh
  /\ \A g \in Gateway : gateways[g].id = job[r].gateway => g = job[r].at
GatewaySaving(j) == j.kind \in GatewayKinds /\ j.pc \in {"load", "write"}
SaveHolds(r) ==
  LET j == job[r]
      row == gateways[j.at]
  IN
  /\ j.held.id # 0 => row.id = j.held.id
  /\ j.held.id # 0 /\ j.pc = "write" => j.loaded # NoGateway /\ j.loaded.farm = row.farm
  /\ j.kind = "gateway_provision" => j.held.farm = IF j.held.id = 0 THEN None ELSE row.farm
  /\ j.kind = "gateway_pair" => /\ j.held.id # 0 /\ j.held.farm = j.farm
                                /\ row.farm \in {None, j.farm}
                                /\ \A g \in Gateway : gateways[g].farm = j.farm => gateways[g].id = row.id
AssignHolds(r) ==
  /\ gateways[job[r].at].id = job[r].gateway /\ gateways[job[r].at].farm = job[r].farm
  /\ job[r].gateway # 0

GatewaysHold ==
  /\ OwnIds /\ OnePerFarm
  /\ \A r \in Request : /\ job[r].pc \in {"release", "remove"} => DeleteHolds(r)
                        /\ GatewaySaving(job[r]) => SaveHolds(r)
                        /\ job[r].pc = "assign" => AssignHolds(r)
FarmFacts == VersionsAgree /\ NewRows /\ PairsFit /\ GatewaysHold
FarmInv == Calm => FarmFacts

LEMMA CalmBefore ==
  ASSUME met \subseteq met', Calm'
  PROVE  Calm
  BY DEF Calm, Met

\* Beside the pairing of a gateway nothing is in flight.
LEMMA PairingAlone ==
  ASSUME Typed, Calm, NEW r \in Request, job[r].kind = "gateway_pair", NEW q \in Request, q # r
  PROVE  job[q].pc = "idle" /\ job[q] = Idle
  <1>1. job[r].pc # "idle"
    BY GatewayFacts DEF GatewayKinds
  <1>2. JobType(job[q], fresh)
    BY DEF Typed, TJobs
  <1>3. ASSUME job[q].pc # "idle"
        PROVE  FALSE
    <2>1. job[q].kind \in AnyKind /\ {job[r].kind, job[q].kind} \in met
      BY <1>1, <1>2, <1>3 DEF Typed, TMet, JobType
    <2>. QED  BY <2>1 DEF Calm, Met
  <1>. QED  BY <1>2, <1>3 DEF JobType

\* What else Calm excludes.
LEMMA CalmApart ==
  ASSUME Typed, Calm, NEW p \in Request, NEW q \in Request, p # q, job[p].pc # "idle", job[q].pc # "idle"
  PROVE  /\ job[p].kind = "pair" => job[q].kind \notin SaveKinds
         /\ job[p].kind = "gateway_delete" => job[q].kind # "gateway_provision"
         /\ job[p].kind = "gateway_pair" => FALSE
  <1>1. {job[p].kind, job[q].kind} \in met
    BY DEF Typed, TMet
  <1>. QED  BY <1>1, PairingAlone DEF Calm, Met, SaveKinds

\* Which kinds of requests are at the steps that write about gateways.
LEMMA GatewayPcs ==
  ASSUME Typed, NEW r \in Request
  PROVE  /\ job[r].pc = "assign" => job[r].kind = "gateway_pair"
         /\ job[r].pc \in {"release", "remove"} => job[r].kind = "gateway_delete"
         /\ job[r].pc \in {"assign", "release", "remove"} => job[r].at \in Gateway
         /\ GatewaySaving(job[r]) => /\ job[r].kind \in {"gateway_provision", "gateway_pair"}
                                     /\ job[r].at \in Gateway /\ job[r].pc # "idle"
         /\ job[r].kind \in GatewayKinds => job[r].farm \in Farm \cup {None}
  <1>1. job[r].pc \in GatewaySteps => job[r].kind \in GatewayKinds
    BY AtGatewayStep
  <1>. QED  BY <1>1, GatewayFacts DEF GatewaySteps, GatewayJob, GatewaySaving, JobType

\* Which gateways there are, and of which farms.
SameGateways ==
  \A g \in Gateway : gateways'[g].id = gateways[g].id /\ gateways'[g].farm = gateways[g].farm

LEMMA SameGatewaysOf ==
  ASSUME SameGateways, NEW f
  PROVE  GatewaysOf(f)' = GatewaysOf(f)
  BY DEF SameGateways, GatewaysOf

\* What fits does so as long as no gateway and no deletion or pairing of one moves.
LEMMA FitsOn ==
  ASSUME Typed, SameGateways, fresh <= fresh', fresh' \in Nat,
         \A q \in Request : job[q].pc \in {"remove", "assign"} => job'[q] = job[q],
         NEW n \in Nat, NEW f, Fits(n, f)
  PROVE  Fits(n, f)'
  <1>1. GatewaysOf(f)' = GatewaysOf(f)
    BY SameGatewaysOf
  <1>2. Leaving(f) => Leaving(f)'
    BY <1>1 DEF Leaving
  <1>3. Settling(f) => Settling(f)'
    BY DEF Settling
  <1>4. n < fresh => n < fresh'
    BY DEF Typed, TFresh
  <1>5. (\A g \in Gateway : gateways[g].id # n) => \A g \in Gateway : gateways'[g].id # n
    BY DEF SameGateways
  <1>. QED  BY <1>1, <1>2, <1>3, <1>4, <1>5 DEF Fits

\* A request that holds nothing about a gateway.
Free(j) == j.pc \notin {"release", "remove", "assign"} /\ ~GatewaySaving(j)

LEMMA OtherKindFree ==
  ASSUME Typed, NEW r \in Request, job[r].kind \notin GatewayKinds
  PROVE  Free(job[r])
  BY AtGatewayStep DEF Free, GatewaySaving, GatewaySteps

LEMMA SaveHoldsOn ==
  ASSUME Typed, SameGateways, NEW r \in Request, GatewaySaving(job[r]), SaveHolds(r), job'[r] = job[r]
  PROVE  SaveHolds(r)'
  <1>1. /\ gateways'[job[r].at].id = gateways[job[r].at].id
        /\ gateways'[job[r].at].farm = gateways[job[r].at].farm
    BY GatewayPcs DEF SameGateways
  <1>. QED  BY <1>1 DEF SaveHolds, SameGateways

LEMMA OthersHold ==
  ASSUME Typed, GatewaysHold, SameGateways, fresh <= fresh', fresh' \in Nat,
         NEW r \in Request, job'[r] = job[r]
  PROVE  /\ job'[r].pc \in {"release", "remove"} => DeleteHolds(r)'
         /\ GatewaySaving(job'[r]) => SaveHolds(r)'
         /\ job'[r].pc = "assign" => AssignHolds(r)'
  <1>1. job[r].pc \in {"release", "remove"} => DeleteHolds(r)'
    BY DEF GatewaysHold, DeleteHolds, SameGateways, Typed, TFresh, TJobs, JobType
  <1>2. GatewaySaving(job[r]) => SaveHolds(r)'
    BY SaveHoldsOn DEF GatewaysHold
  <1>3. job[r].pc = "assign" => AssignHolds(r)'
    BY GatewayPcs DEF GatewaysHold, AssignHolds, SameGateways
  <1>. QED  BY <1>1, <1>2, <1>3

LEMMA SameIds ==
  ASSUME GatewaysHold, SameGateways
  PROVE  OwnIds' /\ OnePerFarm'
  BY DEF GatewaysHold, OwnIds, OnePerFarm, SameGateways

\* A step that moves no gateway and brings no request to hold one.
LEMMA HoldOn ==
  ASSUME Typed, GatewaysHold, SameGateways, fresh <= fresh', fresh' \in Nat,
         \A q \in Request : job'[q] = job[q] \/ Free(job'[q])
  PROVE  GatewaysHold'
  <1>1. OwnIds' /\ OnePerFarm'
    BY SameIds
  <1>2. ASSUME NEW q \in Request
        PROVE  /\ job'[q].pc \in {"release", "remove"} => DeleteHolds(q)'
               /\ GatewaySaving(job'[q]) => SaveHolds(q)'
               /\ job'[q].pc = "assign" => AssignHolds(q)'
    <2>1. CASE job'[q] = job[q]
      BY <2>1, OthersHold
    <2>2. CASE Free(job'[q])
      BY <2>2 DEF Free
    <2>. QED  BY <2>1, <2>2
  <1>. QED  BY <1>1, <1>2 DEF GatewaysHold

\* Request r moves on over unmoved gateways.
LEMMA HoldStep ==
  ASSUME Typed, GatewaysHold, SameGateways, fresh <= fresh', fresh' \in Nat, NEW r \in Request, OthersWait(r),
         job'[r].pc \in {"release", "remove"} => DeleteHolds(r)',
         GatewaySaving(job'[r]) => SaveHolds(r)',
         job'[r].pc = "assign" => AssignHolds(r)'
  PROVE  GatewaysHold'
  <1>1. OwnIds' /\ OnePerFarm'
    BY SameIds
  <1>2. ASSUME NEW q \in Request
        PROVE  /\ job'[q].pc \in {"release", "remove"} => DeleteHolds(q)'
               /\ GatewaySaving(job'[q]) => SaveHolds(q)'
               /\ job'[q].pc = "assign" => AssignHolds(q)'
    <2>1. CASE q # r
      BY <2>1, OthersHold DEF OthersWait
    <2>. QED  BY <2>1
  <1>. QED  BY <1>1, <1>2 DEF GatewaysHold

-----------------------------------------------------------------------------
(* Versions. *)

LEMMA VersionType ==
  ASSUME Typed, NEW s \in Serial, NEW x, Version(s, x)
  PROVE  x \in Row(fresh) /\ x.id < fresh /\ x.gateway \in Nat /\ x.farm \in Farm \cup {None}
  <1>1. x \in Row(fresh)
    <2>1. CASE x = devices[s]
      BY <2>1 DEF Typed, TDevices
    <2>2. ASSUME NEW r \in Request, Saving(job[r]), x = job[r].held \/ x = job[r].loaded
          PROVE  x \in Row(fresh)
      BY <2>2, DeviceFacts DEF Saving, DeviceJob
    <2>. QED  BY <2>1, <2>2 DEF Version
  <1>. QED  BY <1>1 DEF Row, Typed, TFresh

\* The gateway of a new version fits where that of an old one did.
Carries(m, n) == \A f \in Farm : Fits(m, f) => Fits(n, f)'

\* A version that takes its farm and its gateway from versions there were.
Derived(s, x) ==
  /\ x.farm # None => \E o : Version(s, o) /\ o.id = x.id /\ o.farm = x.farm
  /\ \E o : Version(s, o) /\ o.id = x.id /\ Carries(o.gateway, x.gateway)

LEMMA AgreeStep ==
  ASSUME Typed, VersionsAgree,
         \A s \in Serial : \A x : Version(s, x)' =>
           Sound(x) /\ (Derived(s, x) \/ (x.farm = None /\ x.id = fresh))
  PROVE  VersionsAgree'
  <1>. SUFFICES ASSUME NEW s \in Serial, NEW x, NEW y, Version(s, x)', Version(s, y)'
                PROVE  Sound(x) /\ Suits(x, y)'
    BY DEF VersionsAgree
  <1>1. Sound(x)
    OBVIOUS
  <1>2. ASSUME x.id = y.id, x.farm # None
        PROVE  Fits(y.gateway, x.farm)' /\ y.farm \in {None, x.farm}
    <2>1. Derived(s, x)
      BY <1>2
    <2>2. PICK a : Version(s, a) /\ a.id = x.id /\ a.farm = x.farm
      BY <1>2, <2>1 DEF Derived
    <2>3. x.id < fresh /\ x.farm \in Farm
      BY <1>2, <2>2, VersionType
    <2>4. Derived(s, y)
      BY <1>2, <2>3 DEF Typed, TFresh
    <2>5. PICK b : Version(s, b) /\ b.id = y.id /\ Carries(b.gateway, y.gateway)
      BY <2>4 DEF Derived
    <2>6. Fits(b.gateway, x.farm)
      BY <1>2, <2>2, <2>5 DEF VersionsAgree, Suits
    <2>7. Fits(y.gateway, x.farm)'
      BY <2>3, <2>5, <2>6 DEF Carries
    <2>8. y.farm \in {None, x.farm}
      <3>1. CASE y.farm = None
        BY <3>1
      <3>2. CASE y.farm # None
        <4>1. PICK c : Version(s, c) /\ c.id = y.id /\ c.farm = y.farm
          BY <2>4, <3>2 DEF Derived
        <4>. QED  BY <1>2, <2>2, <4>1 DEF VersionsAgree, Suits
      <3>. QED  BY <3>1, <3>2
    <2>. QED  BY <2>7, <2>8
  <1>. QED  BY <1>1, <1>2 DEF Suits

\* A version that stays is derived from itself.
LEMMA Itself ==
  ASSUME Typed, VersionsAgree, NEW s \in Serial, NEW x, Version(s, x), Carries(x.gateway, x.gateway)
  PROVE  Sound(x) /\ Derived(s, x)
  BY DEF Derived, VersionsAgree

\* No version is new.
LEMMA AgreeOn ==
  ASSUME Typed, VersionsAgree, UNCHANGED devices, \A n \in Nat : Carries(n, n),
         \A q \in Request : job'[q] = job[q] \/ ~Saving(job'[q])
  PROVE  VersionsAgree'
  <1>1. ASSUME NEW s \in Serial, NEW x, Version(s, x)'
        PROVE  Sound(x) /\ Derived(s, x)
    <2>1. Version(s, x)
      BY <1>1 DEF Version
    <2>. QED  BY <2>1, VersionType, Itself
  <1>. QED  BY <1>1, AgreeStep

LEMMA NewRowsOn ==
  ASSUME NewRows, \A q \in Request : job'[q] = job[q] \/ ~Saving(job'[q])
  PROVE  NewRows'
  BY DEF NewRows

LEMMA PairsFitOn ==
  ASSUME Typed, PairsFit, \A n \in Nat : Carries(n, n),
         \A q \in Request : job'[q] = job[q] \/ job'[q].pc # "pair"
  PROVE  PairsFit'
  <1>. SUFFICES ASSUME NEW q \in Request, NEW n \in Nat, NEW f \in Farm,
                       job'[q].pc = "pair", job'[q].gateway = n, job'[q].farm = f
                PROVE  Fits(n, f)'
    BY DEF PairsFit
  <1>1. Fits(n, f)
    BY DEF PairsFit
  <1>. QED  BY <1>1 DEF Carries

-----------------------------------------------------------------------------
(* Steps that neither write a row nor hold anything of one. *)

PlainPcs == {"idle", "find", "respond", "check", "gateway", "use", "own", "clean", "end"}

LEMMA PlainFree ==
  ASSUME NEW j, j.pc \in PlainPcs
  PROVE  ~Saving(j) /\ j.pc # "pair" /\ Free(j)
  BY DEF PlainPcs, Saving, Free, GatewaySaving

LEMMA CarriesOn ==
  ASSUME Typed, SameGateways, fresh <= fresh', fresh' \in Nat,
         \A q \in Request : job[q].pc \in {"remove", "assign"} => job'[q] = job[q]
  PROVE  \A n \in Nat : Carries(n, n)
  BY FitsOn DEF Carries

LEMMA UnmovedGateways == ASSUME UNCHANGED gateways PROVE SameGateways
  BY DEF SameGateways

LEMMA PlainOn ==
  ASSUME Typed, FarmFacts, UNCHANGED <<devices, gateways>>, fresh <= fresh', fresh' \in Nat,
         \A q \in Request : job'[q] = job[q] \/ (job'[q].pc \in PlainPcs /\ job[q].pc \notin {"remove", "assign"})
  PROVE  FarmFacts'
  <1>1. SameGateways /\ \A n \in Nat : Carries(n, n)
    BY UnmovedGateways, CarriesOn
  <1>2. \A q \in Request : job'[q] = job[q] \/ (~Saving(job'[q]) /\ job'[q].pc # "pair" /\ Free(job'[q]))
    BY PlainFree
  <1>3. GatewaysHold'
    BY <1>1, <1>2, HoldOn DEF FarmFacts
  <1>4. VersionsAgree' /\ NewRows' /\ PairsFit'
    BY <1>1, <1>2, AgreeOn, NewRowsOn, PairsFitOn DEF FarmFacts
  <1>. QED  BY <1>3, <1>4 DEF FarmFacts

LEMMA PlainStep ==
  ASSUME Typed, FarmFacts, UNCHANGED <<devices, gateways>>, Grows, NEW r \in Request, NEW j, Become(r, j),
         j.pc \in PlainPcs, job[r].pc \notin {"remove", "assign"}
  PROVE  FarmFacts'
  <1>1. \A q \in Request : job'[q] = job[q] \/ (job'[q].pc \in PlainPcs /\ job[q].pc \notin {"remove", "assign"})
    BY OthersWaitFor DEF OthersWait
  <1>. QED  BY <1>1, PlainOn DEF Grows

LEMMA PlainFinish ==
  ASSUME Typed, FarmFacts, UNCHANGED <<devices, gateways>>, Grows, NEW r \in Request, Finish(r),
         job[r].pc \notin {"remove", "assign"}
  PROVE  FarmFacts'
  BY PlainStep DEF Finish, Idle, PlainPcs

LEMMA PlainGoto ==
  ASSUME Typed, FarmFacts, UNCHANGED <<devices, gateways>>, Grows, NEW r \in Request, NEW step \in PlainPcs,
         Goto(r, step), job[r].pc \notin {"idle", "remove", "assign"}
  PROVE  FarmFacts'
  <1>. DEFINE j == [job[r] EXCEPT !.pc = step]
  <1>1. DOMAIN job[r] = Fields
    BY DEF Typed, TJobs, JobType
  <1>2. j.pc = step /\ Become(r, j)
    BY <1>1, StepFields DEF Goto
  <1>. HIDE DEF j
  <1>. QED  BY <1>2, PlainStep

LEMMA ArriveFarm ==
  ASSUME Typed, FarmFacts, NEW r \in Request, Arrive(r) \/ ArriveGateway(r)
  PROVE  FarmFacts'
  <1>0. UNCHANGED <<tables, fresh>>
    BY DEF Arrive, ArriveGateway
  <1>1. UNCHANGED <<devices, gateways>> /\ Grows
    BY <1>0 DEF tables, Grows, Typed, TFresh
  <1>2. ASSUME NEW j, Start(r, j), j.pc = "find"
        PROVE  FarmFacts'
    BY <1>1, <1>2, PlainStep DEF Start, PlainPcs
  <1>3. CASE Arrive(r)
    BY <1>2, <1>3 DEF Arrive, Idle
  <1>4. CASE ArriveGateway(r)
    BY <1>2, <1>4 DEF ArriveGateway, Idle
  <1>. QED  BY <1>3, <1>4

LEMMA PlainFarm ==
  ASSUME Typed, FarmFacts, NEW r \in Request,
         \/ GenerateToken(r) \/ Respond(r) \/ PairFind(r) \/ CheckToken(r) \/ UseToken(r) \/ SetOwner(r)
         \/ RemoveFind(r) \/ CleanDeviceData(r) \/ GatewayRespond(r)
  PROVE  FarmFacts'
  <1>1. UNCHANGED <<devices, gateways>> /\ Grows /\ job[r].pc \notin {"idle", "remove", "assign"}
    BY DEF GenerateToken, Respond, PairFind, CheckToken, UseToken, SetOwner, RemoveFind, CleanDeviceData,
       GatewayRespond, OnlyJob, tables, Grows, Typed, TFresh, Finds
  <1>2. DOMAIN job[r] = Fields
    BY DEF Typed, TJobs, JobType
  <1>3. CASE Finish(r)
    BY <1>1, <1>3, PlainFinish
  <1>4. CASE GenerateToken(r) /\ ~Finish(r)
    <2>1. Become(r, [job[r] EXCEPT !.pc = "respond", !.token = fresh])
      BY <1>4 DEF GenerateToken
    <2>2. [job[r] EXCEPT !.pc = "respond", !.token = fresh].pc \in PlainPcs
      BY <1>2 DEF Fields, PlainPcs
    <2>. QED  BY <1>1, <2>1, <2>2, PlainStep
  <1>5. CASE PairFind(r) /\ ~Finish(r)
    <2>1. Become(r, [job[r] EXCEPT !.pc = "check", !.held = Found(r)])
      BY <1>5 DEF PairFind
    <2>2. [job[r] EXCEPT !.pc = "check", !.held = Found(r)].pc \in PlainPcs
      BY <1>2 DEF Fields, PlainPcs
    <2>. QED  BY <1>1, <2>1, <2>2, PlainStep
  <1>6. CASE RemoveFind(r) /\ ~Finish(r)
    <2>1. Become(r, [job[r] EXCEPT !.pc = "clean", !.held = Found(r)])
      BY <1>6 DEF RemoveFind
    <2>2. [job[r] EXCEPT !.pc = "clean", !.held = Found(r)].pc \in PlainPcs
      BY <1>2 DEF Fields, PlainPcs
    <2>. QED  BY <1>1, <2>1, <2>2, PlainStep
  <1>7. ASSUME NEW step \in {"gateway", "own", "end"}, Goto(r, step)
        PROVE  FarmFacts'
    <2>1. step \in PlainPcs
      BY DEF PlainPcs
    <2>. QED  BY <1>1, <1>7, <2>1, PlainGoto
  <1>8. CASE CheckToken(r) /\ ~Finish(r)
    <2>1. Goto(r, "gateway")
      BY <1>8 DEF CheckToken
    <2>. QED  BY <1>7, <2>1
  <1>9. CASE UseToken(r) \/ CleanDeviceData(r)
    <2>1. Goto(r, "own") \/ Goto(r, "end")
      BY <1>9 DEF UseToken, CleanDeviceData
    <2>. QED  BY <1>7, <2>1
  <1>10. CASE Respond(r) \/ SetOwner(r) \/ GatewayRespond(r)
    BY <1>3, <1>10 DEF Respond, SetOwner, GatewayRespond
  <1>. QED  BY <1>3, <1>4, <1>5, <1>6, <1>8, <1>9, <1>10

LEMMA OtherFarm ==
  ASSUME Typed, FarmFacts, Calm',
         \/ UNCHANGED vars
         \/ \E s \in Serial : Expire(s)
         \/ Administer
         \/ RequestFails \/ Crash
  PROVE  FarmFacts'
  <1>0. fresh \in Nat
    BY DEF Typed, TFresh
  <1>1. CASE UNCHANGED vars
    BY <1>0, <1>1, PlainOn DEF vars, tables
  <1>2. CASE (\E s \in Serial : Expire(s)) \/ Administer
    BY <1>0, <1>2, PlainOn DEF Expire, Administer, DeleteTokens
  <1>3. ASSUME NEW R, R \subseteq Request, Fail(R)
        PROVE  FarmFacts'
    <2>1. \A q \in R : job[q].kind \notin {"gateway_pair", "gateway_delete"}
      BY <1>3 DEF Fail, Calm, Met
    <2>2. \A q \in R : job[q].pc \notin {"remove", "assign"}
      BY <1>3, <2>1, GatewayPcs
    <2>3. UNCHANGED <<devices, gateways, fresh>>
      BY <1>3 DEF Fail, tables
    <2>4. \A q \in Request : job'[q] = job[q] \/ (job'[q].pc \in PlainPcs /\ job[q].pc \notin {"remove", "assign"})
      BY <1>3, <2>2 DEF Fail, Idle, PlainPcs
    <2>. QED  BY <1>0, <2>3, <2>4, PlainOn
  <1>. QED  BY <1>1, <1>2, <1>3 DEF RequestFails, Crash

-----------------------------------------------------------------------------
(* Steps of requests about gateways. *)

\* A step of r over gateways that stay as they are.
LEMMA GatewayMoves ==
  ASSUME Typed, FarmFacts, SameGateways, UNCHANGED devices, Grows, NEW r \in Request, OthersWait(r),
         job'[r].kind \in GatewayKinds, job'[r].pc # "pair", job[r].pc \notin {"remove", "assign"},
         job'[r].pc \in {"release", "remove"} => DeleteHolds(r)',
         GatewaySaving(job'[r]) => SaveHolds(r)',
         job'[r].pc = "assign" => AssignHolds(r)'
  PROVE  FarmFacts'
  <1>1. \A n \in Nat : Carries(n, n)
    BY CarriesOn DEF OthersWait, Grows
  <1>2. GatewaysHold'
    BY HoldStep DEF FarmFacts, Grows
  <1>3. ~Saving(job'[r])
    BY DEF Saving, DeviceKinds, GatewayKinds
  <1>4. VersionsAgree' /\ NewRows' /\ PairsFit'
    BY <1>1, <1>3, AgreeOn, NewRowsOn, PairsFitOn DEF FarmFacts, OthersWait
  <1>. QED  BY <1>2, <1>4 DEF FarmFacts

LEMMA ProvisionHolds ==
  ASSUME Typed, FarmFacts, NEW r \in Request, GatewayProvisionFind(r)
  PROVE  FarmFacts'
  <1>. DEFINE row == gateways[job[r].at]
              held == [row EXCEPT !.token = fresh, !.used = FALSE]
              j == [job[r] EXCEPT !.pc = IF row.id = 0 THEN "write" ELSE "load", !.token = fresh,
                      !.held = held, !.loaded = NoGateway]
  <1>0. job[r].pc = "find" /\ job[r].kind = "gateway_provision" /\ job[r].kind \in GatewayKinds
    BY DEF GatewayProvisionFind, Finds, GatewayKinds
  <1>1. UNCHANGED <<devices, gateways>> /\ fresh' = fresh + 1 /\ Become(r, j)
    BY DEF GatewayProvisionFind, tables
  <1>2. fresh <= fresh' /\ fresh' \in Nat
    BY <1>1 DEF Typed, TFresh
  <1>3. row \in GatewayRow(fresh) /\ (row.id = 0 => row.farm = None) /\ job[r].at \in Gateway
    BY <1>0, GatewayFacts DEF NoGateway
  <1>4. held.id = row.id /\ held.farm = row.farm
    BY <1>3 DEF GatewayRow
  <1>. HIDE DEF held
  <1>5. /\ j.pc = (IF row.id = 0 THEN "write" ELSE "load") /\ j.kind = "gateway_provision"
        /\ j.at = job[r].at /\ j.held = held /\ j.loaded = NoGateway
    BY <1>0, GatewayFacts DEF Fields
  <1>. HIDE DEF j
  <1>6. OthersWait(r) /\ job'[r] = j
    BY <1>1, OthersWaitFor
  <1>7. SaveHolds(r)'
    BY <1>1, <1>3, <1>4, <1>5, <1>6 DEF SaveHolds
  <1>8. SameGateways /\ Grows
    BY <1>1, <1>2, UnmovedGateways DEF Grows
  <1>. QED  BY <1>0, <1>1, <1>5, <1>6, <1>7, <1>8, GatewayMoves

LEMMA GatewayPairHolds ==
  ASSUME Typed, FarmFacts, Calm', NEW r \in Request, GatewayPairFind(r)
  PROVE  FarmFacts'
  <1>0. /\ job[r].pc = "find" /\ job[r].kind = "gateway_pair" /\ Grows /\ UNCHANGED <<devices, gateways>>
        /\ job[r].kind \in GatewayKinds
    BY GatewayPairForms DEF tables, GatewayKinds
  <1>1. CASE Finish(r)
    BY <1>0, <1>1, PlainFinish
  <1>2. CASE ~Finish(r)
    <2>1. PICK g \in Gateway :
            /\ gateways[g].token = job[r].token
            /\ gateways[g].farm \notin {None, job[r].farm} => {"gateway_pair", "move"} \in met'
            /\ GatewaysOf(job[r].farm) \ {gateways[g].id} # {} => {"gateway_pair", "move"} \in met'
            /\ Become(r, [job[r] EXCEPT !.pc = "load", !.at = g, !.loaded = NoGateway,
                            !.held = [gateways[g] EXCEPT !.farm = job[r].farm, !.cred = fresh, !.used = TRUE]])
      BY <1>2, GatewayPairForms
    <2>2. {"gateway_pair", "move"} \notin met'
      BY DEF Calm, Met
    <2>3. gateways[g].farm \in {None, job[r].farm} /\ GatewaysOf(job[r].farm) \ {gateways[g].id} = {}
      BY <2>1, <2>2
    <2>4. \A h \in Gateway : gateways[h].farm = job[r].farm => gateways[h].id = gateways[g].id
      BY <2>3 DEF GatewaysOf
    <2>5. gateways[g] \in GatewayRow(fresh) /\ gateways[g].id # 0
      <3>1. job[r].token # 0
        BY <1>0, GatewayFacts DEF GatewayJob
      <3>2. gateways[g].id = 0 => gateways[g] = NoGateway
        BY DEF Typed, TGateways
      <3>3. NoGateway.token = 0
        BY DEF NoGateway
      <3>. QED  BY <2>1, <3>1, <3>2, <3>3 DEF Typed, TGateways
    <2>. DEFINE held == [gateways[g] EXCEPT !.farm = job[r].farm, !.cred = fresh, !.used = TRUE]
                j == [job[r] EXCEPT !.pc = "load", !.at = g, !.loaded = NoGateway, !.held = held]
    <2>6. held.id = gateways[g].id /\ held.farm = job[r].farm
      BY <2>5 DEF GatewayRow
    <2>7. Become(r, j)
      BY <2>1
    <2>. HIDE DEF held
    <2>8. /\ j.pc = "load" /\ j.kind = "gateway_pair" /\ j.at = g /\ j.held = held /\ j.farm = job[r].farm
      BY <1>0, GatewayFacts DEF Fields
    <2>. HIDE DEF j
    <2>9. OthersWait(r) /\ job'[r] = j
      BY <2>7, OthersWaitFor
    <2>10. SaveHolds(r)'
      BY <1>0, <2>3, <2>4, <2>5, <2>6, <2>8, <2>9 DEF SaveHolds
    <2>11. SameGateways
      BY <1>0, UnmovedGateways
    <2>. QED  BY <1>0, <2>8, <2>9, <2>10, <2>11, GatewayMoves
  <1>. QED  BY <1>1, <1>2

LEMMA LoadGatewayHolds ==
  ASSUME Typed, FarmFacts, NEW r \in Request, LoadGateway(r)
  PROVE  FarmFacts'
  <1>. DEFINE row == gateways[job[r].at]
              j == [job[r] EXCEPT !.pc = "write",
                      !.loaded = IF row.id = job[r].held.id THEN row ELSE NoGateway]
  <1>0. job[r].pc = "load" /\ job[r].kind \in GatewayKinds /\ Become(r, j) /\ UNCHANGED <<devices, gateways>> /\ Grows
    BY DEF LoadGateway, OnlyJob, tables, Grows, Typed, TFresh
  <1>1. job[r].held.id # 0 /\ GatewaySaving(job[r]) /\ SaveHolds(r)
    BY <1>0, GatewayFacts DEF GatewayJob, GatewaySaving, FarmFacts, GatewaysHold
  <1>2. row.id = job[r].held.id /\ row # NoGateway
    BY <1>1 DEF SaveHolds, NoGateway
  <1>3. /\ j.pc = "write" /\ j.kind = job[r].kind /\ j.at = job[r].at /\ j.farm = job[r].farm
        /\ j.held = job[r].held /\ j.loaded = row
    BY <1>0, <1>2, GatewayFacts DEF Fields
  <1>. HIDE DEF j
  <1>4. OthersWait(r) /\ job'[r] = j
    BY <1>0, OthersWaitFor
  <1>5. SaveHolds(r)'
    BY <1>0, <1>1, <1>2, <1>3, <1>4 DEF SaveHolds
  <1>6. SameGateways
    BY <1>0, UnmovedGateways
  <1>. QED  BY <1>0, <1>3, <1>4, <1>5, <1>6, GatewayMoves

LEMMA DeleteFindHolds ==
  ASSUME Typed, FarmFacts, NEW r \in Request, DeleteFind(r)
  PROVE  FarmFacts'
  <1>. DEFINE row == gateways[job[r].at]
              j == [job[r] EXCEPT !.pc = "release", !.gateway = row.id]
  <1>0. /\ job[r].pc = "find" /\ job[r].kind \in GatewayKinds /\ UNCHANGED <<devices, gateways>> /\ Grows
        /\ fresh' = fresh
    BY DEF DeleteFind, Finds, GatewayKinds, OnlyJob, tables, Grows, Typed, TFresh
  <1>1. CASE row = NoGateway
    BY <1>0, <1>1, PlainFinish DEF DeleteFind
  <1>2. CASE row # NoGateway
    <2>1. Become(r, j)
      BY <1>2 DEF DeleteFind
    <2>2. row.id # 0 /\ row.id < fresh /\ job[r].at \in Gateway
      BY <1>0, <1>2, GatewayFacts DEF GatewayRow, Typed, TFresh
    <2>3. j.pc = "release" /\ j.kind = job[r].kind /\ j.at = job[r].at /\ j.gateway = row.id
      BY <1>0, GatewayFacts DEF Fields
    <2>. HIDE DEF j
    <2>4. OthersWait(r) /\ job'[r] = j
      BY <2>1, OthersWaitFor
    <2>5. DeleteHolds(r)'
      BY <1>0, <2>2, <2>3, <2>4 DEF DeleteHolds, FarmFacts, GatewaysHold, OwnIds
    <2>6. SameGateways
      BY <1>0, UnmovedGateways
    <2>. QED  BY <1>0, <2>3, <2>4, <2>5, <2>6, GatewayMoves DEF GatewaySaving
  <1>. QED  BY <1>1, <1>2

\* After its write the request of a gateway assigns or responds.
LEMMA AfterGateway ==
  ASSUME Typed, NEW r \in Request, job[r].kind \in GatewayKinds, NEW id, AfterGatewayWrite(r, id)
  PROVE  /\ OthersWait(r) /\ job'[r].pc = (IF job[r].kind = "gateway_pair" THEN "assign" ELSE "respond")
         /\ job'[r].kind = job[r].kind /\ job'[r].at = job[r].at /\ job'[r].farm = job[r].farm
         /\ job'[r].gateway = id
  <1>. DEFINE j == [job[r] EXCEPT !.pc = IF job[r].kind = "gateway_pair" THEN "assign" ELSE "respond",
                      !.gateway = id]
  <1>1. Become(r, j)
    BY DEF AfterGatewayWrite
  <1>2. /\ j.pc = (IF job[r].kind = "gateway_pair" THEN "assign" ELSE "respond")
        /\ j.kind = job[r].kind /\ j.at = job[r].at /\ j.farm = job[r].farm /\ j.gateway = id
    BY GatewayFacts DEF Fields
  <1>. HIDE DEF j
  <1>. QED  BY <1>1, <1>2, OthersWaitFor

LEMMA InsertGatewayHolds ==
  ASSUME Typed, Calm, FarmFacts, NEW r \in Request, InsertGateway(r)
  PROVE  FarmFacts'
  <1>. DEFINE held == job[r].held
              at == job[r].at
              id == IF held.id = 0 THEN fresh ELSE held.id
              row == [held EXCEPT !.id = id]
  <1>0. job[r].pc = "write" /\ job[r].kind \in GatewayKinds /\ job[r].loaded = NoGateway /\ UNCHANGED devices
    BY DEF InsertGateway
  <1>1. SaveHolds(r) /\ GatewaySaving(job[r]) /\ job[r].kind \in {"gateway_provision", "gateway_pair"}
        /\ at \in Gateway /\ held \in GatewayRow(fresh)
    BY <1>0, GatewayFacts DEF GatewaySaving, FarmFacts, GatewaysHold, GatewayJob
  <1>2. held.id = 0 /\ held.farm = None /\ job[r].kind = "gateway_provision"
    BY <1>0, <1>1 DEF SaveHolds
  <1>3. CASE gateways[at] # NoGateway
    <2>1. UNCHANGED gateways /\ Grows /\ Finish(r)
      BY <1>3 DEF InsertGateway, Grows, Typed, TFresh
    <2>. QED  BY <1>0, <2>1, PlainFinish
  <1>4. CASE gateways[at] = NoGateway
    <2>1. gateways' = [gateways EXCEPT ![at] = row] /\ fresh' = fresh + 1 /\ AfterGatewayWrite(r, id)
      BY <1>4 DEF InsertGateway
    <2>2. id = fresh /\ fresh \in Nat /\ fresh' \in Nat /\ fresh < fresh' /\ fresh <= fresh' /\ fresh # 0
      BY <1>2, <2>1 DEF Typed, TFresh
    <2>. HIDE DEF id
    <2>3. row.id = fresh /\ row.farm = None
      BY <1>1, <1>2, <2>2 DEF GatewayRow
    <2>. HIDE DEF row
    <2>4. /\ \A g \in Gateway : g # at => gateways'[g] = gateways[g]
          /\ gateways'[at].id = fresh /\ gateways'[at].farm = None
          /\ gateways[at].id = 0 /\ gateways[at].farm = None
      BY <1>1, <1>4, <2>1, <2>3 DEF Typed, TGateways, NoGateway
    <2>5. \A g \in Gateway : gateways[g].id \in Nat /\ gateways[g].id < fresh
      BY <2>2 DEF Typed, TGateways, GatewayRow
    <2>6. /\ OthersWait(r) /\ job'[r].pc = "respond" /\ job'[r].kind = "gateway_provision"
      BY <1>0, <1>2, <2>1, AfterGateway
    <2>7. \A f \in Farm : GatewaysOf(f)' = GatewaysOf(f)
      <3>. SUFFICES ASSUME NEW f \in Farm PROVE GatewaysOf(f)' = GatewaysOf(f)
        OBVIOUS
      <3>1. f # None
        BY ConstantsAssumption
      <3>. QED  BY <1>1, <2>4, <3>1 DEF GatewaysOf
    <2>8. ASSUME NEW n \in Nat, NEW f \in Farm, Fits(n, f)
          PROVE  Fits(n, f)'
      <3>1. (Leaving(f) => Leaving(f)') /\ (Settling(f) => Settling(f)')
        BY <1>0, <2>6, <2>7 DEF Leaving, Settling, OthersWait
      <3>2. n < fresh /\ (\A g \in Gateway : gateways[g].id # n) => n < fresh' /\ \A g \in Gateway : gateways'[g].id # n
        BY <2>2, <2>4
      <3>. QED  BY <2>7, <2>8, <3>1, <3>2 DEF Fits
    <2>9. \A n \in Nat : Carries(n, n)
      BY <2>8 DEF Carries
    <2>10. OwnIds' /\ OnePerFarm'
      BY <2>4, <2>5 DEF FarmFacts, GatewaysHold, OwnIds, OnePerFarm
    <2>11. ASSUME NEW q \in Request, q # r
           PROVE  /\ job[q].pc \in {"release", "remove"} => DeleteHolds(q)'
                  /\ GatewaySaving(job[q]) => SaveHolds(q)'
                  /\ job[q].pc = "assign" => AssignHolds(q)'
      <3>0. job'[q] = job[q] /\ job[q].gateway \in Nat
        BY <2>6, <2>11 DEF OthersWait, Typed, TJobs, JobType
      <3>1. job[q].pc \in {"release", "remove"} => DeleteHolds(q)'
        BY <2>2, <2>4, <3>0 DEF DeleteHolds, FarmFacts, GatewaysHold
      <3>2. ASSUME GatewaySaving(job[q])
            PROVE  SaveHolds(q)'
        <4>1. SaveHolds(q) /\ job[q].at \in Gateway /\ job[q].kind = "gateway_provision"
          <5>1. job[q].kind # "gateway_pair"
            BY <1>0, <2>11, <3>2, CalmApart, GatewayPcs DEF GatewayKinds
          <5>. QED  BY <3>2, <5>1, GatewayPcs DEF FarmFacts, GatewaysHold
        <4>2. job[q].held.id # 0 => job[q].at # at
          BY <2>4, <4>1 DEF SaveHolds
        <4>. QED  BY <2>4, <3>0, <4>1, <4>2 DEF SaveHolds
      <3>3. job[q].pc # "assign"
        BY <1>0, <2>11, CalmApart, GatewayPcs
      <3>. QED  BY <3>1, <3>2, <3>3
    <2>12. GatewaysHold'
      BY <2>6, <2>10, <2>11 DEF GatewaysHold, OthersWait, GatewaySaving
    <2>13. ~Saving(job'[r]) /\ job'[r].pc # "pair"
      BY <2>6 DEF Saving, DeviceKinds
    <2>14. VersionsAgree' /\ NewRows' /\ PairsFit'
      BY <1>0, <2>6, <2>9, <2>13, AgreeOn, NewRowsOn, PairsFitOn DEF FarmFacts, OthersWait
    <2>. QED  BY <2>12, <2>14 DEF FarmFacts
  <1>. QED  BY <1>3, <1>4

LEMMA UpdateGatewayHolds ==
  ASSUME Typed, Calm, FarmFacts, NEW r \in Request, UpdateGateway(r)
  PROVE  FarmFacts'
  <1>. DEFINE held == job[r].held
              loaded == job[r].loaded
              at == job[r].at
              row == gateways[at]
              new == Merge(row, held, loaded)
  <1>0. /\ job[r].pc = "write" /\ job[r].kind \in GatewayKinds /\ loaded # NoGateway /\ UNCHANGED <<devices, fresh>>
        /\ AfterGatewayWrite(r, held.id)
    BY DEF UpdateGateway
  <1>1. /\ SaveHolds(r) /\ job[r].kind \in {"gateway_provision", "gateway_pair"} /\ at \in Gateway
        /\ held \in GatewayRow(fresh) /\ loaded \in GatewayRow(fresh) /\ row \in GatewayRow(fresh)
        /\ loaded.id = held.id /\ held.id # 0
    BY <1>0, GatewayFacts DEF GatewaySaving, FarmFacts, GatewaysHold, GatewayJob
  <1>2. row.id = held.id /\ loaded.farm = row.farm
    BY <1>0, <1>1 DEF SaveHolds
  <1>3. gateways' = [gateways EXCEPT ![at] = new]
    BY <1>2 DEF UpdateGateway
  <1>4. new.id = row.id /\ new.farm = (IF held.farm # row.farm THEN held.farm ELSE row.farm)
    <2>1. new.id = IF held.id # loaded.id THEN held.id ELSE row.id
      BY <1>1, MergeGateway
    <2>2. new.farm = IF held.farm # loaded.farm THEN held.farm ELSE row.farm
      BY <1>1, MergeGateway
    <2>. QED  BY <1>1, <1>2, <2>1, <2>2
  <1>5. new.farm = held.farm
    BY <1>4
  <1>. HIDE DEF new
  <1>6. /\ \A g \in Gateway : gateways'[g].id = gateways[g].id
        /\ \A g \in Gateway : g # at => gateways'[g].farm = gateways[g].farm
        /\ gateways'[at].farm = held.farm
    BY <1>1, <1>3, <1>4, <1>5 DEF Typed, TGateways
  <1>7. Grows
    BY <1>0 DEF Grows, Typed, TFresh
  <1>8. /\ OthersWait(r) /\ job'[r].pc = (IF job[r].kind = "gateway_pair" THEN "assign" ELSE "respond")
        /\ job'[r].kind = job[r].kind /\ job'[r].at = at /\ job'[r].farm = job[r].farm
        /\ job'[r].gateway = held.id
    BY <1>0, AfterGateway
  <1>9. CASE job[r].kind = "gateway_provision"
    <2>1. held.farm = row.farm
      BY <1>1, <1>9 DEF SaveHolds
    <2>2. SameGateways
      BY <1>6, <2>1 DEF SameGateways
    <2>. QED  BY <1>0, <1>7, <1>8, <1>9, <2>2, GatewayMoves DEF GatewaySaving
  <1>10. CASE job[r].kind = "gateway_pair"
    <2>1. /\ held.farm = job[r].farm /\ row.farm \in {None, job[r].farm}
          /\ \A g \in Gateway : gateways[g].farm = job[r].farm => gateways[g].id = row.id
      BY <1>1, <1>10 DEF SaveHolds
    <2>2. \A q \in Request : q # r => job[q].pc = "idle"
      BY <1>10, PairingAlone
    <2>3. \A f \in Farm : f # job[r].farm => GatewaysOf(f)' = GatewaysOf(f)
      <3>. SUFFICES ASSUME NEW f \in Farm, f # job[r].farm PROVE GatewaysOf(f)' = GatewaysOf(f)
        OBVIOUS
      <3>1. f # None
        BY ConstantsAssumption
      <3>. QED  BY <1>6, <2>1, <3>1 DEF GatewaysOf
    <2>4. Settling(job[r].farm)'
      BY <1>8, <1>10 DEF Settling
    <2>5. ASSUME NEW n \in Nat, NEW f \in Farm, Fits(n, f)
          PROVE  Fits(n, f)'
      <3>1. CASE f = job[r].farm
        <4>1. Settling(f)'
          BY <1>8, <1>10, <3>1 DEF Settling
        <4>. QED  BY <4>1 DEF Fits
      <3>2. CASE f # job[r].farm
        <4>1. ~Leaving(f) /\ ~Settling(f)
          BY <1>0, <2>2 DEF Leaving, Settling
        <4>. QED  BY <1>0, <1>6, <2>3, <2>5, <3>2, <4>1 DEF Fits
      <3>. QED  BY <3>1, <3>2
    <2>6. \A n \in Nat : Carries(n, n)
      BY <2>5 DEF Carries
    <2>7. OwnIds' /\ OnePerFarm'
      <3>1. OwnIds'
        BY <1>6 DEF FarmFacts, GatewaysHold, OwnIds
      <3>2. \A g \in Gateway : gateways[g].farm = job[r].farm => g = at
        BY <1>1, <1>2, <2>1 DEF FarmFacts, GatewaysHold, OwnIds
      <3>3. OnePerFarm'
        BY <1>6, <2>1, <3>2 DEF FarmFacts, GatewaysHold, OnePerFarm
      <3>. QED  BY <3>1, <3>3
    <2>8. AssignHolds(r)'
      BY <1>1, <1>2, <1>6, <1>8, <2>1 DEF AssignHolds
    <2>9. GatewaysHold'
      BY <1>8, <1>10, <2>2, <2>7, <2>8 DEF GatewaysHold, OthersWait, GatewaySaving
    <2>10. ~Saving(job'[r]) /\ job'[r].pc # "pair"
      BY <1>8, <1>10 DEF Saving, DeviceKinds
    <2>11. VersionsAgree' /\ NewRows' /\ PairsFit'
      BY <1>0, <1>8, <2>6, <2>10, AgreeOn, NewRowsOn, PairsFitOn DEF FarmFacts, OthersWait
    <2>. QED  BY <2>9, <2>11 DEF FarmFacts
  <1>. QED  BY <1>1, <1>9, <1>10

\* A job that goes to another step.
LEMMA Moved ==
  ASSUME Typed, NEW r \in Request, job[r].pc # "idle", NEW step, Goto(r, step)
  PROVE  /\ OthersWait(r) /\ job'[r].pc = step /\ job'[r].kind = job[r].kind /\ job'[r].at = job[r].at
         /\ job'[r].farm = job[r].farm /\ job'[r].gateway = job[r].gateway
  <1>. DEFINE j == [job[r] EXCEPT !.pc = step]
  <1>1. DOMAIN job[r] = Fields
    BY DEF Typed, TJobs, JobType
  <1>2. /\ Become(r, j) /\ j.pc = step /\ j.kind = job[r].kind /\ j.at = job[r].at
        /\ j.farm = job[r].farm /\ j.gateway = job[r].gateway
    BY <1>1, StepFields DEF Goto
  <1>. HIDE DEF j
  <1>. QED  BY <1>2, OthersWaitFor

\* The devices of a farm are assigned while nothing else is in flight.
LEMMA AssignFarm ==
  ASSUME Typed, Calm, FarmFacts, NEW r \in Request, AssignDevices(r)
  PROVE  FarmFacts'
  <1>. DEFINE f == job[r].farm
              n == job[r].gateway
  <1>0. job[r].pc = "assign" /\ UNCHANGED <<gateways, fresh>> /\ SameGateways /\ Grows
    BY UnmovedGateways DEF AssignDevices, Grows, Typed, TFresh
  <1>1. /\ job[r].kind = "gateway_pair" /\ job[r].at \in Gateway /\ AssignHolds(r) /\ f \in Farm /\ f # None
        /\ n \in Nat
    <2>1. job[r].kind = "gateway_pair" /\ job[r].at \in Gateway /\ AssignHolds(r)
      BY <1>0, GatewayPcs DEF FarmFacts, GatewaysHold
    <2>2. job[r].farm \in Farm /\ job[r].gateway \in Nat
      BY <2>1, GatewayFacts DEF GatewayKinds, GatewayJob, JobType
    <2>. QED  BY <2>1, <2>2, ConstantsAssumption
  <1>2. \A q \in Request : q # r => job[q].pc = "idle"
    BY <1>1, PairingAlone
  <1>3. WriteDevices(Assigned(f, n)) /\ Goto(r, "respond")
    BY <1>1 DEF AssignDevices, AssignHolds
  <1>4. OthersWait(r) /\ job'[r].pc = "respond" /\ job'[r].kind = "gateway_pair"
    BY <1>0, <1>1, <1>3, Moved
  <1>5. \A q \in Request : /\ ~Saving(job'[q]) /\ job'[q].pc # "pair" /\ Free(job'[q])
    BY <1>2, <1>4 DEF OthersWait, Saving, Free, GatewaySaving
  <1>6. /\ SameButGateway(devices')
        /\ \A s \in Serial : devices'[s].gateway = IF devices[s].farm = f THEN n ELSE devices[s].gateway
    BY <1>1, <1>3, AssignedRows DEF WriteDevices
  <1>7. ASSUME NEW s \in Serial, NEW x, Version(s, x)'
        PROVE  Sound(x) /\ Suits(x, x)'
    <2>1. x = devices'[s] /\ x.id # 0
      BY <1>5, <1>7 DEF Version
    <2>2. /\ x.id = devices[s].id /\ x.status = devices[s].status /\ x.farm = devices[s].farm
          /\ x.gateway = IF devices[s].farm = f THEN n ELSE devices[s].gateway
      BY <1>6, <2>1 DEF SameButGateway
    <2>. DEFINE o == devices[s]
    <2>3. Version(s, o)
      BY <2>1, <2>2 DEF Version
    <2>4. Sound(o) /\ Suits(o, o) /\ o.gateway \in Nat
      BY <2>3, VersionType DEF FarmFacts, VersionsAgree
    <2>5. ASSUME x.farm # None
          PROVE  Fits(x.gateway, x.farm)'
      <3>1. CASE o.farm = f
        <4>1. x.gateway \in GatewaysOf(x.farm)
          BY <1>1, <2>2, <3>1 DEF AssignHolds, GatewaysOf
        <4>2. x.gateway \in GatewaysOf(x.farm)'
          BY <1>0, <4>1, SameGatewaysOf
        <4>. QED  BY <4>2 DEF Fits
      <3>2. CASE o.farm # f
        <4>1. Fits(x.gateway, x.farm)
          BY <2>2, <2>4, <2>5, <3>2 DEF Suits
        <4>2. ~Leaving(x.farm) /\ ~Settling(x.farm)
          BY <1>0, <1>2, <2>2, <3>2 DEF Leaving, Settling
        <4>3. GatewaysOf(x.farm)' = GatewaysOf(x.farm)
          BY <1>0, SameGatewaysOf
        <4>. QED  BY <1>0, <4>1, <4>2, <4>3 DEF Fits
      <3>. QED  BY <3>1, <3>2
    <2>. QED  BY <2>2, <2>4, <2>5 DEF Sound, Suits
  <1>8. VersionsAgree'
    <2>1. \A s \in Serial : \A x, y : Version(s, x)' /\ Version(s, y)' => x = y
      BY <1>5 DEF Version
    <2>. QED  BY <1>7, <2>1 DEF VersionsAgree
  <1>9. NewRows' /\ PairsFit'
    BY <1>5 DEF NewRows, PairsFit
  <1>10. GatewaysHold'
    BY <1>0, <1>5, HoldOn DEF FarmFacts, Grows
  <1>. QED  BY <1>8, <1>9, <1>10 DEF FarmFacts

\* Some rows lose their gateway.
LEMMA ReleasedAgree ==
  ASSUME Typed, VersionsAgree, NEW id \in Nat, WriteDevices(Released(id)),
         \A n \in Nat : Carries(n, n), (\E s \in Serial : devices[s].gateway = id) => Carries(id, 0),
         \A q \in Request : job'[q] = job[q] \/ ~Saving(job'[q])
  PROVE  VersionsAgree'
  <1>1. /\ SameButGateway(devices')
        /\ \A s \in Serial : devices'[s].gateway = IF devices[s].gateway = id THEN 0 ELSE devices[s].gateway
    BY ReleasedRows DEF WriteDevices
  <1>2. ASSUME NEW s \in Serial, NEW x, Version(s, x)'
        PROVE  Sound(x) /\ Derived(s, x)
    <2>1. CASE Version(s, x)
      BY <2>1, VersionType, Itself
    <2>2. CASE ~Version(s, x)
      <3>1. x = devices'[s] /\ x.id # 0
        BY <1>2, <2>2 DEF Version
      <3>. DEFINE o == devices[s]
      <3>2. /\ x.id = o.id /\ x.status = o.status /\ x.farm = o.farm
            /\ x.gateway = IF o.gateway = id THEN 0 ELSE o.gateway
        BY <1>1, <3>1 DEF SameButGateway
      <3>3. Version(s, o)
        BY <3>1, <3>2 DEF Version
      <3>4. Sound(o) /\ o.gateway \in Nat
        BY <3>3, VersionType DEF VersionsAgree
      <3>5. Carries(o.gateway, x.gateway)
        BY <3>2, <3>4
      <3>. QED  BY <3>2, <3>3, <3>4, <3>5 DEF Sound, Derived
    <2>. QED  BY <2>1, <2>2
  <1>. QED  BY <1>2, AgreeStep

LEMMA ReleaseFarm ==
  ASSUME Typed, FarmFacts, NEW r \in Request, ReleaseDevices(r)
  PROVE  FarmFacts'
  <1>. DEFINE id == job[r].gateway
  <1>0. /\ job[r].pc = "release" /\ UNCHANGED <<gateways, fresh>> /\ SameGateways /\ Grows
        /\ WriteDevices(Released(id)) /\ Goto(r, "remove")
    BY UnmovedGateways DEF ReleaseDevices, Grows, Typed, TFresh
  <1>1. job[r].kind = "gateway_delete" /\ DeleteHolds(r) /\ id \in Nat
    BY <1>0, GatewayPcs DEF FarmFacts, GatewaysHold, Typed, TJobs, JobType
  <1>2. /\ OthersWait(r) /\ job'[r].pc = "remove" /\ job'[r].kind = "gateway_delete"
        /\ job'[r].at = job[r].at /\ job'[r].gateway = id
    BY <1>0, <1>1, Moved
  <1>3. \A n \in Nat : Carries(n, n)
    BY <1>0, <1>2, CarriesOn DEF OthersWait, Grows
  <1>4. ASSUME NEW s \in Serial, devices[s].gateway = id, NEW f \in Farm, Fits(id, f)
        PROVE  Fits(0, f)'
    <2>1. GatewaysOf(f)' = GatewaysOf(f)
      BY <1>0, SameGatewaysOf
    <2>2. CASE id \in GatewaysOf(f)
      <3>1. id \in GatewaysOf(f)'
        BY <2>1, <2>2
      <3>2. Leaving(f)'
        BY <1>2, <3>1 DEF Leaving
      <3>. QED  BY <3>2 DEF Fits
    <2>3. CASE Settling(f)
      <3>1. Settling(f)'
        BY <1>0, <1>2, <2>3 DEF Settling, OthersWait
      <3>. QED  BY <3>1 DEF Fits
    <2>4. id # 0 /\ \E g \in Gateway : gateways[g].id = id
      BY <1>1, <1>4 DEF DeleteHolds, Typed, TDevices, Dangling
    <2>. QED  BY <1>4, <2>2, <2>3, <2>4 DEF Fits
  <1>5. (\E s \in Serial : devices[s].gateway = id) => Carries(id, 0)
    BY <1>4 DEF Carries
  <1>6. ~Saving(job'[r]) /\ job'[r].pc # "pair" /\ ~GatewaySaving(job'[r])
    BY <1>2 DEF Saving, GatewaySaving, DeviceKinds
  <1>7. VersionsAgree'
    BY <1>0, <1>1, <1>2, <1>3, <1>5, <1>6, ReleasedAgree DEF FarmFacts, OthersWait
  <1>8. NewRows' /\ PairsFit'
    BY <1>2, <1>3, <1>6, NewRowsOn, PairsFitOn DEF FarmFacts, OthersWait
  <1>9. DeleteHolds(r)'
    BY <1>0, <1>1, <1>2 DEF DeleteHolds
  <1>10. GatewaysHold'
    BY <1>0, <1>2, <1>6, <1>9, HoldStep DEF FarmFacts, Grows
  <1>. QED  BY <1>7, <1>8, <1>10 DEF FarmFacts

\* A gateway is removed: what it left behind is gone, or released.
LEMMA RemoveGatewayFarm ==
  ASSUME Typed, Calm, FarmFacts, NEW r \in Request, RemoveGateway(r)
  PROVE  FarmFacts'
  <1>. DEFINE id == job[r].gateway
              at == job[r].at
  <1>0. job[r].pc = "remove" /\ fresh' = fresh /\ Grows /\ Finish(r)
    BY DEF RemoveGateway, Grows, Typed, TFresh
  <1>1. job[r].kind = "gateway_delete" /\ DeleteHolds(r) /\ id \in Nat /\ at \in Gateway
    BY <1>0, GatewayPcs DEF FarmFacts, GatewaysHold, Typed, TJobs, JobType
  <1>2. /\ OthersWait(r) /\ job'[r] = Idle /\ ~Saving(job'[r]) /\ job'[r].pc # "pair" /\ Free(job'[r])
    BY <1>0, OthersWaitFor DEF Finish, Idle, Saving, Free, GatewaySaving
  <1>3. \A f \in Farm : Settling(f) => Settling(f)'
    BY <1>0, <1>2 DEF Settling, OthersWait
  <1>4. CASE gateways[at].id # id
    <2>1. UNCHANGED <<devices, gateways>>
      BY <1>4 DEF RemoveGateway
    <2>2. SameGateways
      BY <2>1, UnmovedGateways
    <2>3. \A f \in Farm : id \notin GatewaysOf(f)
      BY <1>1, <1>4 DEF DeleteHolds, GatewaysOf
    <2>4. ASSUME NEW n \in Nat, NEW f \in Farm, Fits(n, f)
          PROVE  Fits(n, f)'
      <3>1. GatewaysOf(f)' = GatewaysOf(f)
        BY <2>2, SameGatewaysOf
      <3>2. Leaving(f) => Leaving(f)'
        BY <1>2, <2>3, <3>1 DEF Leaving, OthersWait
      <3>. QED  BY <1>0, <1>3, <2>1, <2>4, <3>1, <3>2 DEF Fits
    <2>5. \A n \in Nat : Carries(n, n)
      BY <2>4 DEF Carries
    <2>6. VersionsAgree' /\ NewRows' /\ PairsFit'
      BY <1>2, <2>1, <2>5, AgreeOn, NewRowsOn, PairsFitOn DEF FarmFacts, OthersWait
    <2>7. GatewaysHold'
      BY <1>0, <1>2, <2>2, HoldOn DEF FarmFacts, OthersWait, Grows
    <2>. QED  BY <2>6, <2>7 DEF FarmFacts
  <1>5. CASE gateways[at].id = id
    <2>1. gateways' = [gateways EXCEPT ![at] = NoGateway] /\ WriteDevices(Released(id))
      BY <1>5 DEF RemoveGateway
    <2>2. /\ \A g \in Gateway : g # at => gateways'[g] = gateways[g]
          /\ gateways'[at].id = 0 /\ gateways'[at].farm = None
      BY <1>1, <2>1 DEF Typed, TGateways, NoGateway
    <2>3. \A g \in Gateway : gateways[g].id = id => g = at
      BY <1>1 DEF DeleteHolds
    <2>4. \A f \in Farm : f # None
      BY ConstantsAssumption
    <2>5. ASSUME NEW f \in Farm
          PROVE  GatewaysOf(f)' = GatewaysOf(f) \ {id}
      BY <1>1, <1>5, <2>2, <2>3, <2>4 DEF GatewaysOf
    <2>6. ASSUME NEW f \in Farm, id \in GatewaysOf(f)
          PROVE  GatewaysOf(f)' = {}
      <3>1. gateways[at].farm = f
        BY <2>3, <2>6 DEF GatewaysOf
      <3>2. \A g \in Gateway : gateways[g].farm = f => g = at
        BY <1>1, <2>4, <3>1 DEF FarmFacts, GatewaysHold, OnePerFarm
      <3>3. GatewaysOf(f) = {id}
        BY <1>1, <1>5, <3>1, <3>2 DEF GatewaysOf
      <3>. QED  BY <2>5, <3>3
    <2>7. ASSUME NEW f \in Farm, Leaving(f)
          PROVE  GatewaysOf(f)' = {} \/ Leaving(f)'
      <3>1. PICK q \in Request : job[q].pc = "remove" /\ job[q].gateway \in GatewaysOf(f)
        BY <2>7 DEF Leaving
      <3>2. CASE job[q].gateway = id
        BY <2>6, <3>1, <3>2
      <3>3. CASE job[q].gateway # id
        <4>1. job[q].gateway \in GatewaysOf(f)' /\ job'[q] = job[q]
          BY <1>2, <2>5, <3>1, <3>3 DEF OthersWait
        <4>2. \E p \in Request : job'[p].pc = "remove" /\ job'[p].gateway \in GatewaysOf(f)'
          BY <3>1, <4>1
        <4>. QED  BY <4>2 DEF Leaving
      <3>. QED  BY <3>2, <3>3
    <2>8. ASSUME NEW n \in Nat, NEW f \in Farm, Fits(n, f)
          PROVE  Fits(n, f)'
      <3>1. CASE Settling(f)
        <4>1. Settling(f)'
          BY <1>3, <3>1
        <4>. QED  BY <4>1 DEF Fits
      <3>2. CASE n = id
        <4>1. n # 0 /\ n < fresh' /\ \A g \in Gateway : gateways'[g].id # n
          BY <1>0, <1>1, <2>2, <2>3, <3>2 DEF DeleteHolds
        <4>. QED  BY <4>1 DEF Fits
      <3>3. CASE n # id /\ n \in GatewaysOf(f)
        BY <2>5, <3>3 DEF Fits
      <3>4. CASE n # 0 /\ n < fresh /\ \A g \in Gateway : gateways[g].id # n
        <4>1. n # 0 /\ n < fresh' /\ \A g \in Gateway : gateways'[g].id # n
          BY <1>0, <2>2, <3>4
        <4>. QED  BY <4>1 DEF Fits
      <3>5. CASE n = 0 /\ GatewaysOf(f) = {}
        <4>1. GatewaysOf(f)' = {}
          BY <2>5, <3>5
        <4>. QED  BY <3>5, <4>1 DEF Fits
      <3>6. CASE n = 0 /\ Leaving(f)
        <4>1. GatewaysOf(f)' = {} \/ Leaving(f)'
          BY <2>7, <3>6
        <4>. QED  BY <3>6, <4>1 DEF Fits
      <3>. QED  BY <2>8, <3>1, <3>2, <3>3, <3>4, <3>5, <3>6 DEF Fits
    <2>9. \A n \in Nat : Carries(n, n)
      BY <2>8 DEF Carries
    <2>10. ASSUME NEW f \in Farm, Fits(id, f)
           PROVE  Fits(0, f)'
      <3>1. id # 0 /\ id \in {gateways[g].id : g \in Gateway}
        BY <1>1, <1>5 DEF DeleteHolds
      <3>2. CASE id \in GatewaysOf(f)
        <4>1. GatewaysOf(f)' = {}
          BY <2>6, <3>2
        <4>. QED  BY <4>1 DEF Fits
      <3>3. CASE Settling(f)
        <4>1. Settling(f)'
          BY <1>3, <3>3
        <4>. QED  BY <4>1 DEF Fits
      <3>. QED  BY <2>10, <3>1, <3>2, <3>3 DEF Fits
    <2>11. Carries(id, 0)
      BY <2>10 DEF Carries
    <2>12. VersionsAgree'
      BY <1>1, <1>2, <2>1, <2>9, <2>11, ReleasedAgree DEF FarmFacts, OthersWait
    <2>13. NewRows' /\ PairsFit'
      BY <1>2, <2>9, NewRowsOn, PairsFitOn DEF FarmFacts, OthersWait
    <2>14. OwnIds' /\ OnePerFarm'
      BY <1>1, <2>2 DEF FarmFacts, GatewaysHold, OwnIds, OnePerFarm
    <2>15. ASSUME NEW q \in Request, q # r
           PROVE  /\ job[q].pc \in {"release", "remove"} => DeleteHolds(q)'
                  /\ ~GatewaySaving(job[q]) /\ job[q].pc # "assign"
      <3>1. job'[q] = job[q]
        BY <1>2, <2>15 DEF OthersWait
      <3>2. job[q].pc \in {"release", "remove"} => DeleteHolds(q)'
        BY <1>0, <2>2, <3>1 DEF DeleteHolds, FarmFacts, GatewaysHold
      <3>3. ~GatewaySaving(job[q]) /\ job[q].pc # "assign"
        BY <1>0, <1>1, <2>15, CalmApart, GatewayPcs
      <3>. QED  BY <3>2, <3>3
    <2>16. GatewaysHold'
      BY <1>2, <2>14, <2>15 DEF GatewaysHold, OthersWait, Free
    <2>. QED  BY <2>12, <2>13, <2>16 DEF FarmFacts
  <1>. QED  BY <1>4, <1>5

-----------------------------------------------------------------------------
(* Steps of requests about devices. *)

\* What a step of r about a device leaves to the gateways.
LEMMA DeviceSide ==
  ASSUME Typed, FarmFacts, UNCHANGED gateways, Grows, NEW r \in Request, OthersWait(r),
         job[r].kind \in DeviceKinds, Free(job'[r])
  PROVE  /\ \A n \in Nat : Carries(n, n)
         /\ GatewaysHold'
         /\ job'[r].pc # "pair" => PairsFit'
  <1>0. SameGateways
    BY UnmovedGateways
  <1>1. job[r].pc \notin {"remove", "assign"}
    BY GatewayPcs DEF DeviceKinds
  <1>2. \A n \in Nat : Carries(n, n)
    BY <1>0, <1>1, CarriesOn DEF OthersWait, Grows
  <1>3. GatewaysHold'
    BY <1>0, HoldOn DEF FarmFacts, OthersWait, Grows
  <1>4. job'[r].pc # "pair" => PairsFit'
    BY <1>2, PairsFitOn DEF FarmFacts, OthersWait
  <1>. QED  BY <1>2, <1>3, <1>4

\* After these the request holds no version, no choice and no gateway.
Past(j) == j.pc \notin {"load", "write", "pair", "release", "remove", "assign"}

\* At most one row is written, by a version that is sound and derived or new.
LEMMA RowFarm ==
  ASSUME Typed, FarmFacts, UNCHANGED gateways, Grows, NEW r \in Request, OthersWait(r),
         job[r].kind \in DeviceKinds, Past(job'[r]),
         \/ UNCHANGED devices
         \/ \E row : /\ OneRowOf(r, row)
                     /\ row.id # 0 => /\ Sound(row)
                                      /\ Derived(job[r].at, row) \/ (row.farm = None /\ row.id = fresh)
  PROVE  FarmFacts'
  <1>0. ~Saving(job'[r]) /\ job'[r].pc # "pair" /\ Free(job'[r]) /\ job[r].at \in Serial
    BY DeviceFacts DEF Past, Saving, Free, GatewaySaving
  <1>1. (\A n \in Nat : Carries(n, n)) /\ GatewaysHold' /\ PairsFit'
    BY <1>0, DeviceSide
  <1>2. NewRows'
    BY <1>0, NewRowsOn DEF FarmFacts, OthersWait
  <1>3. CASE UNCHANGED devices
    <2>1. VersionsAgree'
      BY <1>0, <1>1, <1>3, AgreeOn DEF FarmFacts, OthersWait
    <2>. QED  BY <1>1, <1>2, <2>1 DEF FarmFacts
  <1>4. CASE ~UNCHANGED devices
    <2>1. PICK row : /\ OneRowOf(r, row)
                     /\ row.id # 0 => /\ Sound(row)
                                      /\ Derived(job[r].at, row) \/ (row.farm = None /\ row.id = fresh)
      BY <1>4
    <2>2. ASSUME NEW s \in Serial, NEW x, Version(s, x)'
          PROVE  Sound(x) /\ (Derived(s, x) \/ (x.farm = None /\ x.id = fresh))
      <3>1. CASE Version(s, x)
        BY <1>1, <3>1, VersionType, Itself DEF FarmFacts
      <3>2. CASE ~Version(s, x)
        <4>1. x = devices'[s] /\ x.id # 0
          BY <1>0, <2>2, <3>2 DEF Version, OthersWait
        <4>2. s = job[r].at /\ x = row
          BY <2>1, <3>2, <4>1 DEF OneRowOf, Version
        <4>. QED  BY <2>1, <4>1, <4>2
      <3>. QED  BY <3>1, <3>2
    <2>3. VersionsAgree'
      BY <2>2, AgreeStep DEF FarmFacts
    <2>. QED  BY <1>1, <1>2, <2>3 DEF FarmFacts
  <1>. QED  BY <1>3, <1>4

\* A request holds new versions, which are sound and derived.
LEMMA SavingFarm ==
  ASSUME Typed, FarmFacts, UNCHANGED <<devices, gateways>>, Grows, NEW r \in Request, OthersWait(r),
         job[r].kind \in DeviceKinds, Saving(job'[r]), job'[r].at = job[r].at,
         \A x : x.id # 0 /\ (x = job'[r].held \/ x = job'[r].loaded) => Sound(x) /\ Derived(job[r].at, x),
         job'[r].held.id = 0 => job'[r].held.farm = None /\ job'[r].held.status = "pending"
  PROVE  FarmFacts'
  <1>0. Free(job'[r]) /\ job'[r].pc # "pair"
    BY DEF Saving, Free, GatewaySaving, DeviceKinds, GatewayKinds
  <1>1. (\A n \in Nat : Carries(n, n)) /\ GatewaysHold' /\ PairsFit'
    BY <1>0, DeviceSide
  <1>2. NewRows'
    BY DEF FarmFacts, NewRows, OthersWait
  <1>3. ASSUME NEW s \in Serial, NEW x, Version(s, x)'
        PROVE  Sound(x) /\ Derived(s, x)
    <2>1. CASE Version(s, x)
      BY <1>1, <2>1, VersionType, Itself DEF FarmFacts
    <2>2. CASE ~Version(s, x)
      <3>1. s = job[r].at /\ (x = job'[r].held \/ x = job'[r].loaded) /\ x.id # 0
        BY <1>3, <2>2 DEF Version, OthersWait
      <3>. QED  BY <3>1
    <2>. QED  BY <2>1, <2>2
  <1>4. VersionsAgree'
    BY <1>3, AgreeStep DEF FarmFacts
  <1>. QED  BY <1>1, <1>2, <1>4 DEF FarmFacts

\* The row of a request about a device, if there is one, is a version.
LEMMA FoundVersion ==
  ASSUME Typed, VersionsAgree, NEW r \in Request, job[r].kind \in DeviceKinds
  PROVE  /\ job[r].at \in Serial /\ Found(r) \in Row(fresh)
         /\ Found(r).id = 0 => Found(r) = NoRow
         /\ Found(r).id # 0 => Version(job[r].at, Found(r)) /\ Sound(Found(r))
         /\ Found(r).status # "paired" => Found(r).farm = None
  <1>1. job[r].at \in Serial /\ Found(r) \in Row(fresh) /\ (Found(r).id = 0 => Found(r) = NoRow)
    BY DeviceFacts
  <1>2. Found(r).id # 0 => Version(job[r].at, Found(r)) /\ Sound(Found(r))
    BY <1>1 DEF Version, Found, VersionsAgree
  <1>. QED  BY <1>1, <1>2 DEF Sound, NoRow

LEMMA SaveFindFarm ==
  ASSUME Typed, Calm', FarmFacts, NEW r \in Request, SaveFind(r)
  PROVE  FarmFacts'
  <1>0. /\ UNCHANGED devices /\ Grows /\ job[r].pc = "find" /\ job[r].kind \in DeviceKinds /\ OthersWait(r)
    BY SaveForms
  <1>1. UNCHANGED gateways
    BY DEF SaveFind, ProvisionFind, UnpairFind, RegenerateFind, Preload, OnlyJob, tables
  <1>2. /\ job[r].at \in Serial /\ Found(r) \in Row(fresh) /\ (Found(r).id = 0 => Found(r) = NoRow)
        /\ Found(r).id # 0 => Version(job[r].at, Found(r)) /\ Sound(Found(r))
        /\ Found(r).status # "paired" => Found(r).farm = None
    BY <1>0, FoundVersion DEF FarmFacts
  <1>3. DOMAIN job[r] = Fields /\ job[r].loaded = NoRow
    BY <1>0, DeviceFacts DEF DeviceJob
  <1>4. CASE Finish(r)
    <2>1. job[r].pc \notin {"remove", "assign"}
      BY <1>0
    <2>. QED  BY <1>0, <1>1, <1>4, <2>1, PlainFinish
  <1>5. ASSUME NEW entity, Save(r, entity), entity.id = Found(r).id, entity.gateway = Found(r).gateway,
               \/ entity.farm = Found(r).farm /\ entity.status = Found(r).status /\ entity.id # 0
               \/ entity.farm = None /\ entity.status = "pending"
        PROVE  FarmFacts'
    <2>. DEFINE j == [job[r] EXCEPT !.pc = IF entity.id = 0 THEN "write" ELSE "load", !.held = entity]
    <2>1. /\ j.pc \in {"load", "write"} /\ j.kind = job[r].kind /\ j.at = job[r].at /\ j.held = entity
          /\ j.loaded = NoRow
      BY <1>3 DEF Fields
    <2>2. job'[r] = j
      BY <1>5, OthersWaitFor DEF Save
    <2>. HIDE DEF j
    <2>3. Saving(job'[r]) /\ job'[r].at = job[r].at
      BY <1>0, <2>1, <2>2 DEF Saving
    <2>4. \A n \in Nat : Carries(n, n)
      <3>1. Free(job'[r])
        BY <2>3 DEF Saving, Free, GatewaySaving, DeviceKinds, GatewayKinds
      <3>. QED  BY <1>0, <1>1, <3>1, DeviceSide
    <2>5. ASSUME entity.id # 0
          PROVE  Sound(entity) /\ Derived(job[r].at, entity)
      <3>1. Version(job[r].at, Found(r)) /\ Sound(Found(r)) /\ Found(r).gateway \in Nat
        BY <1>2, <1>5, <2>5 DEF Row
      <3>2. Sound(entity)
        BY <1>5, <3>1 DEF Sound
      <3>3. Carries(Found(r).gateway, entity.gateway)
        BY <1>5, <2>4, <3>1
      <3>. QED  BY <1>5, <3>1, <3>2, <3>3 DEF Derived
    <2>6. \A x : x.id # 0 /\ (x = job'[r].held \/ x = job'[r].loaded) => Sound(x) /\ Derived(job[r].at, x)
      BY <2>1, <2>2, <2>5 DEF NoRow
    <2>7. job'[r].held.id = 0 => job'[r].held.farm = None /\ job'[r].held.status = "pending"
      BY <1>5, <2>1, <2>2
    <2>. QED  BY <1>0, <1>1, <2>3, <2>6, <2>7, SavingFarm
  <1>6. CASE ProvisionFind(r) /\ ~Finish(r)
    <2>. DEFINE entity == [Found(r) EXCEPT !.status = "pending"]
    <2>1. Save(r, entity) /\ Found(r).status # "paired"
      BY <1>6 DEF ProvisionFind
    <2>2. /\ entity.id = Found(r).id /\ entity.gateway = Found(r).gateway /\ entity.farm = Found(r).farm
          /\ entity.status = "pending"
      BY <1>2 DEF Row
    <2>. HIDE DEF entity
    <2>. QED  BY <1>2, <1>5, <2>1, <2>2
  <1>7. CASE UnpairFind(r) /\ ~Finish(r)
    <2>. DEFINE entity == Unpaired(Found(r))
    <2>1. Save(r, entity)
      BY <1>7 DEF UnpairFind
    <2>2. /\ entity.id = Found(r).id /\ entity.gateway = Found(r).gateway /\ entity.farm = None
          /\ entity.status = "pending"
      BY <1>2, UnpairedRow DEF Typed, TFresh
    <2>. HIDE DEF entity
    <2>. QED  BY <1>5, <2>1, <2>2
  <1>8. CASE RegenerateFind(r) /\ ~Finish(r)
    <2>. DEFINE entity == [Found(r) EXCEPT !.cred = fresh]
    <2>1. Save(r, entity) /\ Found(r).status = "paired"
      BY <1>8 DEF RegenerateFind
    <2>2. /\ entity.id = Found(r).id /\ entity.gateway = Found(r).gateway /\ entity.farm = Found(r).farm
          /\ entity.status = Found(r).status
      BY <1>2 DEF Row
    <2>3. entity.id # 0
      BY <1>2, <2>1, <2>2 DEF NoRow
    <2>. HIDE DEF entity
    <2>. QED  BY <1>5, <2>1, <2>2, <2>3
  <1>9. CASE Preload(r) /\ ~Finish(r)
    <2>1. PICK f \in {Found(r).farm, job[r].farm} :
            /\ Save(r, [Found(r) EXCEPT !.farm = f])
            /\ met' = IF f = Found(r).farm THEN met ELSE met \cup {{"update", "move"}}
      BY <1>9 DEF Preload
    <2>. DEFINE entity == [Found(r) EXCEPT !.farm = f]
    <2>2. f = Found(r).farm
      BY <2>1 DEF Calm, Met
    <2>3. Save(r, entity) /\ Found(r).id # 0
      BY <1>2, <1>9, <2>1 DEF Preload
    <2>4. /\ entity.id = Found(r).id /\ entity.gateway = Found(r).gateway /\ entity.farm = Found(r).farm
          /\ entity.status = Found(r).status
      BY <1>2, <2>2 DEF Row
    <2>. HIDE DEF entity
    <2>. QED  BY <1>5, <2>3, <2>4
  <1>. QED  BY <1>4, <1>6, <1>7, <1>8, <1>9 DEF SaveFind

LEMMA LoadFarm ==
  ASSUME Typed, FarmFacts, NEW r \in Request, LoadRow(r)
  PROVE  FarmFacts'
  <1>0. /\ UNCHANGED devices /\ job[r].pc = "load" /\ job[r].kind \in DeviceKinds /\ OthersWait(r)
        /\ job'[r].pc = "write" /\ job'[r].kind = job[r].kind /\ job'[r].at = job[r].at
        /\ job'[r].held = job[r].held
        /\ job'[r].loaded = IF Found(r).id = job[r].held.id THEN Found(r) ELSE NoRow
    BY LoadForms
  <1>1. UNCHANGED gateways /\ Grows
    BY DEF LoadRow, OnlyJob, tables, Grows, Typed, TFresh
  <1>2. Saving(job'[r]) /\ Saving(job[r]) /\ job[r].held.id # 0 /\ job[r].at \in Serial
    BY <1>0, DeviceFacts DEF Saving, DeviceJob
  <1>3. \A n \in Nat : Carries(n, n)
    <2>1. Free(job'[r])
      BY <1>2 DEF Saving, Free, GatewaySaving, DeviceKinds, GatewayKinds
    <2>. QED  BY <1>0, <1>1, <2>1, DeviceSide
  <1>4. Version(job[r].at, job[r].held)
    BY <1>2 DEF Version
  <1>5. Found(r).id # 0 => Version(job[r].at, Found(r))
    BY <1>0, FoundVersion DEF FarmFacts
  <1>6. \A x : x.id # 0 /\ (x = job'[r].held \/ x = job'[r].loaded) => Sound(x) /\ Derived(job[r].at, x)
    <2>1. ASSUME NEW x, x.id # 0, x = job'[r].held \/ x = job'[r].loaded
          PROVE  Version(job[r].at, x)
      BY <1>0, <1>4, <1>5, <2>1 DEF NoRow
    <2>. QED  BY <1>2, <1>3, <2>1, VersionType, Itself DEF FarmFacts
  <1>. QED  BY <1>0, <1>1, <1>2, <1>6, SavingFarm

LEMMA AfterPast ==
  ASSUME Typed, NEW r \in Request, job[r].kind \in DeviceKinds, AfterWrite(r) \/ Finish(r)
  PROVE  OthersWait(r) /\ Past(job'[r])
  <1>1. CASE Finish(r)
    BY <1>1, OthersWaitFor DEF Finish, Past, Idle
  <1>2. CASE AfterWrite(r) /\ ~Finish(r)
    <2>1. Goto(r, "token") /\ job[r].pc # "idle"
      BY <1>2, DeviceFacts DEF AfterWrite
    <2>. QED  BY <2>1, Moved DEF Past
  <1>. QED  BY <1>1, <1>2

LEMMA InsertFarm ==
  ASSUME Typed, FarmFacts, NEW r \in Request, InsertRow(r)
  PROVE  FarmFacts'
  <1>. DEFINE held == job[r].held
              row == IF held.id = 0 THEN [held EXCEPT !.id = fresh] ELSE held
  <1>0. /\ job[r].kind \in DeviceKinds /\ job[r].pc = "write" /\ UNCHANGED gateways /\ Grows
        /\ AfterWrite(r) \/ Finish(r)
    BY DEF InsertRow, Grows, Typed, TFresh
  <1>1. Saving(job[r]) /\ held \in Row(fresh) /\ job[r].at \in Serial /\ OthersWait(r) /\ Past(job'[r])
    BY <1>0, DeviceFacts, AfterPast DEF DeviceJob, Saving
  <1>2. CASE UNCHANGED devices
    BY <1>0, <1>1, <1>2, RowFarm
  <1>3. CASE ~UNCHANGED devices
    <2>1. WriteDevices([devices EXCEPT ![job[r].at] = row])
      BY <1>3 DEF InsertRow
    <2>2. CASE held.id = 0
      <3>1. held.farm = None /\ held.status = "pending"
        BY <1>1, <2>2 DEF FarmFacts, NewRows
      <3>2. row.id = fresh /\ row.farm = None /\ row.status = "pending"
        BY <1>1, <2>2, <3>1 DEF Row
      <3>. HIDE DEF row
      <3>3. OneRowOf(r, row)
        BY <1>1, <2>1, WroteOne
      <3>. QED  BY <1>0, <1>1, <3>2, <3>3, RowFarm DEF Sound
    <2>3. CASE held.id # 0
      <3>1. row = held
        BY <2>3
      <3>2. OneRowOf(r, held)
        BY <1>1, <2>1, <3>1, WroteOne
      <3>3. Version(job[r].at, held)
        BY <1>1, <2>3 DEF Version
      <3>4. \A n \in Nat : Carries(n, n)
        BY <1>0, <1>1, DeviceSide DEF Past, Free, GatewaySaving
      <3>5. Sound(held) /\ Derived(job[r].at, held)
        BY <1>1, <3>3, <3>4, VersionType, Itself DEF FarmFacts
      <3>. QED  BY <1>0, <1>1, <3>2, <3>5, RowFarm
    <2>. QED  BY <2>2, <2>3
  <1>. QED  BY <1>2, <1>3

\* One version merged into another, by a third it is compared with.
LEMMA MergeSound ==
  ASSUME Typed, VersionsAgree, NEW s \in Serial, NEW row, NEW held, NEW loaded,
         Version(s, row), Version(s, held), Version(s, loaded), row.id = held.id, loaded.id = held.id,
         \A n \in Nat : Carries(n, n)
  PROVE  LET new == Merge(row, held, loaded) IN Sound(new) /\ Derived(s, new)
  <1>. DEFINE new == Merge(row, held, loaded)
  <1>1. row \in Row(fresh) /\ held \in Row(fresh) /\ loaded \in Row(fresh)
    BY VersionType
  <1>2. /\ new.id = held.id
        /\ new.status = IF held.status # loaded.status THEN held.status ELSE row.status
        /\ new.farm = IF held.farm # loaded.farm THEN held.farm ELSE row.farm
        /\ new.gateway = IF held.gateway # loaded.gateway THEN held.gateway ELSE row.gateway
    BY <1>1, MergeRow
  <1>. HIDE DEF new
  <1>3. Sound(row) /\ Sound(held) /\ Sound(loaded) /\ Suits(held, loaded)
    BY DEF VersionsAgree
  <1>4. held.farm # None /\ loaded.farm # None => held.farm = loaded.farm
    BY <1>3 DEF Suits
  <1>5. {row.status, held.status, loaded.status} \subseteq {"pending", "paired"}
    BY <1>1, <1>3 DEF Row, Sound
  <1>6. held.farm = loaded.farm <=> held.status = loaded.status
    BY <1>3, <1>4, <1>5 DEF Sound
  <1>7. Sound(new)
    BY <1>2, <1>3, <1>6 DEF Sound
  <1>8. (new.farm = held.farm \/ new.farm = row.farm) /\ (new.gateway = held.gateway \/ new.gateway = row.gateway)
    BY <1>2
  <1>9. held.gateway \in Nat /\ row.gateway \in Nat
    BY <1>1 DEF Row
  <1>10. \E o : Version(s, o) /\ o.id = new.id /\ o.farm = new.farm
    BY <1>2, <1>8
  <1>11. \E o : Version(s, o) /\ o.id = new.id /\ Carries(o.gateway, new.gateway)
    BY <1>2, <1>8, <1>9
  <1>12. Derived(s, new)
    BY <1>10, <1>11 DEF Derived
  <1>. QED  BY <1>7, <1>12 DEF new

LEMMA UpdateFarm ==
  ASSUME Typed, FarmFacts, NEW r \in Request, UpdateRow(r)
  PROVE  FarmFacts'
  <1>. DEFINE held == job[r].held
              loaded == job[r].loaded
              new == Merge(Found(r), held, loaded)
  <1>0. /\ job[r].kind \in DeviceKinds /\ job[r].pc = "write" /\ loaded # NoRow /\ UNCHANGED gateways /\ Grows
        /\ AfterWrite(r) \/ Finish(r)
    BY DEF UpdateRow, Grows, Typed, TFresh
  <1>1. /\ Saving(job[r]) /\ job[r].at \in Serial /\ OthersWait(r) /\ Past(job'[r])
        /\ loaded.id = held.id /\ held.id # 0
    BY <1>0, DeviceFacts, AfterPast DEF DeviceJob, Saving
  <1>2. CASE UNCHANGED devices
    BY <1>0, <1>1, <1>2, RowFarm
  <1>3. CASE ~UNCHANGED devices
    <2>1. WriteDevices([devices EXCEPT ![job[r].at] = new]) /\ Found(r).id = held.id
      BY <1>3 DEF UpdateRow
    <2>2. Version(job[r].at, held) /\ Version(job[r].at, loaded) /\ Version(job[r].at, Found(r))
      BY <1>1, <2>1 DEF Version, Found
    <2>3. \A n \in Nat : Carries(n, n)
      BY <1>0, <1>1, DeviceSide DEF Past, Free, GatewaySaving
    <2>4. Sound(new) /\ Derived(job[r].at, new)
      BY <1>1, <2>1, <2>2, <2>3, MergeSound DEF FarmFacts
    <2>. HIDE DEF new
    <2>5. OneRowOf(r, new)
      BY <1>1, <2>1, WroteOne
    <2>. QED  BY <1>0, <1>1, <2>4, <2>5, RowFarm
  <1>. QED  BY <1>2, <1>3

LEMMA RemoveFarm ==
  ASSUME Typed, FarmFacts, NEW r \in Request, RemoveOrReset(r)
  PROVE  FarmFacts'
  <1>. DEFINE row == IF job[r].kind = "remove" THEN NoRow ELSE Unpaired(Found(r))
  <1>0. job[r].pc = "end" /\ Finish(r) /\ UNCHANGED gateways /\ Grows
    BY DEF RemoveOrReset, Grows, Typed, TFresh
  <1>1. job[r].kind \in DeviceKinds
    BY <1>0, AtStep DEF DeviceSteps
  <1>2. job[r].at \in Serial /\ Found(r) \in Row(fresh) /\ OthersWait(r) /\ Past(job'[r])
    BY <1>0, <1>1, DeviceFacts, AfterPast
  <1>3. CASE UNCHANGED devices
    BY <1>0, <1>1, <1>2, <1>3, RowFarm
  <1>4. CASE ~UNCHANGED devices
    <2>1. WriteDevices([devices EXCEPT ![job[r].at] = row])
      BY <1>4 DEF RemoveOrReset, Found
    <2>2. row.id # 0 => /\ row.id = Found(r).id /\ row.farm = None /\ row.status = "pending"
                        /\ row.gateway = Found(r).gateway
      BY <1>2, UnpairedRow DEF NoRow, Typed, TFresh
    <2>. HIDE DEF row
    <2>3. OneRowOf(r, row)
      BY <1>2, <2>1, WroteOne
    <2>4. \A n \in Nat : Carries(n, n)
      BY <1>0, <1>1, <1>2, DeviceSide DEF Past, Free, GatewaySaving
    <2>5. ASSUME row.id # 0
          PROVE  Sound(row) /\ Derived(job[r].at, row)
      <3>1. Version(job[r].at, Found(r)) /\ Found(r).gateway \in Nat
        BY <1>1, <1>2, <2>2, <2>5, FoundVersion DEF FarmFacts, Row
      <3>2. Carries(Found(r).gateway, row.gateway)
        BY <2>2, <2>4, <2>5, <3>1
      <3>. QED  BY <2>2, <2>5, <3>1, <3>2 DEF Sound, Derived
    <2>. QED  BY <1>0, <1>1, <1>2, <2>3, <2>5, RowFarm
  <1>. QED  BY <1>3, <1>4

\* A pairing takes the gateway of its farm, if there is one.
LEMMA PickFarm ==
  ASSUME Typed, FarmFacts, NEW r \in Request, PickGateway(r)
  PROVE  FarmFacts'
  <1>. DEFINE f == job[r].farm
  <1>0. job[r].pc = "gateway" /\ UNCHANGED <<devices, gateways, fresh>> /\ Grows
    BY DEF PickGateway, OnlyJob, tables, Grows, Typed, TFresh
  <1>1. job[r].kind \in DeviceKinds /\ DOMAIN job[r] = Fields
    BY <1>0, AtStep, DeviceFacts DEF DeviceSteps
  <1>2. PICK n \in IF GatewaysOf(f) = {} THEN {0} ELSE GatewaysOf(f) :
          Become(r, [job[r] EXCEPT !.pc = "pair", !.gateway = n])
    BY DEF PickGateway
  <1>. DEFINE j == [job[r] EXCEPT !.pc = "pair", !.gateway = n]
  <1>3. j.pc = "pair" /\ j.farm = f /\ j.gateway = n
    BY <1>1 DEF Fields
  <1>4. OthersWait(r) /\ job'[r] = j
    BY <1>2, OthersWaitFor
  <1>. HIDE DEF j
  <1>5. Free(job'[r]) /\ ~Saving(job'[r])
    BY <1>3, <1>4 DEF Free, GatewaySaving, Saving
  <1>6. (\A m \in Nat : Carries(m, m)) /\ GatewaysHold'
    BY <1>0, <1>1, <1>4, <1>5, DeviceSide
  <1>7. VersionsAgree' /\ NewRows'
    BY <1>0, <1>4, <1>5, <1>6, AgreeOn, NewRowsOn DEF FarmFacts, OthersWait
  <1>8. ASSUME NEW q \in Request, NEW m \in Nat, NEW g \in Farm,
               job'[q].pc = "pair", job'[q].gateway = m, job'[q].farm = g
        PROVE  Fits(m, g)
    <2>1. CASE q = r
      <3>1. m = n /\ g = f
        BY <1>3, <1>4, <1>8, <2>1
      <3>. QED  BY <1>2, <3>1 DEF Fits
    <2>2. CASE q # r
      BY <1>4, <1>8, <2>2 DEF OthersWait, FarmFacts, PairsFit
    <2>. QED  BY <2>1, <2>2
  <1>9. PairsFit'
    BY <1>6, <1>8 DEF PairsFit, Carries
  <1>. QED  BY <1>6, <1>7, <1>9 DEF FarmFacts

LEMMA PairFarm ==
  ASSUME Typed, Calm, FarmFacts, NEW r \in Request, PairUpdate(r)
  PROVE  FarmFacts'
  <1>. DEFINE j == job[r]
              row == PairedRow(j)
  <1>0. /\ j.pc = "pair" /\ j.kind = "pair" /\ j.kind \in DeviceKinds /\ j.at \in Serial /\ j.farm \in Farm
        /\ Grows /\ UNCHANGED gateways /\ j.gateway \in Nat
    BY PairForms DEF DeviceKinds, Typed, TJobs, JobType
  <1>1. OthersWait(r) /\ job'[r].pc \in {"idle", "use"}
    <2>1. CASE Finish(r)
      BY <2>1, OthersWaitFor DEF Finish, Idle
    <2>2. CASE Goto(r, "use")
      BY <1>0, <2>2, Moved
    <2>3. CASE Become(r, [j EXCEPT !.pc = "use", !.held = row])
      <3>1. [j EXCEPT !.pc = "use", !.held = row].pc = "use"
        BY <1>0, DeviceFacts DEF Fields
      <3>. QED  BY <2>3, <3>1, OthersWaitFor
    <2>. QED  BY <2>1, <2>2, <2>3, PairForms
  <1>2. Past(job'[r])
    BY <1>1 DEF Past
  <1>3. CASE UNCHANGED devices
    BY <1>0, <1>1, <1>2, <1>3, RowFarm
  <1>4. CASE ~UNCHANGED devices
    <2>1. /\ row.id # 0 /\ row.status = "paired" /\ row.farm = j.farm /\ row.gateway = j.gateway
          /\ WriteDevices([devices EXCEPT ![j.at] = row])
      BY <1>4, PairForms
    <2>2. OneRowOf(r, row)
      BY <1>0, <2>1, WroteOne
    <2>. HIDE DEF row
    <2>3. ~Saving(job'[r]) /\ Free(job'[r]) /\ job'[r].pc # "pair"
      BY <1>2 DEF Past, Saving, Free, GatewaySaving
    <2>4. (\A n \in Nat : Carries(n, n)) /\ GatewaysHold' /\ PairsFit'
      BY <1>0, <1>1, <2>3, DeviceSide
    <2>5. \A q \in Request : ~Saving(job'[q])
      <3>. SUFFICES ASSUME NEW q \in Request, q # r, Saving(job[q]) PROVE FALSE
        BY <1>1, <2>3 DEF OthersWait
      <3>. QED  BY <1>0, SavingAt, CalmApart
    <2>6. ASSUME NEW s \in Serial, NEW x, x.id # 0, x = devices'[s]
          PROVE  Sound(x) /\ Suits(x, x)'
      <3>1. CASE s = j.at
        <4>1. x = row
          BY <2>2, <2>6, <3>1 DEF OneRowOf
        <4>2. Fits(j.gateway, j.farm)
          BY <1>0 DEF FarmFacts, PairsFit
        <4>3. \A n \in Nat, f \in Farm : Fits(n, f) => Fits(n, f)'
          BY <2>4 DEF Carries
        <4>4. x.farm \in Farm /\ x.gateway \in Nat /\ Fits(x.gateway, x.farm)
          BY <1>0, <2>1, <4>1, <4>2
        <4>5. Fits(x.gateway, x.farm)'
          BY <4>3, <4>4
        <4>6. x.farm # None /\ x.status = "paired"
          BY <2>1, <4>1, <4>4, ConstantsAssumption
        <4>. QED  BY <4>5, <4>6 DEF Sound, Suits
      <3>2. CASE s # j.at
        <4>1. Version(s, x)
          BY <2>2, <2>6, <3>2 DEF OneRowOf, Version
        <4>2. Sound(x) /\ Suits(x, x) /\ x.gateway \in Nat /\ x.farm \in Farm \cup {None}
          BY <4>1, VersionType DEF FarmFacts, VersionsAgree
        <4>. QED  BY <2>4, <4>2 DEF Suits, Carries
      <3>. QED  BY <3>1, <3>2
    <2>7. VersionsAgree'
      <3>1. \A s \in Serial : \A x : Version(s, x)' => x = devices'[s] /\ x.id # 0
        BY <2>5 DEF Version
      <3>2. \A s \in Serial : \A x, y : Version(s, x)' /\ Version(s, y)' => x = y
        BY <3>1
      <3>. QED  BY <2>6, <3>1, <3>2 DEF VersionsAgree
    <2>8. NewRows'
      BY <2>5 DEF NewRows
    <2>. QED  BY <2>4, <2>7, <2>8 DEF FarmFacts
  <1>. QED  BY <1>3, <1>4

-----------------------------------------------------------------------------
LEMMA FarmStep ==
  ASSUME Typed, FarmInv, [Next]_vars
  PROVE  FarmInv'
  <1>. SUFFICES ASSUME Calm' PROVE FarmFacts'
    BY DEF FarmInv
  <1>1. Calm /\ FarmFacts
    <2>1. met \subseteq met'
      <3>1. ASSUME NEW r \in Request,
                   \/ SaveFind(r) \/ LoadRow(r) \/ InsertRow(r) \/ UpdateRow(r) \/ PairUpdate(r)
                   \/ RemoveOrReset(r)
            PROVE  met \subseteq met'
        BY <3>1, SaveForms, LoadForms, InsertForms, UpdateForms, PairRows, RemoveForms
      <3>. QED  BY <3>1, StepForms DEF Still
    <2>. QED  BY <2>1, CalmBefore DEF FarmInv
  <1>2. CASE \/ UNCHANGED vars
             \/ \E s \in Serial : Expire(s)
             \/ Administer
             \/ RequestFails \/ Crash
    BY <1>1, <1>2, OtherFarm
  <1>3. ASSUME NEW r \in Request, Arrive(r) \/ ArriveGateway(r)
        PROVE  FarmFacts'
    BY <1>1, <1>3, ArriveFarm
  <1>4. ASSUME NEW r \in Request, HandleGateway(r)
        PROVE  FarmFacts'
    BY <1>1, <1>4, ProvisionHolds, GatewayPairHolds, LoadGatewayHolds, InsertGatewayHolds, UpdateGatewayHolds,
       AssignFarm, PlainFarm, DeleteFindHolds, ReleaseFarm, RemoveGatewayFarm DEF HandleGateway
  <1>5. ASSUME NEW r \in Request, Handle(r)
        PROVE  FarmFacts'
    <2>1. CASE \/ SaveFind(r) \/ LoadRow(r) \/ InsertRow(r) \/ UpdateRow(r) \/ PickGateway(r) \/ PairUpdate(r)
               \/ RemoveOrReset(r)
      BY <1>1, <2>1, SaveFindFarm, LoadFarm, InsertFarm, UpdateFarm, PickFarm, PairFarm, RemoveFarm
    <2>2. CASE \/ GenerateToken(r) \/ Respond(r) \/ PairFind(r) \/ CheckToken(r) \/ UseToken(r) \/ SetOwner(r)
               \/ RemoveFind(r) \/ CleanDeviceData(r)
      BY <1>1, <2>2, PlainFarm
    <2>. QED  BY <1>5, <2>1, <2>2 DEF Handle, SaveFind
  <1>. QED  BY <1>2, <1>3, <1>4, <1>5 DEF Next, DeviceNext, GatewayNext

\* While no request about a gateway is in flight, what fits is the gateway of
\* the farm, or none if the farm has none.
LEMMA FarmsServed ==
  ASSUME Typed, FarmInv
  PROVE  GatewayOfFarm
  <1>. SUFFICES ASSUME Calm, \A r \in Request : job[r].kind \notin GatewayKinds,
                       NEW s \in Serial, devices[s].status = "paired"
                PROVE  devices[s].gateway \in IF GatewaysOf(devices[s].farm) = {} THEN {0}
                                                ELSE GatewaysOf(devices[s].farm)
    BY DEF GatewayOfFarm, Calm
  <1>. DEFINE x == devices[s]
  <1>1. Version(s, x)
    <2>1. x.id # 0
      BY DEF Typed, TDevices, NoRow
    <2>. QED  BY <2>1 DEF Version
  <1>2. Sound(x) /\ Suits(x, x)
    BY <1>1 DEF FarmInv, FarmFacts, VersionsAgree
  <1>3. Fits(x.gateway, x.farm)
    BY <1>2 DEF Sound, Suits
  <1>4. ~Leaving(x.farm) /\ ~Settling(x.farm)
    BY GatewayPcs DEF Leaving, Settling, GatewayKinds
  <1>5. x.gateway # 0 => \E g \in Gateway : gateways[g].id = x.gateway
    BY DEF Typed, TDevices, Dangling
  <1>6. x.gateway \in GatewaysOf(x.farm) \/ (x.gateway = 0 /\ GatewaysOf(x.farm) = {})
    BY <1>3, <1>4, <1>5 DEF Fits
  <1>. QED  BY <1>6

\* Once no gateway is being paired or deleted, a paired device has the gateway
\* of its farm or none if the farm has none, for any number of controllers,
\* gateways, farms and requests that interleave, fail and crash, under the
\* overlaps and failures GatewayOfFarm excludes.
THEOREM GatewaysFollowFarms == Spec => []GatewayOfFarm
  <1>1. Init => Typed /\ FarmInv
    <2>. SUFFICES ASSUME Init PROVE Typed /\ FarmFacts
      BY DEF FarmInv
    <2>1. \A r \in Request : job[r].pc = "idle"
      BY DEF Init, Idle
    <2>2. \A s \in Serial : \A x : ~Version(s, x)
      BY <2>1 DEF Version, Saving, Init, NoRow
    <2>3. \A g \in Gateway : gateways[g].id = 0 /\ gateways[g].farm = None
      BY DEF Init, NoGateway
    <2>4. GatewaysHold
      BY <2>1, <2>3 DEF GatewaysHold, OwnIds, OnePerFarm, GatewaySaving
    <2>. QED  BY <2>1, <2>2, <2>4, TypedInit DEF FarmFacts, VersionsAgree, NewRows, PairsFit, Saving
  <1>2. Typed /\ FarmInv /\ [Next]_vars => (Typed /\ FarmInv)'
    BY TypedStep, FarmStep
  <1>3. Typed /\ FarmInv => GatewayOfFarm
    BY FarmsServed
  <1>. QED  BY <1>1, <1>2, <1>3, PTL DEF Spec
=============================================================================
