----------------------------- MODULE Provisioning -----------------------------
(***************************************************************************)
(* Devices from provisioning to removal (src/src/provision and the writes   *)
(* of src/src/device/device.service.ts).                                    *)
(*                                                                         *)
(* A controller asks over MQTT to be provisioned: its row becomes PENDING   *)
(* and a pairing token is sent back.  A user who has the token pairs the    *)
(* device with a farm: the row gets the farm, the gateway of the farm and a *)
(* credential for the broker, which is sent to the controller.  Requests    *)
(* interleave at every query; save() of an entity found before is a load    *)
(* and a write of the columns that differ from the ones loaded.             *)
(***************************************************************************)
EXTENDS Integers, FiniteSets

CONSTANTS
  Serial,       \* controllers, by serial number
  Farm, Gateway,
  Request,      \* requests in flight at once (bound)
  MaxRequests,  \* requests and failures in all (bound)
  MaxFailures,  \* failed queries and crashes (bound)
  None

ASSUME ConstantsAssumption ==
  /\ MaxRequests \in Nat
  /\ MaxFailures \in Nat
  /\ None \notin Serial \cup Farm \cup Gateway
  /\ Serial \cap Gateway = {} /\ IsFiniteSet(Gateway)

VARIABLES
  devices,      \* table device: the row of each serial, or NoRow
  tokens,       \* table pairing_token: the row of each serial, or NoToken
  gateways,     \* table gateway: the row of each gateway, or NoGateway
  controllers,  \* the credential each controller and gateway was sent, 0 before
  told,         \* pairing tokens sent out, of devices and of gateways
  job,          \* the requests in flight
  fresh,        \* next unused id, credential or token
  started,      \* requests so far
  failures,
  met,          \* history: kinds of requests that overlapped, or failed
  paired,       \* history: which token gave which credential
  revoked       \* history: credentials that left the row of their device

tables == <<devices, tokens, gateways>>
history == <<met, paired, revoked>>
vars == <<tables, controllers, told, job, fresh, started, failures, history>>

-----------------------------------------------------------------------------
NoRow == [id |-> 0, status |-> "none", farm |-> None, cred |-> 0, gateway |-> 0]
NoGateway == [id |-> 0, farm |-> None, cred |-> 0, token |-> 0, used |-> FALSE]
NoToken == [value |-> 0, used |-> FALSE, expired |-> FALSE]

\* What a request remembers: what it is about, and the entity it will save
\* with the row the ORM compares it with.
Idle == [pc |-> "idle", kind |-> "none", at |-> None, farm |-> None, token |-> 0,
         gateway |-> 0, held |-> NoRow, loaded |-> NoRow]

Become(r, j) == job' = [job EXCEPT ![r] = j]
Goto(r, step) == Become(r, [job[r] EXCEPT !.pc = step])
Finish(r) == Become(r, Idle)

Creds(table) == {table[s].cred : s \in Serial} \ {0}

\* Every change of the device table.
WriteDevices(table) ==
  /\ devices' = table
  /\ revoked' = revoked \cup (Creds(devices) \ Creds(table))

\* The columns an UPDATE leaves: those the ORM saw changed get the value of the
\* entity, the others keep what the row holds by now.
Merge(row, held, loaded) ==
  [c \in DOMAIN row |-> IF held[c] # loaded[c] THEN held[c] ELSE row[c]]

Init ==
  /\ devices = [s \in Serial |-> NoRow]
  /\ tokens = [s \in Serial |-> NoToken]
  /\ gateways = [g \in Gateway |-> NoGateway]
  /\ controllers = [s \in Serial \cup Gateway |-> 0]
  /\ told = [device |-> {}, gateway |-> {}]
  /\ job = [r \in Request |-> Idle]
  /\ fresh = 1
  /\ started = 0
  /\ failures = 0
  /\ met = {} /\ paired = {} /\ revoked = {}

\* A request arrives; from here it overlaps with those in flight.
Start(r, j) ==
  /\ job[r].pc = "idle" /\ started + failures < MaxRequests
  /\ started' = started + 1
  /\ Become(r, j)
  /\ met' = met \cup {{j.kind, job[q].kind} : q \in {p \in Request : job[p].pc # "idle"}}

DeviceKinds == {"provision", "pair", "unpair", "regenerate", "update", "remove", "reset"}

\* A pairing names a farm and a token that was sent out.
Arrive(r) ==
  /\ \E s \in Serial, kind \in DeviceKinds, f \in Farm \cup {None}, t \in told.device \cup {0} :
       /\ kind = "pair" <=> t # 0
       /\ kind \in {"pair", "update"} <=> f # None
       /\ Start(r, [Idle EXCEPT !.pc = "find", !.kind = kind, !.at = s, !.farm = f, !.token = t])
  /\ UNCHANGED <<tables, controllers, told, fresh, failures, paired, revoked>>

Finds(r, kind) == job[r].pc = "find" /\ job[r].kind = kind
Found(r) == devices[job[r].at]
OnlyJob == UNCHANGED <<tables, controllers, told, fresh, started, failures, history>>

\* save(entity) follows; an entity without id is inserted at once.
Save(r, entity) ==
  Become(r, [job[r] EXCEPT !.pc = IF entity.id = 0 THEN "write" ELSE "load", !.held = entity])

-----------------------------------------------------------------------------
(* Provisioning. *)

\* A paired device is rejected.
ProvisionFind(r) ==
  /\ Finds(r, "provision")
  /\ IF Found(r).status = "paired" THEN Finish(r)
     ELSE Save(r, [Found(r) EXCEPT !.status = "pending"])
  /\ OnlyJob

\* The row with the id of the held entity, NoRow if there is none.
LoadRow(r) ==
  /\ job[r].pc = "load" /\ job[r].kind \in DeviceKinds
  /\ Become(r, [job[r] EXCEPT !.pc = "write",
                  !.loaded = IF Found(r).id = job[r].held.id THEN Found(r) ELSE NoRow])
  /\ OnlyJob

AfterWrite(r) == IF job[r].kind = "provision" THEN Goto(r, "token") ELSE Finish(r)

\* The database refuses a gateway that does not exist.
Dangling(row) == row.gateway # 0 /\ \A g \in Gateway : gateways[g].id # row.gateway

\* A row that was not there is inserted; the serial and the gateway are
\* constrained by the database, so the insert can fail.
InsertRow(r) ==
  LET held == job[r].held IN
  /\ job[r].pc = "write" /\ job[r].kind \in DeviceKinds /\ job[r].loaded = NoRow
  /\ IF Found(r) # NoRow \/ Dangling(held)
       THEN Finish(r) /\ UNCHANGED <<devices, fresh, revoked>>
       ELSE /\ WriteDevices([devices EXCEPT ![job[r].at] =
                               IF held.id = 0 THEN [held EXCEPT !.id = fresh] ELSE held])
            /\ fresh' = IF held.id = 0 THEN fresh + 1 ELSE fresh
            /\ AfterWrite(r)
  /\ UNCHANGED <<tokens, gateways, controllers, told, started, failures, met, paired>>

UpdateRow(r) ==
  LET j == job[r]
      new == Merge(Found(r), j.held, j.loaded)
  IN
  /\ j.pc = "write" /\ j.kind \in DeviceKinds /\ j.loaded # NoRow
  /\ IF Found(r).id # j.held.id
       THEN AfterWrite(r) /\ UNCHANGED <<devices, revoked>>
       ELSE IF Dangling(new)
         THEN Finish(r) /\ UNCHANGED <<devices, revoked>>
         ELSE WriteDevices([devices EXCEPT ![j.at] = new]) /\ AfterWrite(r)
  /\ UNCHANGED <<tokens, gateways, controllers, told, fresh, started, failures, met, paired>>

\* generatePairingToken inserts; a serial has one row, used, expired or not.
GenerateToken(r) ==
  LET s == job[r].at IN
  /\ job[r].pc = "token"
  /\ IF tokens[s] # NoToken
       THEN Finish(r) /\ UNCHANGED <<tokens, fresh>>
       ELSE /\ tokens' = [tokens EXCEPT ![s] = [NoToken EXCEPT !.value = fresh]]
            /\ fresh' = fresh + 1
            /\ Become(r, [job[r] EXCEPT !.pc = "respond", !.token = fresh])
  /\ UNCHANGED <<devices, gateways, controllers, told, started, failures, history>>

\* The error of a failed publish is swallowed.
Respond(r) ==
  /\ job[r].pc = "respond" /\ job[r].kind = "provision"
  /\ told' \in {told, [told EXCEPT !.device = @ \cup {job[r].token}]}
  /\ Finish(r)
  /\ UNCHANGED <<tables, controllers, fresh, started, failures, history>>

-----------------------------------------------------------------------------
(* Pairing. *)

PairFind(r) ==
  /\ Finds(r, "pair")
  /\ IF Found(r) = NoRow THEN Finish(r)
     ELSE Become(r, [job[r] EXCEPT !.pc = "check", !.held = Found(r)])
  /\ OnlyJob

\* Faulty variant: the used flag is not looked at.
CheckTokenUnused(r) ==
  LET t == tokens[job[r].at] IN
  /\ job[r].pc = "check"
  /\ IF t.value # job[r].token \/ t.expired THEN Finish(r) ELSE Goto(r, "gateway")
  /\ OnlyJob

CheckToken(r) ==
  LET t == tokens[job[r].at] IN
  /\ job[r].pc = "check"
  /\ IF t.value # job[r].token \/ t.used \/ t.expired THEN Finish(r) ELSE Goto(r, "gateway")
  /\ OnlyJob

GatewaysOf(f) == {gateways[g].id : g \in {h \in Gateway : gateways[h].farm = f}}

\* "1 farm = max 1 gateway" says the comment; nothing enforces it.
PickGateway(r) ==
  LET ids == GatewaysOf(job[r].farm) IN
  /\ job[r].pc = "gateway"
  /\ \E g \in IF ids = {} THEN {0} ELSE ids :
       Become(r, [job[r] EXCEPT !.pc = "pair", !.gateway = g])
  /\ OnlyJob

\* Faulty variant: the entity read before the update is used after it.
PairUpdateOld(r) ==
  LET j == job[r]
      new == [Found(r) EXCEPT !.status = "paired", !.farm = j.farm, !.cred = fresh,
                              !.gateway = j.gateway]
  IN
  /\ j.pc = "pair"
  /\ fresh' = fresh + 1
  /\ IF Found(r).id # j.held.id
       THEN Goto(r, "use") /\ UNCHANGED <<devices, paired, revoked>>
       ELSE IF Dangling(new)
         THEN Finish(r) /\ UNCHANGED <<devices, paired, revoked>>
         ELSE /\ WriteDevices([devices EXCEPT ![j.at] = new])
              /\ paired' = paired \cup {<<j.token, fresh>>}
              /\ Goto(r, "use")
  /\ UNCHANGED <<tokens, gateways, controllers, told, started, failures, met>>

\* One UPDATE by id, of no row if the device was removed meanwhile.
PairUpdate(r) ==
  LET j == job[r]
      new == [Found(r) EXCEPT !.status = "paired", !.farm = j.farm, !.cred = fresh,
                              !.gateway = j.gateway]
  IN
  /\ j.pc = "pair"
  /\ fresh' = fresh + 1
  /\ IF Found(r).id # j.held.id
       THEN Goto(r, "use") /\ UNCHANGED <<devices, paired, revoked>>
       ELSE IF Dangling(new)
         THEN Finish(r) /\ UNCHANGED <<devices, paired, revoked>>
         ELSE /\ WriteDevices([devices EXCEPT ![j.at] = new])
              /\ paired' = paired \cup {<<j.token, fresh>>}
              /\ Become(r, [j EXCEPT !.pc = "use", !.held = new])
  /\ UNCHANGED <<tokens, gateways, controllers, told, started, failures, met>>

UseToken(r) ==
  LET s == job[r].at IN
  /\ job[r].pc = "use"
  /\ tokens' = IF tokens[s].value = job[r].token THEN [tokens EXCEPT ![s].used = TRUE] ELSE tokens
  /\ Goto(r, "own")
  /\ UNCHANGED <<devices, gateways, controllers, told, fresh, started, failures, history>>

\* set_owner; the error of a failed publish is swallowed.
SetOwner(r) ==
  LET j == job[r] IN
  /\ j.pc = "own"
  /\ \/ controllers' = [controllers EXCEPT ![j.at] = j.held.cred] /\ UNCHANGED met
     \/ UNCHANGED controllers /\ met' = met \cup {{"pair", "silence"}}
  /\ Finish(r)
  /\ UNCHANGED <<tables, told, fresh, started, failures, paired, revoked>>

-----------------------------------------------------------------------------
(* Requests on a device. *)

\* Faulty variants: a status the type does not have; the credential stays.
UnpairedUnknown(row) == [row EXCEPT !.farm = None, !.cred = 0, !.status = "unpaired"]
UnpairedKeep(row) == [row EXCEPT !.farm = None, !.status = "pending"]

Unpaired(row) == [row EXCEPT !.farm = None, !.cred = 0, !.status = "pending"]

UnpairFind(r) ==
  /\ Finds(r, "unpair")
  /\ IF Found(r) = NoRow THEN Finish(r) ELSE Save(r, Unpaired(Found(r)))
  /\ OnlyJob

\* The new credential is returned to the caller, not sent to the controller.
RegenerateFind(r) ==
  /\ Finds(r, "regenerate")
  /\ IF Found(r).status # "paired"
       THEN Finish(r) /\ UNCHANGED fresh
       ELSE Save(r, [Found(r) EXCEPT !.cred = fresh]) /\ fresh' = fresh + 1
  /\ UNCHANGED <<tables, controllers, told, started, failures, history>>

\* DeviceService.update: preload, then save.  The farm may be given, or follow from
\* the zone that is given.
Preload(r) ==
  /\ Finds(r, "update")
  /\ IF Found(r) = NoRow THEN Finish(r) /\ UNCHANGED met
     ELSE \E f \in {Found(r).farm, job[r].farm} :
            /\ Save(r, [Found(r) EXCEPT !.farm = f])
            /\ met' = IF f = Found(r).farm THEN met ELSE met \cup {{"update", "move"}}
  /\ UNCHANGED <<tables, controllers, told, fresh, started, failures, paired, revoked>>

RemoveFind(r) ==
  /\ job[r].pc = "find" /\ job[r].kind \in {"remove", "reset"}
  /\ IF Found(r) = NoRow THEN Finish(r)
     ELSE Become(r, [job[r] EXCEPT !.pc = "clean", !.held = Found(r)])
  /\ OnlyJob

\* One transaction, which deletes the pairing token too.
CleanDeviceData(r) ==
  /\ job[r].pc = "clean"
  /\ tokens' = [tokens EXCEPT ![job[r].at] = NoToken]
  /\ Goto(r, "end")
  /\ UNCHANGED <<devices, gateways, controllers, told, fresh, started, failures, history>>

\* Faulty variant: a reset saves the entity it found.
RemoveOrResetStale(r) ==
  LET j == job[r] IN
  /\ j.pc = "end"
  /\ IF Found(r).id # j.held.id THEN UNCHANGED <<devices, revoked>>
     ELSE WriteDevices([devices EXCEPT ![j.at] =
                          IF j.kind = "remove" THEN NoRow ELSE [j.held EXCEPT !.status = "pending"]])
  /\ Finish(r)
  /\ UNCHANGED <<tokens, gateways, controllers, told, fresh, started, failures, met, paired>>

RemoveOrReset(r) ==
  LET j == job[r] IN
  /\ j.pc = "end"
  /\ IF Found(r).id # j.held.id THEN UNCHANGED <<devices, revoked>>
     ELSE WriteDevices([devices EXCEPT ![j.at] =
                          IF j.kind = "remove" THEN NoRow ELSE Unpaired(@)])
  /\ Finish(r)
  /\ UNCHANGED <<tokens, gateways, controllers, told, fresh, started, failures, met, paired>>

-----------------------------------------------------------------------------
Expire(s) ==
  /\ tokens[s] # NoToken /\ ~tokens[s].expired
  /\ tokens' = [tokens EXCEPT ![s].expired = TRUE]
  /\ UNCHANGED <<devices, gateways, controllers, told, job, fresh, started, failures, history>>

\* deletePairingToken, and deleteAllPairingTokens with its filters.
DeleteTokens(S) ==
  /\ \E s \in S : tokens[s] # NoToken
  /\ tokens' = [s \in Serial |-> IF s \in S THEN NoToken ELSE tokens[s]]
  /\ UNCHANGED <<devices, gateways, controllers, told, job, fresh, started, failures, history>>

\* A query rejects and the request ends; or the process dies with all of them.
Fail(R) ==
  /\ failures < MaxFailures /\ started + failures < MaxRequests
  /\ R # {} /\ \A r \in R : job[r].pc # "idle"
  /\ failures' = failures + 1
  /\ job' = [r \in Request |-> IF r \in R THEN Idle ELSE job[r]]
  /\ met' = met \cup {{job[r].kind, "failure"} : r \in R}
  /\ UNCHANGED <<tables, controllers, told, fresh, started, paired, revoked>>

RequestFails == \E r \in Request : Fail({r})
Crash == Fail({r \in Request : job[r].pc # "idle"})

Handle(r) ==
  \/ ProvisionFind(r) \/ LoadRow(r) \/ InsertRow(r) \/ UpdateRow(r) \/ GenerateToken(r) \/ Respond(r)
  \/ PairFind(r) \/ CheckToken(r) \/ PickGateway(r) \/ PairUpdate(r) \/ UseToken(r) \/ SetOwner(r)
  \/ UnpairFind(r) \/ RegenerateFind(r) \/ Preload(r)
  \/ RemoveFind(r) \/ CleanDeviceData(r) \/ RemoveOrReset(r)

Administer ==
  \/ \E s \in Serial : DeleteTokens({s})
  \/ DeleteTokens(Serial)
  \/ DeleteTokens({s \in Serial : tokens[s].used})
  \/ DeleteTokens({s \in Serial : tokens[s].expired})

DeviceNext ==
  \/ \E r \in Request : Arrive(r) \/ Handle(r)
  \/ \E s \in Serial : Expire(s)
  \/ Administer \/ RequestFails \/ Crash

=============================================================================
