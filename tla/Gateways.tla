------------------------------- MODULE Gateways -------------------------------
(***************************************************************************)
(* Gateways (src/src/gateway/gateway.service.ts) beside the devices they    *)
(* serve.  A gateway is provisioned and paired with a farm like a device;   *)
(* pairing hands it every device of the farm, and deleting it releases      *)
(* them.  Pairing a device, on the other side, looks for the gateway of the *)
(* farm: the two requests write the same column from different ends.        *)
(***************************************************************************)
EXTENDS Provisioning

GatewayKinds == {"gateway_provision", "gateway_pair", "gateway_delete"}
AnyKind == DeviceKinds \cup GatewayKinds

ArriveGateway(r) ==
  /\ \E g \in Gateway, kind \in GatewayKinds, f \in Farm \cup {None}, t \in told.gateway \cup {0} :
       /\ kind = "gateway_pair" <=> t # 0
       /\ kind = "gateway_pair" <=> f # None
       /\ Start(r, [Idle EXCEPT !.pc = "find", !.kind = kind, !.at = g, !.farm = f, !.token = t])
  /\ UNCHANGED <<tables, controllers, told, fresh, failures, paired, revoked>>

\* handleProvisionRequest: a new token, also for a gateway that is paired.
GatewayProvisionFind(r) ==
  LET row == gateways[job[r].at] IN
  /\ Finds(r, "gateway_provision")
  /\ Become(r, [job[r] EXCEPT !.pc = IF row.id = 0 THEN "write" ELSE "load", !.token = fresh,
                  !.held = [row EXCEPT !.token = fresh, !.used = FALSE],
                  !.loaded = NoGateway])
  /\ fresh' = fresh + 1
  /\ UNCHANGED <<tables, controllers, told, started, failures, history>>

\* pairGateway: the row that has the token.
GatewayPairFind(r) ==
  LET j == job[r]
      match == {g \in Gateway : gateways[g].token = j.token /\ ~gateways[g].used}
  IN
  /\ Finds(r, "gateway_pair")
  /\ fresh' = fresh + Cardinality(match)
  /\ met' = IF \E g \in match : \/ gateways[g].farm \notin {None, j.farm}
                                  \/ GatewaysOf(j.farm) \ {gateways[g].id} # {}
               THEN met \cup {{"gateway_pair", "move"}} ELSE met
  /\ IF match = {} THEN Finish(r)
     ELSE \E g \in match :
            Become(r, [j EXCEPT !.pc = "load", !.at = g, !.loaded = NoGateway,
                         !.held = [gateways[g] EXCEPT !.farm = j.farm, !.cred = fresh, !.used = TRUE]])
  /\ UNCHANGED <<tables, controllers, told, started, failures, paired, revoked>>

LoadGateway(r) ==
  LET row == gateways[job[r].at] IN
  /\ job[r].pc = "load" /\ job[r].kind \in GatewayKinds
  /\ Become(r, [job[r] EXCEPT !.pc = "write",
                  !.loaded = IF row.id = job[r].held.id THEN row ELSE NoGateway])
  /\ OnlyJob

AfterGatewayWrite(r, id) ==
  Become(r, [job[r] EXCEPT !.pc = IF job[r].kind = "gateway_pair" THEN "assign" ELSE "respond",
               !.gateway = id])

\* Inserted if it was not there, unless another row has the serial by now.
InsertGateway(r) ==
  LET held == job[r].held
      id == IF held.id = 0 THEN fresh ELSE held.id
  IN
  /\ job[r].pc = "write" /\ job[r].kind \in GatewayKinds /\ job[r].loaded = NoGateway
  /\ IF gateways[job[r].at] # NoGateway
       THEN Finish(r) /\ UNCHANGED <<gateways, fresh>>
       ELSE /\ gateways' = [gateways EXCEPT ![job[r].at] = [held EXCEPT !.id = id]]
            /\ fresh' = fresh + 1
            /\ AfterGatewayWrite(r, id)
  /\ UNCHANGED <<devices, tokens, controllers, told, started, failures, history>>

UpdateGateway(r) ==
  LET j == job[r]
      row == gateways[j.at]
  IN
  /\ j.pc = "write" /\ j.kind \in GatewayKinds /\ j.loaded # NoGateway
  /\ gateways' = IF row.id = j.held.id
                   THEN [gateways EXCEPT ![j.at] = Merge(row, j.held, j.loaded)] ELSE gateways
  /\ AfterGatewayWrite(r, j.held.id)
  /\ UNCHANGED <<devices, tokens, controllers, told, fresh, started, failures, history>>

\* A bulk UPDATE of the devices of a farm.
Assigned(f, id) ==
  [s \in Serial |-> IF devices[s].farm = f THEN [devices[s] EXCEPT !.gateway = id] ELSE devices[s]]

\* Faulty variant: the devices are not assigned.
AssignNone(r) ==
  /\ job[r].pc = "assign"
  /\ Goto(r, "respond")
  /\ OnlyJob

AssignDevices(r) ==
  LET j == job[r] IN
  /\ j.pc = "assign"
  /\ IF \E s \in Serial : devices[s].farm = j.farm /\ \A g \in Gateway : gateways[g].id # j.gateway
       THEN Finish(r) /\ UNCHANGED <<devices, revoked>>
       ELSE WriteDevices(Assigned(j.farm, j.gateway)) /\ Goto(r, "respond")
  /\ UNCHANGED <<tokens, gateways, controllers, told, fresh, started, failures, met, paired>>

\* The token goes out on provisioning, the credential on pairing; the error of
\* the publish ends the request, which has nothing left to do.
GatewayRespond(r) ==
  LET j == job[r] IN
  /\ j.pc = "respond" /\ j.kind \in GatewayKinds
  /\ IF j.kind = "gateway_pair"
       THEN controllers' = [controllers EXCEPT ![j.at] = j.held.cred] /\ UNCHANGED told
       ELSE told' = [told EXCEPT !.gateway = @ \cup {j.token}] /\ UNCHANGED controllers
  /\ Finish(r)
  /\ UNCHANGED <<tables, fresh, started, failures, history>>

\* deleteGateway.
DeleteFind(r) ==
  LET row == gateways[job[r].at] IN
  /\ Finds(r, "gateway_delete")
  /\ IF row = NoGateway THEN Finish(r)
     ELSE Become(r, [job[r] EXCEPT !.pc = "release", !.gateway = row.id])
  /\ OnlyJob

Released(id) ==
  [s \in Serial |-> IF devices[s].gateway = id THEN [devices[s] EXCEPT !.gateway = 0] ELSE devices[s]]

ReleaseDevices(r) ==
  /\ job[r].pc = "release"
  /\ WriteDevices(Released(job[r].gateway))
  /\ Goto(r, "remove")
  /\ UNCHANGED <<tokens, gateways, controllers, told, fresh, started, failures, met, paired>>

\* The foreign key releases the devices that were assigned since.
RemoveGateway(r) ==
  LET j == job[r] IN
  /\ j.pc = "remove"
  /\ IF gateways[j.at].id # j.gateway THEN UNCHANGED <<gateways, devices, revoked>>
     ELSE gateways' = [gateways EXCEPT ![j.at] = NoGateway] /\ WriteDevices(Released(j.gateway))
  /\ Finish(r)
  /\ UNCHANGED <<tokens, controllers, told, fresh, started, failures, met, paired>>

HandleGateway(r) ==
  \/ GatewayProvisionFind(r) \/ GatewayPairFind(r) \/ LoadGateway(r) \/ InsertGateway(r)
  \/ UpdateGateway(r) \/ AssignDevices(r) \/ GatewayRespond(r)
  \/ DeleteFind(r) \/ ReleaseDevices(r) \/ RemoveGateway(r)

GatewayNext == \E r \in Request : ArriveGateway(r) \/ HandleGateway(r)

Next == DeviceNext \/ GatewayNext

Spec == Init /\ [][Next]_vars

-----------------------------------------------------------------------------
(***************************************************************************)
(* Properties                                                               *)
(***************************************************************************)

\* Every variable has its type, and no row refers to a gateway that is gone.
TypeOK ==
  /\ \A s \in Serial :
       /\ devices[s].status \in {"none", "pending", "paired"}
       /\ devices[s].farm \in Farm \cup {None}
       /\ {devices[s].id, devices[s].cred, tokens[s].value} \subseteq 0..(fresh - 1)
       /\ ~Dangling(devices[s])
       /\ devices[s].id = 0 <=> devices[s] = NoRow
       /\ tokens[s].used \in BOOLEAN /\ tokens[s].expired \in BOOLEAN
  /\ \A g \in Gateway :
       /\ gateways[g].farm \in Farm \cup {None} /\ gateways[g].used \in BOOLEAN
       /\ {gateways[g].id, gateways[g].cred, gateways[g].token} \subseteq 0..(fresh - 1)
       /\ gateways[g].id = 0 <=> gateways[g] = NoGateway
  /\ controllers \in [Serial \cup Gateway -> 0..(fresh - 1)]
  /\ told.device \cup told.gateway \cup revoked \subseteq 1..(fresh - 1)
  /\ \A r \in Request : job[r].kind \in AnyKind \cup {"none"} /\ job[r].token < fresh

\* Two kinds of requests overlapped, or one of them failed.
Met(K, L) == \E k \in K, l \in L : {k, l} \in met

\* A device has a credential exactly when it is paired, whatever overlaps and
\* fails, unless regenerateDeviceToken overlapped with a request that unpairs
\* or saves, or a rename with a pairing: a save can then write the credential
\* alone into an unpaired row.
PairedHasCredential ==
  ~Met({"regenerate"}, {"unpair", "reset", "update", "provision"}) /\ ~Met({"update"}, {"pair"}) =>
    \A s \in Serial : devices[s].status = "paired" <=> devices[s].cred # 0

\* A credential that was withdrawn (by unpairing, another pairing, a
\* regeneration, a reset or a removal) does not come back, so the broker
\* accepts it no more; only a save of an entity found before can bring it back,
\* when a rename or a regeneration overlaps with another request.
RevokedStaysOut ==
  ~Met({"update", "regenerate"}, DeviceKinds) => Creds(devices) \cap revoked = {}

\* A pairing token pairs once, unless two pairings overlap or one fails between
\* its two updates.
TokenOnce ==
  ~Met({"pair"}, {"pair", "failure"}) =>
    \A p, q \in paired : p[1] = q[1] => p = q

\* A device that no request is about and whose row has the credential of a
\* pairing (a regenerated one is sent to nobody) holds that credential, unless
\* a pairing overlapped with another request, failed, or lost its set_owner.
ControllerMatches ==
  ~Met({"pair"}, DeviceKinds \cup {"failure", "silence"}) =>
    \A s \in Serial :
      devices[s].cred \in {p[2] : p \in paired} /\ (\A r \in Request : job[r].at # s) =>
        controllers[s] = devices[s].cred

\* A paired device has the gateway of its farm, or none if the farm has none,
\* once no gateway is being paired or deleted.  That takes pairings of gateways
\* that overlap with nothing, do not fail, do not move a gateway to another
\* farm and do not give a farm a second one, deletions that do not fail or
\* overlap with a provisioning (whose save brings the gateway back), no device
\* moved to a zone of another farm, and pairings of devices that overlap with no
\* save of an entity found before; they may overlap with deleting the gateway.
GatewayOfFarm ==
  /\ ~Met({"gateway_pair"}, AnyKind \cup {"failure", "move"})
  /\ ~Met({"pair"}, {"provision", "unpair", "regenerate", "update"})
  /\ ~Met({"gateway_delete"}, {"failure", "gateway_provision"}) /\ ~Met({"update"}, {"move"})
  /\ \A r \in Request : job[r].kind \notin GatewayKinds
  =>
  \A s \in Serial :
    devices[s].status = "paired" =>
      devices[s].gateway \in IF GatewaysOf(devices[s].farm) = {} THEN {0}
                               ELSE GatewaysOf(devices[s].farm)

=============================================================================
