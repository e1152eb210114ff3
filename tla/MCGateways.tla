------------------------------ MODULE MCGateways ------------------------------
(* Small instances of Gateways for TLC. *)
EXTENDS Gateways, TLC

CONSTANTS d1, g1, g2, f1, f2, r1, r2

MCSerial == {d1}
MCGateway == {g1, g2}
MCFarm == {f1, f2}
MCRequest == {r1, r2}

\* Requests are interchangeable.
Symmetry == Permutations(Request)

(***************************************************************************)
(* Initial states: those that requests, one after the other, lead to.  The  *)
(* device is new, provisioned or paired with f1; g1 is new, provisioned or  *)
(* paired with f1, before the device was; g2 is new.                        *)
(***************************************************************************)
MCInit ==
  \E device, gateway \in {"new", "provisioned", "paired"} :
    /\ device = "new" => gateway = "new"
    /\ devices = [s \in Serial |->
         CASE device = "new" -> NoRow
           [] device = "provisioned" -> [NoRow EXCEPT !.id = 1, !.status = "pending"]
           [] device = "paired" -> [id |-> 1, status |-> "paired", farm |-> f1, cred |-> 3,
                                    gateway |-> IF gateway = "paired" THEN 4 ELSE 0]]
    /\ tokens = [s \in Serial |->
         IF device = "new" THEN NoToken
         ELSE [value |-> 2, used |-> device = "paired", expired |-> FALSE]]
    /\ gateways = [g \in Gateway |->
         CASE gateway = "new" \/ g = g2 -> NoGateway
           [] gateway = "provisioned" -> [NoGateway EXCEPT !.id = 4, !.token = 5]
           [] gateway = "paired" -> [id |-> 4, farm |-> f1, cred |-> 6, token |-> 5, used |-> TRUE]]
    /\ controllers = [c \in Serial \cup Gateway |->
         IF c \in Serial THEN IF device = "paired" THEN 3 ELSE 0
         ELSE IF c = g1 /\ gateway = "paired" THEN 6 ELSE 0]
    /\ told = [device |-> IF device = "new" THEN {} ELSE {2},
               gateway |-> IF gateway = "new" THEN {} ELSE {5}]
    /\ paired = IF device = "paired" THEN {<<2, 3>>} ELSE {}
    /\ job = [r \in Request |-> Idle]
    /\ fresh = 7
    /\ started = 0 /\ failures = 0
    /\ met = {} /\ revoked = {}

MCSpec == MCInit /\ [][Next]_vars

=============================================================================
