--------------------------- MODULE SessionRegister ---------------------------
(***************************************************************************)
(* What session tracking promises about one kind of machine session: a     *)
(* device has at most one open session, its sessions are numbered 1, 2,    *)
(* ... in the order they were opened, and a closed session stays closed.   *)
(***************************************************************************)
EXTENDS Integers

CONSTANTS Device, SessionId, None

VARIABLE register

Entry == [phase : {"none", "open", "closed"}, device : Device \cup {None}, number : Nat]

Blank == [phase |-> "none", device |-> None, number |-> 0]

Init == register = [s \in SessionId |-> Blank]

NumbersOf(d) == {register[s].number : s \in {r \in SessionId : register[r].device = d}}

\* A session opens only when its device has none open.
Open(s, d) ==
  /\ register[s] = Blank
  /\ \A r \in SessionId : register[r].device = d => register[r].phase # "open"
  /\ \E n \in NumbersOf(d) \cup {0} :
       /\ NumbersOf(d) = 1..n
       /\ register' = [register EXCEPT ![s] =
                         [phase |-> "open", device |-> d, number |-> n + 1]]

Close(s) ==
  /\ register[s].phase = "open"
  /\ register' = [register EXCEPT ![s].phase = "closed"]

Next == \E s \in SessionId : Close(s) \/ \E d \in Device : Open(s, d)

Spec == Init /\ [][Next]_register
=============================================================================
