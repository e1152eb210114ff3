------------------------------ MODULE UpdateLog ------------------------------
(***************************************************************************)
(* What the history of firmware updates promises: an update of a target is *)
(* pending until it ends, an ended one never becomes pending again and     *)
(* keeps its target and version, and it says "success" only of a target    *)
(* that has reported one.  (Which of its updates a report is about, and    *)
(* whether an outcome stands, is not promised.)                            *)
(***************************************************************************)
EXTENDS Integers

CONSTANTS LogId, Target, Version, None

VARIABLES log, succeeded   \* the updates; the targets that reported a success

Blank == [status |-> "none", target |-> None, version |-> None]
Ended == {"success", "failed"}

Init == log = [l \in LogId |-> Blank] /\ succeeded = {}

Hear(t) == succeeded' = succeeded \cup {t} /\ UNCHANGED log

\* Only the row of l changes, and a success needs a report.
Becomes(l, Rows) ==
  /\ log'[l] \in Rows
  /\ log' = [log EXCEPT ![l] = log'[l]]
  /\ log'[l].status = "success" => log'[l].target \in succeeded
  /\ UNCHANGED succeeded

Record(l) ==
  /\ log[l] = Blank
  /\ Becomes(l, [status : Ended \cup {"pending"}, target : Target, version : Version])

End(l) ==
  /\ log[l] # Blank
  /\ Becomes(l, {[log[l] EXCEPT !.status = s] : s \in Ended})

Next == (\E t \in Target : Hear(t)) \/ (\E l \in LogId : Record(l) \/ End(l))

Spec == Init /\ [][Next]_<<log, succeeded>>
=============================================================================
