------------------------- MODULE MCFertilizerSession -------------------------
(* A small instance of FertilizerSession for TLC. *)
EXTENDS FertilizerSession, TLC

CONSTANTS d1, s1, s2, h1, h2

MCDevice == {d1}
OneSession == {s1}
TwoSessions == {s1, s2}
OneHandler == {h1}
TwoHandlers == {h1, h2}

MCQuery == {[from |-> 0, to |-> 0], [from |-> 0, to |-> 1]}

MCScopes == {{"cron", "failure"}, {"sessions", "last_will"}, {"overlap"}}

\* Handlers and session ids are interchangeable.
Symmetry == Permutations(SessionId) \cup Permutations(Handler)

=============================================================================
