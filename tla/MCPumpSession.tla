---------------------------- MODULE MCPumpSession ----------------------------
(* Small instances of PumpSession for TLC. *)
EXTENDS PumpSession, TLC

CONSTANTS d1, s1, s2, h1, h2

MCDevice == {d1}
OneSession == {s1}
TwoSessions == {s1, s2}
OneHandler == {h1}
TwoHandlers == {h1, h2}

\* Handlers and session ids are interchangeable.
Symmetry == Permutations(SessionId) \cup Permutations(Handler)

=============================================================================
