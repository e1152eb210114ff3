----------------------------- MODULE MCZoneConfig -----------------------------
(* Small instances of ZoneConfig for TLC. *)
EXTENDS ZoneConfig, TLC

CONSTANTS d1, g1, z1, m1, m2, r1, r2

MCDevice == {d1}
MCGateway == {g1}
MCZone == {z1}
MCMode == {m1, m2}
MCRequest == {r1, r2}

\* Requests are interchangeable.
Symmetry == Permutations(Request)

With(m1rule, common) ==
  [config |-> TRUE, by |-> [k \in RuleKey |-> IF k = m1 THEN m1rule ELSE IF k = None THEN common ELSE 0]]

MCRuleSet == {NoRules, With(1, 2)}

MCZoneUpdate == {[all |-> TRUE, mode |-> Keep, pump |-> Keep], [all |-> FALSE, mode |-> m2, pump |-> TRUE]}

\* A rename, moves, a change of pumpEnabled, and all at once.
MCDeviceUpdate ==
  LET rename == [zone |-> Keep, mode |-> Keep, pump |-> Keep] IN
  {rename, [rename EXCEPT !.zone = z1], [rename EXCEPT !.zone = None], [rename EXCEPT !.pump = TRUE],
   [zone |-> z1, mode |-> m2, pump |-> FALSE]}

\* Each behaviour has the requests of one topic.
MCScopes == {{"response", "rename", "move", "switch", "edit"},
             {"response", "toggle"},
             {"command", "acl", "assign", "rename"},
             {"toggle", "update", "schedule", "remove"},
             {"toggle", "move", "rename", "remove"},
             {"telemetry", "update", "threshold"},
             {"telemetry", "mode_response", "schedule", "config"},
             {"telemetry", "threshold", "remove", "move", "edit"}}

\* A device in a zone, behind a gateway, or by itself.
MCInit ==
  /\ scope \in Scopes
  /\ \E gateway \in {g1} \cup (IF "assign" \in scope THEN {None} ELSE {}),
        zone \in {z1, None}, all \in BOOLEAN :
       /\ devices = [d \in Device |-> [gateway |-> gateway, zone |-> zone, mode |-> None, pump |-> FALSE]]
       /\ zones = [z \in Zone |-> [there |-> TRUE, all |-> all, mode |-> m1, pump |-> FALSE]]
  /\ rules = [x \in Device \cup Zone |-> IF x \in Device THEN With(1, 2) ELSE With(3, 0)]
  /\ Init

MCSpec == MCInit /\ [][Next]_vars

=============================================================================
