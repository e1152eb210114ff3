-------------------------- MODULE MCFirmwareUpdate --------------------------
(* Small instances of FirmwareUpdate for TLC. *)
EXTENDS FirmwareUpdate, TLC

CONSTANTS d1, g1, v1, v2, w1, l1, l2, h1, h2

MCDevice == {d1}
MCGateway == {g1}
MCFirmware == {v1, v2, w1}
MCForGateway == {w1}
MCAdministered == {w1}
MCAsking == Gateway
MCLogId == {l1, l2}
MCHandler == {h1, h2}

\* Logs, handlers and the files of devices are interchangeable.
Symmetry == Permutations(LogId) \cup Permutations(Handler)
              \cup Permutations(Firmware \ ForGateway)

=============================================================================
