------------------------- MODULE MCThresholdService -------------------------
(* A small instance of ThresholdService for TLC. *)
EXTENDS ThresholdService, TLC

CONSTANTS d1, moisture, current, pumpOn, pumpOff, h1, h2

MCDevice == {d1}
MCSensor == {moisture, current}
MCAction == {pumpOn, pumpOff, AlertOnly}
MCHandler == {h1, h2}

Above1(level, action) == [level |-> level, action |-> action, min |-> None, max |-> 1]
Above0(level, action) == [level |-> level, action |-> action, min |-> None, max |-> 0]

\* A dry soil starts the pump, a wet one stops it; too much current stops it,
\* a little too much only raises an alert.
Soil == {[level |-> "warning", action |-> pumpOn, min |-> 1, max |-> None],
         Above1("critical", pumpOff)}
Current == {Above1("critical", pumpOff), Above0("warning", AlertOnly)}

\* The zone of the device changes its irrigation mode.
SoilOtherMode == {Above0("warning", pumpOff)}

Read(s, v, T) == [sensor |-> s, value |-> v, thresholds |-> T]

MCPayload ==
  {<<Read(moisture, v, Soil)>> : v \in 0..2}
    \cup {<<Read(current, v, Current)>> : v \in 0..2}
    \cup {<<Read(moisture, 2, Soil), Read(current, 2, Current)>>,
          <<Read(current, 0, Current), Read(moisture, 1, SoilOtherMode)>>}

Symmetry == Permutations(Handler)

=============================================================================
