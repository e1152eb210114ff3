-------------------------- MODULE MCScheduleEngine --------------------------
(* Small instances of ScheduleEngine for TLC. *)
EXTENDS ScheduleEngine

CONSTANTS s1, s2, d1, d2

MCSchedule == {s1, s2}
MCDevice == {d1, d2}

\* Two units are a minute.  Its second half is read again (the clock is set
\* back an hour), and the minute comes again on the next day.
MCLocal ==
  LET at(date, time) == [date |-> date, day |-> date % 7, time |-> time] IN
  <<at(1, 1), at(1, 2), at(1, 2), at(1, 2), at(2, 2)>>

MCSlot == [days |-> {1, 2}, time |-> 2, known |-> TRUE]
BadSlot == [MCSlot EXCEPT !.known = FALSE]

Dto1(type, slot, at, device, md) ==
  [type |-> type, slot |-> slot, executeAt |-> at, device |-> device, mode |-> md]

MCDto ==
  {Dto1("recurring", MCSlot, Never, None, "drip"),
   Dto1("recurring", BadSlot, Never, d1, None),
   Dto1("one_time", None, 2, d1, None),
   Dto1("one_time", MCSlot, Never, d1, None)}

MCEdit == {[type |-> "recurring"], [executeAt |-> 3], [slot |-> MCSlot]}

\* What the proof that schedules fire once asks of the clock.
ASSUME ClockAssumption == NoReturn

=============================================================================
