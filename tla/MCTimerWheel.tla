---------------------------- MODULE MCTimerWheel -----------------------------
(***************************************************************************)
(* Two slots, so that deadlines 1 and 3 share a list; four timers, two     *)
(* threads.  The passing instance ticks one by one (0: a second CPU's tick *)
(* at the same time) and callbacks re-arm into the other slot.             *)
(***************************************************************************)
EXTENDS TimerWheel

TickByTick == {0, 1}
RearmOtherSlot == {1}

ASSUME RegularAssumption == TicksInOrder /\ RearmsElsewhere
=============================================================================
