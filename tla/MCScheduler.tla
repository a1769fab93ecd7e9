---------------------------- MODULE MCScheduler -----------------------------
(***************************************************************************)
(* An instance of Scheduler with room for every thread.                    *)
(***************************************************************************)
EXTENDS Scheduler, TLC

ASSUME RegularAssumption == RegularUse

\* No operation tells threads or channels apart.
ThreadSymmetry == Permutations(Threads) \cup Permutations(Channels)
=============================================================================
