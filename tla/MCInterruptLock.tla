--------------------------- MODULE MCInterruptLock ---------------------------
(* Two CPUs, each with a task and an interrupt context. *)
EXTENDS InterruptLock
=============================================================================
