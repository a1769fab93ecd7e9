--------------------------- MODULE MCDeferredQueue ---------------------------
(* Three slots, two workers, budgets below, at and (0) standing for the limit. *)
EXTENDS DeferredQueue

MCBudgets == {0, 1, 2}
=============================================================================
