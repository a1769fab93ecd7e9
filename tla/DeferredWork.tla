---------------------------- MODULE DeferredWork -----------------------------
(***************************************************************************)
(* What the deferred-work API promises: a bounded first-in first-out queue *)
(* of routines.  Work that is accepted is started once, in the order it    *)
(* was accepted; work is refused exactly when the queue is full or the API *)
(* is not ready.  Starting the API empties the queue.                      *)
(***************************************************************************)
EXTENDS Integers, Sequences

CONSTANTS
    Work,      \* the routines that can be queued
    Workers,   \* the contexts that run pending work
    Limit      \* the most routines that can be pending

NoWork == "NoWork"

VARIABLES
    ready,     \* the API accepts work
    queue,     \* accepted and not yet started, oldest first
    running    \* the routine each worker is inside of

vars == <<ready, queue, running>>

Init ==
    /\ ready = FALSE
    /\ queue = <<>>
    /\ running = [k \in Workers |-> NoWork]

Start ==
    /\ ready' = TRUE
    /\ queue' = <<>>
    /\ UNCHANGED running

Accept(w) ==
    /\ ready
    /\ Len(queue) < Limit
    /\ queue' = Append(queue, w)
    /\ UNCHANGED <<ready, running>>

Begin(k) ==
    /\ running[k] = NoWork
    /\ queue # <<>>
    /\ running' = [running EXCEPT ![k] = Head(queue)]
    /\ queue' = Tail(queue)
    /\ UNCHANGED ready

End(k) ==
    /\ running[k] # NoWork
    /\ running' = [running EXCEPT ![k] = NoWork]
    /\ UNCHANGED <<ready, queue>>

Next ==
    \/ Start
    \/ \E w \in Work : Accept(w)
    \/ \E k \in Workers : Begin(k) \/ End(k)

Spec == Init /\ [][Next]_vars
=============================================================================
