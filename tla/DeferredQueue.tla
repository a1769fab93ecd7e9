---------------------------- MODULE DeferredQueue ----------------------------
(***************************************************************************)
(* Bottom halves and deferred procedure calls (KernelDeferred.c): a ring   *)
(* buffer under one interrupt lock.  A critical section of the lock is one *)
(* step (InterruptLock shows that they exclude each other).  A worker is a *)
(* context inside OrynKernelDeferredRunPending; it runs the routine it has *)
(* taken outside the lock, so other contexts and the routine itself can    *)
(* queue work meanwhile.                                                   *)
(***************************************************************************)
EXTENDS Integers, Sequences

CONSTANTS
    Work,      \* routines (with their contexts)
    Workers,   \* contexts that call RunPending
    LIMIT,     \* ORYN_KERNEL_DEFERRED_LIMIT
    Budgets    \* budget arguments of RunPending

ASSUME LimitAssumption == LIMIT \in Nat \ {0}
ASSUME BudgetAssumption == Budgets \subseteq Nat

Slots == 0..(LIMIT - 1)
NoWork == "NoWork"
ASSUME WorkAssumption == NoWork \notin Work

VARIABLES
    Initialized,   \* gDeferredState.Initialized
    booting,       \* OrynKernelInterruptsInit has not finished
    gQueue,        \* the routine in each slot, NoWork where Used is 0
    gHead,
    gTail,
    Pending,       \* gDeferredState.Pending
    active,        \* the worker is inside RunPending
    budget,        \* what is left of the worker's budget
    item           \* the routine the worker has taken, NoWork between items

state == <<Initialized, booting>>
ring == <<gQueue, gHead, gTail, Pending>>
locals == <<active, budget, item>>
vars == <<Initialized, booting, gQueue, gHead, gTail, Pending, active, budget, item>>

Init ==
    /\ Initialized = FALSE
    /\ booting = TRUE
    /\ gQueue = [i \in Slots |-> NoWork]
    /\ gHead = 0
    /\ gTail = 0
    /\ Pending = 0
    /\ active = [k \in Workers |-> FALSE]
    /\ budget = [k \in Workers |-> 0]
    /\ item = [k \in Workers |-> NoWork]

\* Mutant of DeferredInit: the tail is not reset.
DeferredInitKeepsTail ==
    /\ booting
    /\ \A k \in Workers : ~active[k]
    /\ Initialized' = TRUE
    /\ gQueue' = [i \in Slots |-> NoWork]
    /\ gHead' = 0
    /\ Pending' = 0
    /\ UNCHANGED <<booting, gTail, locals>>

\* OrynKernelInterruptsInit starts the API and its self test starts it again.
DeferredInit ==
    /\ booting
    /\ \A k \in Workers : ~active[k]
    /\ Initialized' = TRUE
    /\ gQueue' = [i \in Slots |-> NoWork]
    /\ gHead' = 0
    /\ gTail' = 0
    /\ Pending' = 0
    /\ UNCHANGED <<booting, locals>>

BootDone ==
    /\ booting
    /\ Initialized
    /\ booting' = FALSE
    /\ UNCHANGED <<Initialized, ring, locals>>

-----------------------------------------------------------------------------
Advance(i) == (i + 1) % LIMIT

\* Called from any context, a running routine included; a full queue drops
\* the work and only counts it.
Queue(w) ==
    /\ Initialized
    /\ Pending < LIMIT
    /\ gQueue' = [gQueue EXCEPT ![gTail] = w]
    /\ gTail' = Advance(gTail)
    /\ Pending' = Pending + 1
    /\ UNCHANGED <<state, gHead, locals>>

QueueDrops(w) ==
    /\ Initialized
    /\ Pending >= LIMIT
    /\ UNCHANGED vars

-----------------------------------------------------------------------------
\* A budget of 0 stands for the whole queue.
RunPending(k, limit) ==
    /\ ~active[k]
    /\ active' = [active EXCEPT ![k] = TRUE]
    /\ budget' = [budget EXCEPT ![k] = IF limit = 0 THEN LIMIT ELSE limit]
    /\ UNCHANGED <<state, ring, item>>

\* Mutant of TakeItem: the head advances before the item is copied.
TakeItemAfterAdvance(k) ==
    /\ active[k]
    /\ item[k] = NoWork
    /\ budget[k] > 0
    /\ Pending # 0
    /\ item' = [item EXCEPT ![k] = gQueue[Advance(gHead)]]
    /\ gQueue' = [gQueue EXCEPT ![gHead] = NoWork]
    /\ gHead' = Advance(gHead)
    /\ Pending' = Pending - 1
    /\ UNCHANGED <<state, gTail, active, budget>>

\* Take the oldest item and clear its slot, under the lock.
TakeItem(k) ==
    /\ active[k]
    /\ item[k] = NoWork
    /\ budget[k] > 0
    /\ Pending # 0
    /\ item' = [item EXCEPT ![k] = gQueue[gHead]]
    /\ gQueue' = [gQueue EXCEPT ![gHead] = NoWork]
    /\ gHead' = Advance(gHead)
    /\ Pending' = Pending - 1
    /\ UNCHANGED <<state, gTail, active, budget>>

\* Mutant of RoutineReturns: the item does not count.
RoutineReturnsUncounted(k) ==
    /\ active[k]
    /\ item[k] # NoWork
    /\ item' = [item EXCEPT ![k] = NoWork]
    /\ UNCHANGED <<state, ring, active, budget>>

\* The routine returns; only then does the item count against the budget.
RoutineReturns(k) ==
    /\ active[k]
    /\ item[k] # NoWork
    /\ item' = [item EXCEPT ![k] = NoWork]
    /\ budget' = [budget EXCEPT ![k] = @ - 1]
    /\ UNCHANGED <<state, ring, active>>

RunPendingReturns(k) ==
    /\ active[k]
    /\ item[k] = NoWork
    /\ budget[k] = 0 \/ Pending = 0
    /\ active' = [active EXCEPT ![k] = FALSE]
    /\ budget' = [budget EXCEPT ![k] = 0]
    /\ UNCHANGED <<state, ring, item>>

-----------------------------------------------------------------------------
Next ==
    \/ DeferredInit
    \/ BootDone
    \/ \E w \in Work : Queue(w) \/ QueueDrops(w)
    \/ \E k \in Workers, limit \in Budgets : RunPending(k, limit)
    \/ \E k \in Workers : TakeItem(k) \/ RoutineReturns(k) \/ RunPendingReturns(k)

Spec == Init /\ [][Next]_vars

\* A worker inside RunPending keeps executing and routines return.
FairSpec ==
    /\ Spec
    /\ \A k \in Workers : WF_vars(TakeItem(k) \/ RoutineReturns(k) \/ RunPendingReturns(k))

-----------------------------------------------------------------------------
(* Properties *)

\* Type invariant of the ring and the workers.
TypeOK ==
    /\ Initialized \in BOOLEAN
    /\ booting \in BOOLEAN
    /\ gQueue \in [Slots -> Work \cup {NoWork}]
    /\ gHead \in Slots
    /\ gTail \in Slots
    /\ Pending \in 0..LIMIT
    /\ active \in [Workers -> BOOLEAN]
    /\ budget \in [Workers -> Nat]
    /\ item \in [Workers -> Work \cup {NoWork}]

\* The slot n places behind the head.
Slot(n) == IF gHead + n < LIMIT THEN gHead + n ELSE gHead + n - LIMIT

\* Head, tail and count of the ring agree: the used slots are the Pending ones
\* that start at the head, so nothing taken is an empty or an overwritten slot.
RingConsistent ==
    /\ gTail = IF Pending = LIMIT THEN gHead ELSE Slot(Pending)
    /\ \A n \in Slots : gQueue[Slot(n)] # NoWork <=> n < Pending

\* The ring implements a first-in first-out queue: what is accepted is started
\* once and in order, and only a full queue refuses.
Contents == [n \in 1..Pending |-> gQueue[Slot(n - 1)]]
Abstract == INSTANCE DeferredWork
    WITH Limit <- LIMIT, ready <- Initialized, queue <- Contents, running <- item
Fifo == Abstract!Spec

\* RunPending returns, even when every routine it runs queues itself again:
\* the budget, not the empty queue, ends it.
RunPendingTerminates == \A k \in Workers : active[k] ~> ~active[k]
=============================================================================
