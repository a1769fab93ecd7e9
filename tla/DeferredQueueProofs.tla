------------------------- MODULE DeferredQueueProofs -------------------------
(***************************************************************************)
(* The ring buffer of the deferred-work API implements a bounded FIFO      *)
(* queue, for every capacity, set of routines and set of workers.          *)
(***************************************************************************)
EXTENDS DeferredQueue, TLAPS

\* A worker has an item only inside RunPending and within its budget.
ItemWithinBudget == \A k \in Workers : item[k] # NoWork => active[k] /\ budget[k] > 0

\* The inductive invariant.
IInv ==
    /\ TypeOK
    /\ RingConsistent
    /\ ItemWithinBudget

\* One step around the ring.
LEMMA AdvanceStep == \A i \in Slots : Advance(i) = IF i + 1 = LIMIT THEN 0 ELSE i + 1
<1> SUFFICES ASSUME NEW i \in Slots PROVE Advance(i) = IF i + 1 = LIMIT THEN 0 ELSE i + 1
  OBVIOUS
<1>1. CASE i + 1 = LIMIT
  BY <1>1, LimitAssumption DEF Advance, Slots
<1>2. CASE i + 1 # LIMIT
  BY <1>2, LimitAssumption DEF Advance, Slots
<1> QED BY <1>1, <1>2

\* Nothing is pending before the API starts.
LEMMA InitIInv == Init => IInv
<1> SUFFICES ASSUME Init PROVE IInv
  OBVIOUS
<1>1. TypeOK
  <2>1. 0 \in Slots
    BY LimitAssumption DEF Slots
  <2>2. Pending \in 0..LIMIT /\ gHead \in Slots /\ gTail \in Slots
    BY <2>1, LimitAssumption DEF Init
  <2>3. budget \in [Workers -> Nat]
    BY DEF Init
  <2>4. active \in [Workers -> BOOLEAN] /\ Initialized \in BOOLEAN /\ booting \in BOOLEAN
    BY Zenon DEF Init
  <2>5. gQueue \in [Slots -> Work \cup {NoWork}] /\ item \in [Workers -> Work \cup {NoWork}]
    BY DEF Init
  <2> QED BY <2>2, <2>3, <2>4, <2>5 DEF TypeOK
<1>2. RingConsistent
  BY LimitAssumption DEF Init, RingConsistent, Slots, Slot
<1> QED BY <1>1, <1>2 DEF Init, IInv, ItemWithinBudget

\* Starting the API empties the ring.
LEMMA DeferredInitIInv == ASSUME IInv, DeferredInit PROVE IInv'
<1>1. TypeOK'
  BY LimitAssumption DEF DeferredInit, locals, IInv, TypeOK, Slots
<1>2. RingConsistent'
  BY LimitAssumption DEF DeferredInit, RingConsistent, Slots, Slot
<1> QED BY <1>1, <1>2 DEF DeferredInit, locals, IInv, ItemWithinBudget

\* A queued routine fills the slot behind the last used one.
LEMMA QueueIInv == ASSUME IInv, NEW w \in Work, Queue(w) PROVE IInv'
<1>1. TypeOK'
  BY LimitAssumption, AdvanceStep DEF Queue, state, locals, IInv, TypeOK, Slots
<1>2. gTail = Slot(Pending) /\ Pending \in Slots
  BY LimitAssumption DEF Queue, IInv, TypeOK, RingConsistent, Slots
<1>3. gTail' = IF Pending' = LIMIT THEN gHead' ELSE Slot(Pending)'
  BY <1>2, LimitAssumption, AdvanceStep DEF Queue, IInv, TypeOK, Slots, Slot
<1>4. ASSUME NEW n \in Slots
      PROVE  gQueue'[Slot(n)'] # NoWork <=> n < Pending'
  <2>1. Slot(n)' = Slot(n) /\ Slot(n) \in Slots
    BY LimitAssumption DEF Queue, IInv, TypeOK, Slots, Slot
  <2>2. Slot(n) = gTail <=> n = Pending
    BY <1>2, LimitAssumption DEF IInv, TypeOK, Slots, Slot
  <2>3. CASE n = Pending
    BY <2>1, <2>2, <2>3, WorkAssumption, LimitAssumption DEF Queue, IInv, TypeOK, Slots
  <2>4. CASE n # Pending
    <3>1. gQueue'[Slot(n)'] = gQueue[Slot(n)]
      BY <2>1, <2>2, <2>4 DEF Queue, IInv, TypeOK
    <3>2. n < Pending' <=> n < Pending
      BY <2>4, LimitAssumption DEF Queue, IInv, TypeOK, Slots
    <3> QED BY <3>1, <3>2 DEF IInv, RingConsistent
  <2> QED BY <2>3, <2>4
<1>5. RingConsistent'
  BY <1>3, <1>4 DEF RingConsistent, Slots
<1> QED BY <1>1, <1>5 DEF Queue, locals, IInv, ItemWithinBudget

\* Taking the oldest routine moves the head onto the next used slot.
LEMMA TakeItemIInv == ASSUME IInv, NEW k \in Workers, TakeItem(k) PROVE IInv'
<1>1. TypeOK'
  BY LimitAssumption, AdvanceStep DEF TakeItem, state, IInv, TypeOK, Slots
<1>2. gTail' = IF Pending' = LIMIT THEN gHead' ELSE Slot(Pending)'
  BY LimitAssumption, AdvanceStep DEF TakeItem, IInv, TypeOK, RingConsistent, Slots, Slot
<1>3. ASSUME NEW n \in Slots
      PROVE  gQueue'[Slot(n)'] # NoWork <=> n < Pending'
  <2>1. CASE n = LIMIT - 1
    <3>1. Slot(n)' = gHead
      BY <2>1, LimitAssumption, AdvanceStep DEF TakeItem, IInv, TypeOK, Slots, Slot
    <3>2. gQueue'[Slot(n)'] = NoWork
      BY <3>1 DEF TakeItem, IInv, TypeOK
    <3> QED BY <2>1, <3>2, LimitAssumption DEF TakeItem, IInv, TypeOK
  <2>2. CASE n # LIMIT - 1
    <3>1. n + 1 \in Slots /\ Slot(n)' = Slot(n + 1) /\ Slot(n + 1) # gHead /\ Slot(n + 1) \in Slots
      BY <2>2, LimitAssumption, AdvanceStep DEF TakeItem, IInv, TypeOK, Slots, Slot
    <3>2. gQueue'[Slot(n)'] = gQueue[Slot(n + 1)]
      BY <3>1 DEF TakeItem, IInv, TypeOK
    <3>3. n < Pending' <=> n + 1 < Pending
      BY LimitAssumption DEF TakeItem, IInv, TypeOK, Slots
    <3> QED BY <3>1, <3>2, <3>3 DEF IInv, RingConsistent
  <2> QED BY <2>1, <2>2
<1>4. RingConsistent'
  BY <1>2, <1>3 DEF RingConsistent, Slots
<1> QED BY <1>1, <1>4 DEF TakeItem, IInv, TypeOK, ItemWithinBudget

\* A step that leaves the ring alone leaves it consistent.
LEMMA RingUnchanged == ASSUME IInv, UNCHANGED ring PROVE RingConsistent'
BY DEF IInv, RingConsistent, ring, Slot

\* Entering RunPending.
LEMMA RunPendingIInv ==
    ASSUME IInv, NEW k \in Workers, NEW limit \in Budgets, RunPending(k, limit) PROVE IInv'
<1>1. TypeOK'
  BY LimitAssumption, BudgetAssumption DEF RunPending, state, ring, IInv, TypeOK
<1>2. ItemWithinBudget'
  BY DEF RunPending, IInv, TypeOK, ItemWithinBudget
<1> QED BY <1>1, <1>2, RingUnchanged DEF RunPending, IInv

\* A routine returns to its worker.
LEMMA RoutineReturnsIInv == ASSUME IInv, NEW k \in Workers, RoutineReturns(k) PROVE IInv'
<1>1. TypeOK'
  BY DEF RoutineReturns, state, ring, IInv, TypeOK, ItemWithinBudget
<1>2. ItemWithinBudget'
  BY DEF RoutineReturns, IInv, TypeOK, ItemWithinBudget
<1> QED BY <1>1, <1>2, RingUnchanged DEF RoutineReturns, IInv

\* Leaving RunPending.
LEMMA RunPendingReturnsIInv == ASSUME IInv, NEW k \in Workers, RunPendingReturns(k) PROVE IInv'
<1>1. TypeOK'
  BY DEF RunPendingReturns, state, ring, IInv, TypeOK
<1>2. ItemWithinBudget'
  BY DEF RunPendingReturns, IInv, TypeOK, ItemWithinBudget
<1> QED BY <1>1, <1>2, RingUnchanged DEF RunPendingReturns, IInv

\* Every step keeps the invariant.
LEMMA NextIInv == IInv /\ [Next]_vars => IInv'
<1> SUFFICES ASSUME IInv, [Next]_vars PROVE IInv'
  OBVIOUS
<1>1. CASE BootDone
  BY <1>1, RingUnchanged DEF BootDone, ring, locals, IInv, TypeOK, ItemWithinBudget
<1>2. CASE UNCHANGED vars
  BY <1>2, RingUnchanged DEF vars, ring, IInv, TypeOK, ItemWithinBudget
<1>3. CASE \E w \in Work : QueueDrops(w)
  BY <1>2, <1>3 DEF QueueDrops
<1> QED BY <1>1, <1>2, <1>3, DeferredInitIInv, QueueIInv, TakeItemIInv, RunPendingIInv,
           RoutineReturnsIInv, RunPendingReturnsIInv DEF Next

\* The inductive invariant holds throughout.
THEOREM Invariance == Spec => []IInv
BY InitIInv, NextIInv, PTL DEF Spec

\* The state of the queue keeps its type: the ring indices never leave the
\* array and the count never exceeds its size.
THEOREM TypeCorrect == Spec => []TypeOK
<1>1. IInv => TypeOK
  BY DEF IInv
<1> QED BY <1>1, Invariance, PTL

\* Head, tail, count and used slots of the ring always agree.
THEOREM RingAlwaysConsistent == Spec => []RingConsistent
<1>1. IInv => RingConsistent
  BY DEF IInv
<1> QED BY <1>1, Invariance, PTL

-----------------------------------------------------------------------------
(* The ring implements the abstract queue. *)

\* The pending routines, oldest first, are a sequence of routines.
LEMMA ContentsType == IInv => Contents \in Seq(Work) /\ Len(Contents) = Pending
<1> SUFFICES ASSUME IInv PROVE Contents \in Seq(Work) /\ Len(Contents) = Pending
  OBVIOUS
<1>1. ASSUME NEW n \in 1..Pending PROVE gQueue[Slot(n - 1)] \in Work
  <2>1. n - 1 \in Slots /\ Slot(n - 1) \in Slots /\ n - 1 < Pending
    BY LimitAssumption DEF IInv, TypeOK, Slots, Slot
  <2> QED BY <2>1 DEF IInv, TypeOK, RingConsistent
<1> QED BY <1>1, LimitAssumption DEF Contents, IInv, TypeOK

\* The same of the next state.
LEMMA ContentsTypeNext == IInv' => Contents' \in Seq(Work) /\ Len(Contents') = Pending'
<1> SUFFICES ASSUME IInv' PROVE Contents' \in Seq(Work) /\ Len(Contents') = Pending'
  OBVIOUS
<1>1. Pending' \in 0..LIMIT /\ gHead' \in 0..(LIMIT - 1)
  BY DEF IInv, TypeOK, Slots
<1>2. ASSUME NEW m \in 0..(LIMIT - 1), m < Pending' PROVE gQueue'[Slot(m)'] \in Work
  <2> DEFINE h == gHead'
  <2>1. h \in Int /\ 0 <= h /\ h < LIMIT /\ m \in Int /\ 0 <= m /\ m < LIMIT /\ LIMIT \in Int
    BY <1>1, LimitAssumption
  <2> HIDE DEF h
  <2>2. (IF h + m < LIMIT THEN h + m ELSE h + m - LIMIT) \in 0..(LIMIT - 1)
    BY <2>1
  <2>3. Slot(m)' \in Slots
    BY <2>2 DEF Slot, Slots, h
  <2> QED BY <1>2, <2>3 DEF IInv, TypeOK, RingConsistent, Slots
<1>3. ASSUME NEW n \in 1..Pending' PROVE gQueue'[Slot(n - 1)'] \in Work
  <2>1. n - 1 \in 0..(LIMIT - 1) /\ n - 1 < Pending'
    BY <1>1, LimitAssumption
  <2> QED BY <1>2, <2>1
<1> QED BY <1>1, <1>3, LimitAssumption DEF Contents

\* Queue appends to the contents.
LEMMA QueueRefines ==
    ASSUME IInv, NEW w \in Work, Queue(w) PROVE Contents' = Append(Contents, w)
<1>1. IInv'
  BY QueueIInv
<1>2. gTail = Slot(Pending) /\ Pending \in Nat /\ Pending' = Pending + 1
  BY LimitAssumption DEF Queue, IInv, TypeOK, RingConsistent, Slots
<1>3. ASSUME NEW n \in 1..Pending' PROVE Contents'[n] = Append(Contents, w)[n]
  <2>1. Slot(n - 1)' = Slot(n - 1) /\ Slot(n - 1) \in Slots
    BY <1>2, LimitAssumption DEF Queue, IInv, TypeOK, Slots, Slot
  <2>2. Contents'[n] = gQueue'[Slot(n - 1)]
    BY <2>1 DEF Contents
  <2>3. CASE n = Pending + 1
    BY <1>2, <2>1, <2>2, <2>3, ContentsType DEF Queue, IInv, TypeOK
  <2>4. CASE n # Pending + 1
    <3>1. n \in 1..Pending
      BY <1>2, <2>4
    <3>2. Slot(n - 1) # gTail
      BY <1>2, <3>1, LimitAssumption DEF Queue, IInv, TypeOK, Slots, Slot
    <3>3. Contents'[n] = gQueue[Slot(n - 1)]
      BY <2>1, <2>2, <3>2 DEF Queue, IInv, TypeOK
    <3> QED BY <1>2, <3>1, <3>3, ContentsType DEF Contents
  <2> QED BY <2>3, <2>4
<1>4. Contents' \in Seq(Work) /\ Len(Contents') = Pending'
  BY <1>1, ContentsTypeNext
<1>5. Append(Contents, w) \in Seq(Work) /\ Len(Append(Contents, w)) = Pending'
  BY <1>2, ContentsType
<1> QED BY <1>2, <1>3, <1>4, <1>5

\* TakeItem removes the first of the contents.
LEMMA TakeItemRefines ==
    ASSUME IInv, NEW k \in Workers, TakeItem(k)
    PROVE  Contents # <<>> /\ gQueue[gHead] = Head(Contents) /\ Contents' = Tail(Contents)
<1>1. IInv'
  BY TakeItemIInv
<1>2. Pending \in Nat \ {0} /\ Pending' = Pending - 1
  BY LimitAssumption DEF TakeItem, IInv, TypeOK
<1>3. Contents # <<>> /\ gQueue[gHead] = Head(Contents)
  <2>1. Contents[1] = gQueue[gHead]
    BY <1>2, LimitAssumption DEF Contents, Slot, IInv, TypeOK, Slots
  <2> QED BY <1>2, <2>1, ContentsType
<1>4. ASSUME NEW n \in 1..Pending' PROVE Contents'[n] = Tail(Contents)[n]
  <2>1. Slot(n - 1)' = Slot(n) /\ Slot(n) # gHead /\ Slot(n) \in Slots
    <3>1. n \in Nat /\ n > 0 /\ n < LIMIT
      BY <1>2, LimitAssumption DEF IInv, TypeOK
    <3>2. gHead' = IF gHead + 1 = LIMIT THEN 0 ELSE gHead + 1
      BY AdvanceStep DEF TakeItem, IInv, TypeOK
    <3> QED BY <3>1, <3>2, LimitAssumption DEF IInv, TypeOK, Slots, Slot
  <2>2. Contents'[n] = gQueue[Slot(n)]
    BY <2>1 DEF Contents, TakeItem, IInv, TypeOK
  <2>3. Tail(Contents)[n] = Contents[n + 1]
    BY <1>2, ContentsType
  <2> QED BY <1>2, <2>2, <2>3 DEF Contents
<1>5. Contents' \in Seq(Work) /\ Len(Contents') = Pending'
  BY <1>1, ContentsTypeNext
<1>6. Tail(Contents) \in Seq(Work) /\ Len(Tail(Contents)) = Pending'
  BY <1>2, ContentsType
<1> QED BY <1>2, <1>3, <1>4, <1>5, <1>6

\* A step that leaves the ring alone leaves the contents alone.
LEMMA ContentsUnchanged == ASSUME UNCHANGED ring PROVE Contents' = Contents
BY DEF Contents, Slot, ring

\* Every step of the ring is a step of the abstract queue or changes nothing
\* of it.
LEMMA StepRefines == IInv /\ [Next]_vars => [Abstract!Next]_(Abstract!vars)
<1> SUFFICES ASSUME IInv, [Next]_vars PROVE [Abstract!Next]_(Abstract!vars)
  OBVIOUS
<1> USE DEF Abstract!Next, Abstract!vars
<1>1. CASE DeferredInit
  <2>1. Contents' = <<>>
    BY <1>1 DEF DeferredInit, Contents
  <2> QED BY <1>1, <2>1 DEF DeferredInit, locals, Abstract!Start
<1>2. ASSUME NEW w \in Work, Queue(w) PROVE Abstract!Accept(w)
  BY <1>2, QueueRefines, ContentsType DEF Queue, state, locals, Abstract!Accept
<1>3. ASSUME NEW k \in Workers, TakeItem(k) PROVE Abstract!Begin(k)
  BY <1>3, TakeItemRefines DEF TakeItem, state, Abstract!Begin, NoWork, Abstract!NoWork
<1>4. ASSUME NEW k \in Workers, RoutineReturns(k) PROVE Abstract!End(k)
  BY <1>4, ContentsUnchanged DEF RoutineReturns, state, Abstract!End, NoWork, Abstract!NoWork
<1>5. CASE \/ BootDone
           \/ \E w \in Work : QueueDrops(w)
           \/ \E k \in Workers, limit \in Budgets : RunPending(k, limit)
           \/ \E k \in Workers : RunPendingReturns(k)
           \/ UNCHANGED vars
  <2>1. UNCHANGED ring /\ UNCHANGED item /\ UNCHANGED Initialized
    BY <1>5 DEF BootDone, QueueDrops, RunPending, RunPendingReturns, vars, ring, state, locals
  <2> QED BY <2>1, ContentsUnchanged
<1> QED BY <1>1, <1>2, <1>3, <1>4, <1>5 DEF Next

\* Before the API starts the contents are empty.
LEMMA InitRefines == Init => Abstract!Init
BY DEF Init, Contents, NoWork, Abstract!Init, Abstract!NoWork

\* The ring buffer implements the bounded first-in first-out queue: accepted
\* work is started once and in order, and only a full queue refuses work.
THEOREM Implements == Spec => Fifo
<1>1. Spec => Abstract!Init /\ [][Abstract!Next]_(Abstract!vars)
  BY InitRefines, StepRefines, Invariance, PTL DEF Spec
<1> QED BY <1>1 DEF Fifo, Abstract!Spec
=============================================================================
