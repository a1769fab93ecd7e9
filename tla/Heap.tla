---------------------------------- MODULE Heap ----------------------------------
(***************************************************************************)
(* The kernel heap: raw blocks with headers in spans of physical pages,    *)
(* slab caches of fixed-size objects, object caches on top of them, guard  *)
(* records, the statistics and the validator that compares them with the   *)
(* blocks.  A memory unit stands for 16 aligned bytes; a header takes      *)
(* HeaderUnits of them.                                                    *)
(***************************************************************************)
EXTENDS Integers, Sequences, FiniteSets, SequencesExt, FiniteSetsExt, Functions

CONSTANTS
    HeapPages,      \* page numbers the physical allocator can hand out
    PageUnits,      \* ORYN_PHYSICAL_PAGE_SIZE
    HeaderUnits,    \* sizeof(OrynKernelHeapBlock)
    MinSplit,       \* ORYN_KERNEL_HEAP_MIN_SPLIT
    MaxSpan,        \* the most pages of one span
    SlabSizes,      \* the object sizes of the slab caches, ascending
    Requests,       \* sizes callers ask for
    ObjectSize,     \* the size of the objects of the object cache
    MaxGuards,      \* ORYN_KERNEL_HEAP_GUARD_RECORD_COUNT
    MaxLive         \* bound: allocations that are live at once

VARIABLES
    heap,    \* blocks, caches, guards, statistics
    owned    \* what callers hold: pointer to [size, crit, obj]

heapVars == <<heap, owned>>

Caches == DOMAIN SlabSizes

\* What the statistics count; the leak counters are copies of active and requested.
Stats == [free : Nat, allocated : Nat, requested : Nat, raw : Nat, slab : Nat,
          leaks : Nat, leakBytes : Nat]

\* A raw block: its address, payload size, what was asked for, and its flags.
RawBlock == [at : Nat, size : Nat, req : Nat, free : BOOLEAN, crit : BOOLEAN]

SlabBlock == [cache : Caches, req : Nat, free : BOOLEAN, obj : BOOLEAN]

\* An object cache: its live objects, allocations minus frees, and the global count.
ObjectCache == [active : Nat, balance : Int, all : Nat]

Payload(b) == b.at + HeaderUnits

\* OrynHeapRefreshLeakCounters.
Refreshed(st) == [st EXCEPT !.leaks = st.raw + st.slab, !.leakBytes = st.requested]

Minus(a, b) == IF a >= b THEN a - b ELSE 0

\* The statistics of handing out, and of taking back, a block of this size.
Charged(st, size, req, raw, slab) ==
    Refreshed([st EXCEPT !.allocated = @ + size, !.requested = @ + req,
                         !.raw = @ + raw, !.slab = @ + slab])

Credited(st, size, req, raw, slab) ==
    Refreshed([st EXCEPT !.allocated = Minus(@, size), !.requested = Minus(@, req),
                         !.free = @ + size, !.raw = Minus(@, raw), !.slab = Minus(@, slab)])

\* FindFreeBlock: the first block of the list that is large enough.
Fitting(h, size, crit) ==
    {i \in DOMAIN h.blocks : h.blocks[i].free /\ h.blocks[i].crit = crit /\ h.blocks[i].size >= size}

\* AddHeapSpan: pages come one by one from the physical allocator and must turn
\* out to be contiguous; the span goes to the head of the list.
Spans(h, size, crit) ==
    LET k == (size + HeaderUnits + PageUnits - 1) \div PageUnits
        runs == {S \in kSubset(k, h.pages) : Max(S) - Min(S) = k - 1}
    IN  IF k > MaxSpan THEN {}
        ELSE {[h EXCEPT !.pages = @ \ S,
                        !.blocks = <<[at |-> Min(S) * PageUnits, size |-> k * PageUnits - HeaderUnits,
                                      req |-> 0, free |-> TRUE, crit |-> crit]>> \o @,
                        !.stats.free = @ + k * PageUnits - HeaderUnits] : S \in runs}

\* Mutant of SplitBlockIfUseful: the header of the rest is not accounted for.
SplitTooLong(h, i, size) ==
    LET b == h.blocks[i]
        rest == [at |-> Payload(b) + size, size |-> b.size - size, req |-> 0, free |-> TRUE, crit |-> b.crit]
    IN  IF b.size <= size + HeaderUnits + MinSplit THEN h
        ELSE [h EXCEPT !.blocks = InsertAt([@ EXCEPT ![i].size = size], i + 1, rest),
                       !.stats.free = @ + rest.size]

SplitBlockIfUseful(h, i, size) ==
    LET b == h.blocks[i]
        rest == [at |-> Payload(b) + size, size |-> b.size - size - HeaderUnits,
                 req |-> 0, free |-> TRUE, crit |-> b.crit]
    IN  IF b.size <= size + HeaderUnits + MinSplit THEN h
        ELSE [h EXCEPT !.blocks = InsertAt([@ EXCEPT ![i].size = size], i + 1, rest),
                       !.stats.free = @ + rest.size]

TakeRaw(h, i, size) ==
    LET whole == [h EXCEPT !.stats.free = Minus(@, h.blocks[i].size)]
        cut == SplitBlockIfUseful(whole, i, size)
    IN  <<[cut EXCEPT !.blocks[i].free = FALSE, !.blocks[i].req = size,
                      !.stats = Charged(@, cut.blocks[i].size, size, 1, 0)],
          Payload(h.blocks[i])>>

\* OrynHeapAllocateRaw: the possible heaps and pointers, none when it fails.
AllocateRaw(h, size, crit) ==
    LET fit == Fitting(h, size, crit)
    IN  IF fit # {} THEN {TakeRaw(h, Min(fit), size)}
        ELSE {TakeRaw(g, 1, size) : g \in Spans(h, size, crit)}

\* BlocksTouch and the flags under CoalesceWithNext.
Touching(b, c) == b.free /\ c.free /\ b.crit = c.crit /\ Payload(b) + b.size = c.at

\* Only the next block of the list is tried; the header that disappears is added
\* to the block and to no statistic.
CoalesceWithNext(h, i) ==
    IF i < Len(h.blocks) /\ Touching(h.blocks[i], h.blocks[i + 1])
    THEN [h EXCEPT !.blocks = RemoveAt([@ EXCEPT ![i].size = @ + HeaderUnits + h.blocks[i + 1].size], i + 1)]
    ELSE h

RawAt(h, p) == {i \in DOMAIN h.blocks : Payload(h.blocks[i]) = p}

\* OrynHeapFreeRaw; a pointer that is no block or a free one is only counted.
FreeRaw(h, p) ==
    IF RawAt(h, p) = {} \/ h.blocks[Min(RawAt(h, p))].free THEN h
    ELSE LET i == Min(RawAt(h, p)) b == h.blocks[i]
         IN  CoalesceWithNext([h EXCEPT !.blocks[i].free = TRUE, !.blocks[i].req = 0,
                                        !.stats = Credited(@, b.size, b.req, 1, 0)], i)

\* The cache for a size, 0 when it is too large for all of them.
FindSlabCache(size) ==
    LET ok == {c \in Caches : size <= SlabSizes[c]} IN IF ok = {} THEN 0 ELSE Min(ok)

\* GrowSlabCache cuts a page into objects and pushes them one after another.
GrowSlabCache(h, c) ==
    LET step == SlabSizes[c] + HeaderUnits
        n == PageUnits \div step
        obj(pg, i) == pg * PageUnits + (i - 1) * step + HeaderUnits
    IN  {[h EXCEPT !.pages = @ \ {pg},
                   !.lists[c] = Reverse([i \in 1 .. n |-> obj(pg, i)]) \o @,
                   !.slabs = [p \in {obj(pg, i) : i \in 1 .. n} |->
                                [cache |-> c, req |-> 0, free |-> TRUE, obj |-> FALSE]] @@ @,
                   !.stats.free = @ + n * SlabSizes[c]] : pg \in h.pages}

TakeObject(h, c, size, isObj) ==
    LET p == Head(h.lists[c]) IN
    <<[h EXCEPT !.lists[c] = Tail(@),
                !.slabs[p] = [@ EXCEPT !.free = FALSE, !.req = size, !.obj = isObj],
                !.stats = Charged([@ EXCEPT !.free = Minus(@, SlabSizes[c])], SlabSizes[c], size, 0, 1)], p>>

SlabAllocate(h, c, size, isObj) ==
    IF h.lists[c] # <<>> THEN {TakeObject(h, c, size, isObj)}
    ELSE {TakeObject(g, c, size, isObj) : g \in GrowSlabCache(h, c)}

SlabFree(h, p) ==
    LET b == h.slabs[p] IN
    IF b.free THEN h
    ELSE [h EXCEPT !.lists[b.cache] = <<p>> \o @,
                   !.slabs[p] = [@ EXCEPT !.free = TRUE, !.req = 0, !.obj = FALSE],
                   !.stats = Credited(@, SlabSizes[b.cache], b.req, 0, 1)]

\* kmalloc: a slab if the size fits one and a page can be had, a raw block else.
Kmalloc(h, size) ==
    LET c == FindSlabCache(size)
        slab == IF c = 0 THEN {} ELSE SlabAllocate(h, c, size, FALSE)
    IN  IF slab # {} THEN slab ELSE AllocateRaw(h, size, FALSE)

Kfree(h, p) == IF p \in DOMAIN h.slabs THEN SlabFree(h, p) ELSE FreeRaw(h, p)

Requested(h, p) == IF p \in DOMAIN h.slabs THEN h.slabs[p].req ELSE h.blocks[Min(RawAt(h, p))].req

\* krealloc of a smaller size stays where it is.
Shrunk(h, p, size) ==
    LET st == Refreshed([h.stats EXCEPT !.requested = Minus(@, Requested(h, p) - size)])
    IN  IF p \in DOMAIN h.slabs THEN [h EXCEPT !.slabs[p].req = size, !.stats = st]
        ELSE [h EXCEPT !.blocks[Min(RawAt(h, p))].req = size, !.stats = st]

\* OrynKernelHeapInit: one page is primed, the seed block is freed again.
Primed(h) == {FreeRaw(r[1], r[2]) : r \in AllocateRaw(h, PageUnits \div 2, FALSE)}

EmptyHeap ==
    [blocks |-> <<>>, slabs |-> <<>>, lists |-> [c \in Caches |-> <<>>], pages |-> HeapPages,
     guards |-> <<>>, cache |-> [active |-> 0, balance |-> 0, all |-> 0],
     stats |-> [free |-> 0, allocated |-> 0, requested |-> 0, raw |-> 0, slab |-> 0,
                leaks |-> 0, leakBytes |-> 0]]

HeapInit == heap \in Primed(EmptyHeap) /\ owned = <<>>

Holds(p) == p \in DOMAIN owned
Room == Cardinality(DOMAIN owned) < MaxLive

DoKmalloc(size) ==
    /\ Room
    /\ \E r \in Kmalloc(heap, size) :
          heap' = r[1] /\ owned' = (r[2] :> [size |-> size, crit |-> FALSE, obj |-> FALSE]) @@ owned

\* OrynKernelHeapAllocCritical takes a page of its own for the guard, which is
\* recorded while there are records.
DoAllocCritical(size) ==
    /\ Room
    /\ \E r \in AllocateRaw(heap, size, TRUE) :
          /\ \/ r[1].pages = {} /\ heap' = r[1]
             \/ \E pg \in r[1].pages :
                   heap' = [r[1] EXCEPT !.pages = @ \ {pg},
                              !.guards = IF Len(@) < MaxGuards THEN Append(@, "critical") ELSE @]
          /\ owned' = (r[2] :> [size |-> size, crit |-> TRUE, obj |-> FALSE]) @@ owned

\* A guard record for a stack is never taken back.
DoInstallStackGuard(p) ==
    /\ Holds(p) /\ owned[p].size >= PageUnits /\ Len(heap.guards) < MaxGuards
    /\ heap' = [heap EXCEPT !.guards = Append(@, "stack")]
    /\ UNCHANGED owned

\* OrynKernelHeapObjectAlloc and OrynKernelHeapObjectFree.
DoObjectAlloc ==
    /\ Room
    /\ \E r \in SlabAllocate(heap, FindSlabCache(ObjectSize), ObjectSize, TRUE) :
          /\ heap' = [r[1] EXCEPT !.cache = [@ EXCEPT !.active = @ + 1, !.balance = @ + 1, !.all = @ + 1]]
          /\ owned' = (r[2] :> [size |-> ObjectSize, crit |-> FALSE, obj |-> TRUE]) @@ owned

DoObjectFree(p) ==
    /\ Holds(p) /\ p \in DOMAIN heap.slabs /\ heap.slabs[p].obj
    /\ heap' = SlabFree([heap EXCEPT !.cache = [@ EXCEPT !.active = Minus(@, 1), !.balance = @ - 1, !.all = Minus(@, 1)]], p)
    /\ owned' = Restrict(owned, DOMAIN owned \ {p})

\* kfree by the holder, and kfree of a pointer that was freed and not reused.
DoKfree(p) ==
    /\ Holds(p) /\ ~owned[p].obj
    /\ heap' = Kfree(heap, p)
    /\ owned' = Restrict(owned, DOMAIN owned \ {p})

DoDoubleFree(p) ==
    /\ ~Holds(p)
    /\ heap' = Kfree(heap, p)
    /\ UNCHANGED owned

\* krealloc copies into the new block before the old one is freed.
DoKrealloc(p, size) ==
    /\ Holds(p) /\ ~owned[p].obj /\ ~owned[p].crit
    /\ IF Requested(heap, p) >= size
       THEN heap' = Shrunk(heap, p, size) /\ owned' = [owned EXCEPT ![p].size = size]
       ELSE \E r \in Kmalloc(heap, size) :
              /\ heap' = Kfree(r[1], p)
              /\ owned' = (r[2] :> [size |-> size, crit |-> FALSE, obj |-> FALSE])
                             @@ Restrict(owned, DOMAIN owned \ {p})

Known(h) == DOMAIN h.slabs \cup {Payload(b) : b \in Range(h.blocks)}

HeapNext ==
    \/ \E size \in Requests : DoKmalloc(size) \/ DoAllocCritical(size)
    \/ DoObjectAlloc
    \/ \E p \in Known(heap) :
          \/ DoInstallStackGuard(p) \/ DoObjectFree(p) \/ DoKfree(p) \/ DoDoubleFree(p)
          \/ \E size \in Requests : DoKrealloc(p, size)

HeapSpec == HeapInit /\ [][HeapNext]_heapVars

HeapTypeOK ==
    /\ heap.stats \in Stats /\ heap.cache \in ObjectCache /\ heap.pages \subseteq HeapPages
    /\ \A i \in DOMAIN heap.blocks : heap.blocks[i] \in RawBlock
    /\ \A p \in DOMAIN heap.slabs : heap.slabs[p] \in SlabBlock

\* ValidateRawBlocks and ValidateSlabCaches: the bytes and counts of the blocks.
SumOf(op(_), S) == MapThenSumSet(op, S)
UsedRaw == {i \in DOMAIN heap.blocks : ~heap.blocks[i].free}
UsedSlab == {p \in DOMAIN heap.slabs : ~heap.slabs[p].free}

\* What memory callers hold: payloads never overlap each other, a header or a free
\* block, whatever is split, merged, shrunk or freed twice.
PayloadsDisjoint ==
    LET span(p) == p .. p + owned[p].size - 1
        headers == UNION {b.at .. b.at + HeaderUnits - 1 : b \in Range(heap.blocks)}
        freed == UNION {Payload(b) .. Payload(b) + b.size - 1 : b \in {c \in Range(heap.blocks) : c.free}}
    IN  /\ \A p, q \in DOMAIN owned : p # q => span(p) \cap span(q) = {}
        /\ \A p \in DOMAIN owned : span(p) \cap (headers \cup freed) = {}
        /\ \A p \in DOMAIN owned : \A u \in span(p) : u \div PageUnits \notin heap.pages

\* OrynKernelHeapValidate accepts every state legal calls and double frees lead
\* to: bytes, counts, leak counters and object caches agree with the blocks.
HeapValidates ==
    /\ heap.stats.allocated = SumOf(LAMBDA i : heap.blocks[i].size, UsedRaw)
                              + SumOf(LAMBDA p : SlabSizes[heap.slabs[p].cache], UsedSlab)
    /\ heap.stats.raw = Cardinality(UsedRaw) /\ heap.stats.slab = Cardinality(UsedSlab)
    /\ heap.stats.leaks = Cardinality(DOMAIN owned)
    /\ heap.stats.leakBytes = SumOf(LAMBDA p : owned[p].size, DOMAIN owned)
    /\ heap.cache.active = heap.cache.all /\ heap.cache.balance >= 0

\* The heap never claims more free bytes than its free blocks have, although a
\* merge adds a header to a block and not to FreeBytes.
FreeBytesNotOverstated ==
    heap.stats.free <= SumOf(LAMBDA i : heap.blocks[i].size, DOMAIN heap.blocks \ UsedRaw)
                       + SumOf(LAMBDA p : SlabSizes[heap.slabs[p].cache], DOMAIN heap.slabs \ UsedSlab)

\* Blocks for critical allocations and ordinary ones never mix: a holder has a
\* block of the kind it asked for.
CriticalApart ==
    \A p \in DOMAIN owned : \A i \in RawAt(heap, p) : heap.blocks[i].crit = owned[p].crit

\* Each free object of a slab cache is in its list once and no object in use is.
SlabListsExact ==
    \A c \in Caches :
        /\ IsInjective(heap.lists[c])
        /\ Range(heap.lists[c]) = {p \in DOMAIN heap.slabs : heap.slabs[p].free /\ heap.slabs[p].cache = c}

\* The heap gives each byte to one caller and its books agree with its blocks,
\* through splits, merges, reallocations, guards and double frees
\* (KernelHeapRaw.c, KernelHeapSlab.c, OrynKernelHeapValidate).
HeapSound ==
    /\ HeapTypeOK
    /\ PayloadsDisjoint
    /\ HeapValidates
    /\ FreeBytesNotOverstated
    /\ CriticalApart
    /\ SlabListsExact

=============================================================================
