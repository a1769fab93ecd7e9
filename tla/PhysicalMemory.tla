--------------------------- MODULE PhysicalMemory ---------------------------
(***************************************************************************)
(* The physical page allocator of the kernel (KernelPhysicalMemory.c,      *)
(* KernelPhysicalMemoryConstraints.c, KernelPhysicalMemoryPressure.c and   *)
(* KernelPhysicalMemoryValidation.c).  Addresses are page numbers.         *)
(*                                                                         *)
(* The allocator keeps the free pages in an array whose last element is    *)
(* handed out first, and beside it an ownership record per page that has   *)
(* ever been handed out or reserved.  The two structures describe the same *)
(* pages, are updated by different functions and are only compared by      *)
(* OrynPhysicalMemoryValidateAllocator.  The loops over several pages      *)
(* (boot, reserving a range, contiguous allocation and free) are unrolled  *)
(* into one step per page; `op' is the loop in progress and no other call  *)
(* starts before it ends.                                                  *)
(***************************************************************************)
EXTENDS Integers, Sequences, FiniteSets

CONSTANTS
    MemoryMap,        \* the pages of the usable entries, in map order
    MinAllocPage,     \* ORYN_PHYSICAL_MIN_ALLOC_ADDRESS
    CapacityPages,    \* ORYN_PHYSICAL_MAX_FREE_PAGES
    MaxRecords,       \* ORYN_PHYSICAL_MAX_OWNERSHIP_RECORDS
    DmaLimit,         \* ORYN_PHYSICAL_DMA_32BIT_LIMIT
    MaxReferences,    \* bound: references a page collects in the model
    Limits,           \* exclusiveLimit arguments of AllocatePageBelow
    Constraints,      \* constraint arguments of the constrained allocators
    Ranges,           \* page ranges [first, end) that callers reserve or free
    Watermarks        \* watermark arguments of PressureConfigure

Owners == {"Free", "Generic", "PageTable", "KernelHeap", "UserPage", "Reserved", "Dma"}
\* Owners that the callers of SetPageOwner name right after an allocation.
ClientOwners == Owners \ {"Free", "Reserved"}
NoRecord == "NoRecord"

ASSUME MapAssumption ==
    /\ MemoryMap \in Seq(Nat)
    \* Firmware descriptors are disjoint; nothing in the kernel checks it.
    /\ \A i, j \in 1..Len(MemoryMap) : MemoryMap[i] = MemoryMap[j] => i = j
ASSUME BoundAssumption ==
    /\ MinAllocPage \in Nat \ {0}   \* page 0 is ORYN_PHYSICAL_ALLOC_FAIL
    /\ CapacityPages \in Nat
    /\ MaxRecords \in Nat
    /\ DmaLimit \in Nat
    /\ MaxReferences \in Nat \ {0}
ASSUME ArgumentAssumption ==
    /\ Limits \subseteq Nat
    /\ Ranges \subseteq [first : Nat, end : Nat]
    /\ Watermarks \subseteq Nat
    /\ Constraints \subseteq [MinAddress : Nat, MaxExclusiveAddress : Nat,
                              Alignment : Nat, PageCount : Nat,
                              DmaSafe : BOOLEAN, Owner : ClientOwners \cup {"Free"}]

Pages == {MemoryMap[i] : i \in 1..Len(MemoryMap)}

VARIABLES
    Initialized,
    FreePages,           \* FreePages[0 .. FreePageCount-1], last one on top
    UsedPageCount,
    ReservedPages,
    TrackedUsablePages,
    Owner,               \* PageRecords[].Owner, NoRecord where there is none
    ReferenceCount,      \* PageRecords[].ReferenceCount
    Pressure,
    IntegrityFailures,   \* IntegrityFailures # 0
    op,                  \* the loop in progress
    held,                \* history: pages handed out and not taken back
    reserved             \* history: pages removed by ReserveRange

records == <<Owner, ReferenceCount>>
counters == <<ReservedPages, TrackedUsablePages>>
vars == <<Initialized, FreePages, UsedPageCount, ReservedPages, TrackedUsablePages,
          Owner, ReferenceCount, Pressure, IntegrityFailures, op, held, reserved>>

-----------------------------------------------------------------------------
(* The free array *)

InSeq(s, p) == \E i \in 1..Len(s) : s[i] = p
IsPageInFreeList(p) == InSeq(FreePages, p)

\* FreePages[index] = FreePages[--FreePageCount]
SwapRemove(s, i) ==
    [j \in 1..(Len(s) - 1) |-> IF j = i THEN s[Len(s)] ELSE s[j]]

\* The scans from the top stop at the last index whose page is acceptable.
IsLastMatch(i, pages) ==
    /\ FreePages[i] \in pages
    /\ \A j \in (i + 1)..Len(FreePages) : FreePages[j] \notin pages

-----------------------------------------------------------------------------
(* Memory pressure *)

Normal == 0
Low == 1
Critical == 2
OutOfMemory == 3

PercentOf(value, percent) ==
    LET pages == (value * percent) \div 100
    IN  IF pages = 0 /\ value # 0 THEN 1 ELSE pages

ChooseLevel(initialized, free, pressure) ==
    IF ~initialized \/ free = 0 THEN OutOfMemory
    ELSE IF free <= pressure.CriticalWatermark THEN Critical
    ELSE IF free <= pressure.LowWatermark THEN Low
    ELSE Normal

Levelled(initialized, free, used, pressure) ==
    [Initialized |-> pressure.Initialized,
     Level |-> ChooseLevel(initialized, free, pressure),
     LowWatermark |-> pressure.LowWatermark,
     CriticalWatermark |-> pressure.CriticalWatermark,
     FreePages |-> free,
     UsedPages |-> used]

LowOrDefault(low, tracked) == IF low = 0 THEN PercentOf(tracked, 20) ELSE low
CriticalOrDefault(critical, tracked) == IF critical = 0 THEN PercentOf(tracked, 5) ELSE critical

Configured(initialized, free, used, tracked, pressure, low, critical) ==
    LET lowPages == LowOrDefault(low, tracked)
        criticalPages == CriticalOrDefault(critical, tracked)
    IN  Levelled(initialized, free, used,
            [Initialized |-> TRUE,
             Level |-> pressure.Level,
             LowWatermark |-> lowPages,
             CriticalWatermark |->
                 IF criticalPages > lowPages THEN lowPages ELSE criticalPages,
             FreePages |-> pressure.FreePages,
             UsedPages |-> pressure.UsedPages])

Refreshed(initialized, free, used, tracked, pressure) ==
    IF pressure.Initialized
    THEN Levelled(initialized, free, used, pressure)
    ELSE Configured(initialized, free, used, tracked, pressure, 0, 0)

\* OrynPhysicalMemoryPressureRefresh on the state this step leaves behind.
PressureRefresh ==
    Pressure' = Refreshed(Initialized, Len(FreePages'), UsedPageCount',
                          TrackedUsablePages, Pressure)

-----------------------------------------------------------------------------
(* Ownership records *)

RecordedPages == {p \in Pages : Owner[p] # NoRecord}

\* SetPageOwner looks at the free list that the calling step leaves behind and
\* the callers ignore its result: with no record left the page has no owner.
OwnerAccepted(p) ==
    /\ ~InSeq(FreePages', p)
    /\ Owner[p] # NoRecord \/ Cardinality(RecordedPages) < MaxRecords

\* Mutant of SetOwner: the first reference is not counted.
SetOwnerWithoutReference(p, owner) ==
    IF OwnerAccepted(p)
    THEN /\ Owner' = [Owner EXCEPT ![p] = owner]
         /\ UNCHANGED ReferenceCount
    ELSE UNCHANGED records

SetOwner(p, owner) ==
    IF OwnerAccepted(p)
    THEN /\ Owner' = [Owner EXCEPT ![p] = owner]
         /\ ReferenceCount' = [ReferenceCount EXCEPT ![p] = IF @ = 0 THEN 1 ELSE @]
    ELSE UNCHANGED records

-----------------------------------------------------------------------------
(* Boot *)

Idle == [kind |-> "idle", index |-> 0, first |-> 0, end |-> 0, owner |-> "Generic"]
Loop(kind, first, end, owner) ==
    [kind |-> kind, index |-> 1, first |-> first, end |-> end, owner |-> owner]

Init ==
    /\ Initialized = FALSE
    /\ FreePages = <<>>
    /\ UsedPageCount = 0
    /\ ReservedPages = 0
    /\ TrackedUsablePages = 0
    /\ Owner = [p \in Pages |-> NoRecord]
    /\ ReferenceCount = [p \in Pages |-> 0]
    /\ Pressure = [Initialized |-> FALSE, Level |-> Normal, LowWatermark |-> 0,
                   CriticalWatermark |-> 0, FreePages |-> 0, UsedPages |-> 0]
    /\ IntegrityFailures = FALSE
    /\ op = Loop("boot", 0, 0, "Generic")
    /\ held = {}
    /\ reserved = {}

\* One page of AddUsableEntry: low pages and pages beyond the capacity of the
\* array are counted elsewhere and never handed out.
AddUsablePage ==
    /\ op.kind = "boot"
    /\ op.index <= Len(MemoryMap)
    /\ IF MemoryMap[op.index] < MinAllocPage \/ Len(FreePages) >= CapacityPages
       THEN UNCHANGED <<FreePages, TrackedUsablePages>>
       ELSE /\ FreePages' = Append(FreePages, MemoryMap[op.index])
            /\ TrackedUsablePages' = TrackedUsablePages + 1
    /\ op' = [op EXCEPT !.index = @ + 1]
    /\ UNCHANGED <<Initialized, UsedPageCount, ReservedPages, records, Pressure,
                   IntegrityFailures, held, reserved>>

FinishInit ==
    /\ op.kind = "boot"
    /\ op.index > Len(MemoryMap)
    /\ Initialized' = (TrackedUsablePages > 0)
    /\ Pressure' = IF Initialized'
                   THEN Configured(TRUE, Len(FreePages), UsedPageCount,
                                   TrackedUsablePages, Pressure, 0, 0)
                   ELSE Pressure
    /\ op' = Idle
    /\ UNCHANGED <<FreePages, UsedPageCount, counters, records, IntegrityFailures,
                   held, reserved>>

-----------------------------------------------------------------------------
(* Allocation *)

\* The page at index i leaves the free array for a caller.
TakePage(i, owner) ==
    /\ FreePages' = SwapRemove(FreePages, i)
    /\ UsedPageCount' = UsedPageCount + 1
    /\ SetOwner(FreePages[i], owner)
    /\ held' = held \cup {FreePages[i]}
    /\ PressureRefresh
    /\ UNCHANGED <<Initialized, counters, IntegrityFailures, reserved>>

AllocationFails ==
    /\ UNCHANGED <<Initialized, FreePages, UsedPageCount, counters, records,
                   IntegrityFailures, op, held, reserved>>
    /\ PressureRefresh

AllocatePage ==
    /\ op = Idle
    /\ \/ /\ Initialized
          /\ Len(FreePages) > 0
          /\ TakePage(Len(FreePages), "Generic")
          /\ UNCHANGED op
       \/ /\ ~Initialized \/ Len(FreePages) = 0
          /\ AllocationFails

\* The scan shared by AllocatePageBelow and AllocateConstrainedPage.
AllocateFrom(pages, owner) ==
    /\ op = Idle
    /\ Initialized
    /\ Len(FreePages) > 0
    /\ \/ /\ \E i \in 1..Len(FreePages) : IsLastMatch(i, pages) /\ TakePage(i, owner)
          /\ UNCHANGED op
       \/ /\ \A i \in 1..Len(FreePages) : FreePages[i] \notin pages
          /\ AllocationFails

AllocatePageBelow(limit) == AllocateFrom({p \in Pages : p < limit}, "Generic")

IsPowerOfTwo(n) == \E k \in 0..n : 2^k = n

PageMatchesConstraints(p, c) ==
    LET alignment == IF c.Alignment = 0 THEN 1 ELSE c.Alignment
        max == IF c.DmaSafe /\ c.MaxExclusiveAddress = 0 THEN DmaLimit
                                                          ELSE c.MaxExclusiveAddress
    IN  /\ IsPowerOfTwo(alignment)
        /\ p >= c.MinAddress
        /\ max = 0 \/ p + 1 <= max
        /\ p % alignment = 0

ConstraintOwner(c) == IF c.Owner = "Free" THEN "Generic" ELSE c.Owner

AllocateConstrainedPage(c) ==
    AllocateFrom({p \in Pages : PageMatchesConstraints(p, c)}, ConstraintOwner(c))

\* Mutant of ContiguousRunAt: the last page of the run is not looked at.
ContiguousRunAtShort(base, count, c) ==
    \A p \in base..(base + count - 2) : IsPageInFreeList(p) /\ PageMatchesConstraints(p, c)

\* Every page of the run has to match, the alignment included.
ContiguousRunAt(base, count, c) ==
    \A p \in base..(base + count - 1) : IsPageInFreeList(p) /\ PageMatchesConstraints(p, c)

ContiguousCount(c) == IF c.PageCount = 0 THEN 1 ELSE c.PageCount

\* The search of AllocateContiguousPages; the pages are taken one by one.
AllocateContiguousPages(c) ==
    /\ op = Idle
    /\ Initialized
    /\ \/ \E i \in 1..Len(FreePages) :
              /\ ContiguousRunAt(FreePages[i], ContiguousCount(c), c)
              /\ \A j \in 1..(i - 1) : ~ContiguousRunAt(FreePages[j], ContiguousCount(c), c)
              /\ op' = Loop("take", FreePages[i], FreePages[i] + ContiguousCount(c),
                            ConstraintOwner(c))
              /\ UNCHANGED <<Initialized, FreePages, UsedPageCount, counters, records,
                             Pressure, IntegrityFailures, held, reserved>>
       \/ /\ \A i \in 1..Len(FreePages) :
                ~ContiguousRunAt(FreePages[i], ContiguousCount(c), c)
          /\ AllocationFails

NextPage == IF op.first + 1 < op.end THEN [op EXCEPT !.first = @ + 1] ELSE Idle

TakeContiguousPage ==
    /\ op.kind = "take"
    /\ \E i \in 1..Len(FreePages) :
          /\ FreePages[i] = op.first
          /\ \A j \in 1..(i - 1) : FreePages[j] # op.first
          /\ TakePage(i, op.owner)
    /\ op' = NextPage

-----------------------------------------------------------------------------
(* Reservation *)

ReserveRange(range) ==
    /\ op = Idle
    /\ Initialized
    /\ range.first < range.end
    /\ op' = Loop("reserve", range.first, range.end, "Reserved")
    /\ UNCHANGED <<Initialized, FreePages, UsedPageCount, counters, records,
                   Pressure, IntegrityFailures, held, reserved>>

\* One turn of the loop: a page moved into the freed index is examined next.
ReserveStep ==
    /\ op.kind = "reserve"
    /\ op.index <= Len(FreePages)
    /\ IF op.first <= FreePages[op.index] /\ FreePages[op.index] < op.end
       THEN /\ FreePages' = SwapRemove(FreePages, op.index)
            /\ ReservedPages' = ReservedPages + 1
            /\ SetOwner(FreePages[op.index], "Reserved")
            /\ reserved' = reserved \cup {FreePages[op.index]}
            /\ UNCHANGED <<TrackedUsablePages, UsedPageCount, op>>
            /\ PressureRefresh
       ELSE /\ op' = [op EXCEPT !.index = @ + 1]
            /\ UNCHANGED <<FreePages, UsedPageCount, counters, records, Pressure, reserved>>
    /\ UNCHANGED <<Initialized, IntegrityFailures, held>>

ReserveDone ==
    /\ op.kind = "reserve"
    /\ op.index > Len(FreePages)
    /\ op' = Idle
    /\ UNCHANGED <<Initialized, FreePages, UsedPageCount, counters, records,
                   Pressure, IntegrityFailures, held, reserved>>

-----------------------------------------------------------------------------
(* Giving pages back *)

\* Mutants of ReturnPage: the used count, the reference count or the pressure
\* snapshot is forgotten.
ReturnPageKeepsUsed(p) ==
    /\ Owner' = [Owner EXCEPT ![p] = "Free"]
    /\ ReferenceCount' = [ReferenceCount EXCEPT ![p] = 0]
    /\ FreePages' = Append(FreePages, p)
    /\ held' = held \ {p}
    /\ UNCHANGED <<Initialized, UsedPageCount, counters, IntegrityFailures, reserved>>
    /\ PressureRefresh

ReturnPageKeepsReferences(p) ==
    /\ Owner' = [Owner EXCEPT ![p] = "Free"]
    /\ FreePages' = Append(FreePages, p)
    /\ UsedPageCount' = IF UsedPageCount > 0 THEN UsedPageCount - 1 ELSE UsedPageCount
    /\ held' = held \ {p}
    /\ UNCHANGED <<Initialized, ReferenceCount, counters, IntegrityFailures, reserved>>
    /\ PressureRefresh

ReturnPageWithoutRefresh(p) ==
    /\ Owner' = [Owner EXCEPT ![p] = "Free"]
    /\ ReferenceCount' = [ReferenceCount EXCEPT ![p] = 0]
    /\ FreePages' = Append(FreePages, p)
    /\ UsedPageCount' = IF UsedPageCount > 0 THEN UsedPageCount - 1 ELSE UsedPageCount
    /\ held' = held \ {p}
    /\ UNCHANGED <<Initialized, counters, IntegrityFailures, reserved, Pressure>>

\* The page goes back on top of the free array, whatever its reference count.
ReturnPage(p) ==
    /\ Owner' = [Owner EXCEPT ![p] = "Free"]
    /\ ReferenceCount' = [ReferenceCount EXCEPT ![p] = 0]
    /\ FreePages' = Append(FreePages, p)
    /\ UsedPageCount' = IF UsedPageCount > 0 THEN UsedPageCount - 1 ELSE UsedPageCount
    /\ held' = held \ {p}
    /\ UNCHANGED <<Initialized, counters, IntegrityFailures, reserved>>
    /\ PressureRefresh

FreeAccepted(p) ==
    /\ Initialized
    /\ p \in Pages
    /\ p >= MinAllocPage
    /\ Len(FreePages) < CapacityPages
    /\ ~IsPageInFreeList(p)
    /\ Owner[p] \notin {NoRecord, "Free", "Reserved"}
    /\ ReferenceCount[p] # 0

\* A refused page only counts an ownership mismatch.
FreePageBody(p) ==
    IF FreeAccepted(p)
    THEN ReturnPage(p)
    ELSE UNCHANGED <<Initialized, FreePages, UsedPageCount, counters, records,
                     Pressure, IntegrityFailures, held, reserved>>

FreePage(p) ==
    /\ op = Idle
    /\ FreePageBody(p)
    /\ UNCHANGED op

FreeContiguousPages(range) ==
    /\ op = Idle
    /\ range.first < range.end
    /\ op' = Loop("free", range.first, range.end, "Free")
    /\ UNCHANGED <<Initialized, FreePages, UsedPageCount, counters, records,
                   Pressure, IntegrityFailures, held, reserved>>

FreeContiguousPage ==
    /\ op.kind = "free"
    /\ FreePageBody(op.first)
    /\ op' = NextPage

-----------------------------------------------------------------------------
(* Owners and references *)

\* Every caller names the owner of a page it has just been given.
SetPageOwner(p, owner) ==
    /\ op = Idle
    /\ Initialized
    /\ p \in held
    /\ UNCHANGED <<Initialized, FreePages, UsedPageCount, counters, Pressure,
                   IntegrityFailures, op, held, reserved>>
    /\ SetOwner(p, owner)

\* References are counted by the copy-on-write code, on user pages, which are
\* never reserved ranges.
AddPageReference(p) ==
    /\ op = Idle
    /\ p \notin reserved
    /\ Owner[p] \notin {NoRecord, "Free"}
    /\ ReferenceCount[p] < MaxReferences
    /\ ReferenceCount' = [ReferenceCount EXCEPT ![p] = @ + 1]
    /\ UNCHANGED <<Initialized, FreePages, UsedPageCount, counters, Owner, Pressure,
                   IntegrityFailures, op, held, reserved>>

\* Mutant of ReleasePageReference: a count of zero is decremented too.
ReleasePageReferenceUnchecked(p) ==
    /\ op = Idle
    /\ p \notin reserved
    /\ Owner[p] # NoRecord
    /\ UNCHANGED op
    /\ IF /\ ReferenceCount[p] = 1
          /\ Len(FreePages) < CapacityPages
          /\ ~IsPageInFreeList(p)
          /\ Owner[p] # "Reserved"
       THEN ReturnPage(p)
       ELSE /\ ReferenceCount' = [ReferenceCount EXCEPT ![p] = @ - 1]
            /\ UNCHANGED <<Initialized, FreePages, UsedPageCount, counters, Owner,
                           Pressure, IntegrityFailures, held, reserved>>

\* The last reference gives the page back unless the free array refuses it, in
\* which case the count stays at zero.
ReleasePageReference(p) ==
    /\ op = Idle
    /\ p \notin reserved
    /\ Owner[p] # NoRecord
    /\ ReferenceCount[p] # 0
    /\ UNCHANGED op
    /\ IF /\ ReferenceCount[p] = 1
          /\ Len(FreePages) < CapacityPages
          /\ ~IsPageInFreeList(p)
          /\ Owner[p] # "Reserved"
       THEN ReturnPage(p)
       ELSE /\ ReferenceCount' = [ReferenceCount EXCEPT ![p] = @ - 1]
            /\ UNCHANGED <<Initialized, FreePages, UsedPageCount, counters, Owner,
                           Pressure, IntegrityFailures, held, reserved>>

-----------------------------------------------------------------------------
(* Watermarks and the integrity check *)

PressureConfigure(low, critical) ==
    /\ op = Idle
    /\ Pressure' = Configured(Initialized, Len(FreePages), UsedPageCount,
                              TrackedUsablePages, Pressure, low, critical)
    /\ UNCHANGED <<Initialized, FreePages, UsedPageCount, counters, records,
                   IntegrityFailures, op, held, reserved>>

\* Raises the watermarks above the free count, expects at least Critical and
\* puts watermarks and level back.
RunPressureSelfTest ==
    LET free == Len(FreePages)
        raised == Configured(Initialized, free, UsedPageCount, TrackedUsablePages,
                             Pressure, free + 1, free + 1)
        restored == Configured(Initialized, free, UsedPageCount, TrackedUsablePages,
                               raised, Pressure.LowWatermark, Pressure.CriticalWatermark)
    IN  /\ op = Idle
        /\ Initialized
        /\ Pressure' = IF raised.Level < Critical THEN raised
                       ELSE Refreshed(Initialized, free, UsedPageCount, TrackedUsablePages,
                                      [restored EXCEPT !.Level = Pressure.Level])
        /\ UNCHANGED <<Initialized, FreePages, UsedPageCount, counters, records,
                       IntegrityFailures, op, held, reserved>>

ValidatePageAccounting ==
    /\ Len(FreePages) <= CapacityPages
    /\ Cardinality(RecordedPages) <= MaxRecords
    /\ Len(FreePages) + UsedPageCount + ReservedPages <= TrackedUsablePages

ValidateFreePagesSorted(s) ==
    \A i \in 1..Len(s) :
        /\ s[i] >= MinAllocPage
        /\ i > 1 => s[i - 1] < s[i]
        /\ Owner[s[i]] \in {NoRecord, "Free"}

ValidateOwnershipRecords(s) ==
    \A p \in RecordedPages :
        IF Owner[p] = "Free"
        THEN ReferenceCount[p] = 0 /\ InSeq(s, p)
        ELSE ReferenceCount[p] # 0 /\ ~InSeq(s, p)

IndexPermutations(n) ==
    {f \in [1..n -> 1..n] :
        /\ \A i, j \in 1..n : f[i] = f[j] => i = j
        /\ \A i \in 1..n : \E j \in 1..n : f[j] = i}

Permuted(s, f) == [i \in 1..Len(s) |-> s[f[i]]]

Ascending(s) == \A i, j \in 1..Len(s) : i < j => s[i] <= s[j]

\* SortFreePages: the same pages, duplicates included, in ascending order.
SortFreePages(t) ==
    \E f \in IndexPermutations(Len(FreePages)) :
        t = Permuted(FreePages, f) /\ Ascending(Permuted(FreePages, f))

ValidateAllocator ==
    /\ op = Idle
    /\ Initialized
    /\ SortFreePages(FreePages')
    /\ IntegrityFailures' = (IntegrityFailures \/
           ~(/\ ValidatePageAccounting
             /\ ValidateFreePagesSorted(FreePages')
             /\ ValidateOwnershipRecords(FreePages')))
    /\ UNCHANGED <<Initialized, UsedPageCount, counters, records, Pressure, op,
                   held, reserved>>

-----------------------------------------------------------------------------
Next ==
    \/ AddUsablePage
    \/ FinishInit
    \/ AllocatePage
    \/ \E limit \in Limits : AllocatePageBelow(limit)
    \/ \E c \in Constraints : AllocateConstrainedPage(c)
    \/ \E c \in Constraints : AllocateContiguousPages(c)
    \/ TakeContiguousPage
    \/ \E range \in Ranges : ReserveRange(range)
    \/ ReserveStep
    \/ ReserveDone
    \/ \E p \in Pages : FreePage(p)
    \/ \E range \in Ranges : FreeContiguousPages(range)
    \/ FreeContiguousPage
    \/ \E p \in Pages, owner \in ClientOwners : SetPageOwner(p, owner)
    \/ \E p \in Pages : AddPageReference(p)
    \/ \E p \in Pages : ReleasePageReference(p)
    \/ \E low, critical \in Watermarks : PressureConfigure(low, critical)
    \/ RunPressureSelfTest
    \/ ValidateAllocator

Spec == Init /\ [][Next]_vars

-----------------------------------------------------------------------------
(* Properties *)

PressureType ==
    [Initialized : BOOLEAN, Level : Normal..OutOfMemory, LowWatermark : Nat,
     CriticalWatermark : Nat, FreePages : Nat, UsedPages : Nat]

DataTypeOK ==
    /\ Initialized \in BOOLEAN
    /\ FreePages \in Seq(Pages)
    /\ UsedPageCount \in Nat
    /\ ReservedPages \in Nat
    /\ TrackedUsablePages \in Nat
    /\ Owner \in [Pages -> Owners \cup {NoRecord}]
    /\ ReferenceCount \in [Pages -> Nat]
    /\ Pressure \in PressureType
    /\ IntegrityFailures \in BOOLEAN
    /\ held \in SUBSET Pages
    /\ reserved \in SUBSET Pages

LoopTypeOK ==
    op \in [kind : {"boot", "idle", "take", "reserve", "free"}, index : Nat,
            first : Nat, end : Nat, owner : Owners]

\* Type invariant of the allocator's state.
TypeOK == DataTypeOK /\ LoopTypeOK

\* No page is twice in the free array, so no page is handed out twice
\* (double frees and swap-with-last removal cannot duplicate one).
FreeListDistinct ==
    \A i, j \in 1..Len(FreePages) : FreePages[i] = FreePages[j] => i = j

\* A page is free, held by a caller or reserved, never two of these.
Disjoint ==
    /\ \A i \in 1..Len(FreePages) : FreePages[i] \notin held \cup reserved
    /\ held \cap reserved = {}

\* No page is lost: free, held and reserved pages add up to the pages tracked
\* at boot, and the allocator's own counters agree with the pages out there.
NoPageLost ==
    /\ UsedPageCount = Cardinality(held)
    /\ ReservedPages = Cardinality(reserved)
    /\ Len(FreePages) + UsedPageCount + ReservedPages = TrackedUsablePages

\* The ownership records tell the truth about the free array and the callers:
\* a record says Free exactly for a page of the array with no reference, any
\* other owner for a page that is out and referenced.
RecordsConsistent ==
    \A p \in Pages :
        /\ Owner[p] \in {NoRecord, "Free"} => ReferenceCount[p] = 0
        /\ Owner[p] = "Free" => IsPageInFreeList(p)
        /\ Owner[p] = "Reserved" => p \in reserved /\ ReferenceCount[p] > 0
        /\ Owner[p] \in ClientOwners => p \in held /\ ReferenceCount[p] > 0

\* Every page tracked at boot is in exactly one of three hands, free, held or
\* reserved, and the counters say so, whatever is freed twice, reserved late or
\* swapped while an array is walked (KernelPhysicalMemory.c).
PagesPartitioned ==
    /\ FreeListDistinct
    /\ Disjoint
    /\ NoPageLost

\* OrynPhysicalMemoryValidateAllocator, whenever it runs, finds nothing wrong.
IntegrityHolds == ~IntegrityFailures

\* The snapshot that diagnostics read is the allocator's present state.
PressureCurrent ==
    Initialized =>
        /\ Pressure.Level = ChooseLevel(Initialized, Len(FreePages), Pressure)
        /\ Pressure.FreePages = Len(FreePages)
        /\ Pressure.UsedPages = UsedPageCount
        /\ Pressure.CriticalWatermark <= Pressure.LowWatermark

\* The pages a contiguous allocation chose are all still free when it takes
\* them, so the loop never takes an index past the array.
ContiguousRunStaysFree ==
    op.kind = "take" => \A p \in op.first..(op.end - 1) : IsPageInFreeList(p)

=============================================================================
