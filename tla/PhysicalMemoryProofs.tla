------------------------ MODULE PhysicalMemoryProofs ------------------------
(***************************************************************************)
(* Proofs about PhysicalMemory, for every memory map, capacity, record     *)
(* table size and argument set that the module's assumptions allow.        *)
(***************************************************************************)
EXTENDS PhysicalMemory, FiniteSetTheorems, SequenceTheorems, TLAPS

-----------------------------------------------------------------------------
(* The free array *)

\* No page occurs twice in s.
Distinct(s) == \A i, j \in 1..Len(s) : s[i] = s[j] => i = j

\* Removing by moving the last element into the hole removes exactly that page
\* from an array without duplicates, and introduces none.
LEMMA SwapRemoveProperties ==
    ASSUME NEW S, NEW s \in Seq(S), NEW i \in 1..Len(s)
    PROVE  /\ SwapRemove(s, i) \in Seq(S)
           /\ Len(SwapRemove(s, i)) = Len(s) - 1
           /\ \A j \in 1..(Len(s) - 1) :
                 SwapRemove(s, i)[j] = IF j = i THEN s[Len(s)] ELSE s[j]
           /\ Distinct(s) => /\ Distinct(SwapRemove(s, i))
                             /\ \A p : InSeq(SwapRemove(s, i), p) <=> InSeq(s, p) /\ p # s[i]
<1> DEFINE t == SwapRemove(s, i)
<1>1. Len(s) \in Nat /\ Len(s) >= 1 /\ \A j \in 1..Len(s) : s[j] \in S
  BY LenProperties, ElementOfSeq
<1>2. \A j \in 1..(Len(s) - 1) : t[j] = IF j = i THEN s[Len(s)] ELSE s[j]
  BY <1>1 DEF SwapRemove
<1>3. t \in Seq(S)
  BY <1>1, IsASeq DEF SwapRemove
<1>4. Len(t) = Len(s) - 1
  <2>1. DOMAIN t = 1..(Len(s) - 1)
    BY DEF SwapRemove
  <2> QED BY <1>1, <1>3, <2>1, LenProperties
<1>5. ASSUME Distinct(s) PROVE Distinct(t)
  <2> SUFFICES ASSUME NEW j \in 1..Len(t), NEW k \in 1..Len(t), t[j] = t[k]
               PROVE  j = k
    BY DEF Distinct
  <2>1. j \in 1..(Len(s) - 1) /\ k \in 1..(Len(s) - 1)
    BY <1>4
  <2> HIDE DEF t
  <2> QED BY <1>1, <1>2, <1>5, <2>1 DEF Distinct
<1>6. ASSUME Distinct(s), NEW p PROVE InSeq(t, p) <=> InSeq(s, p) /\ p # s[i]
  <2> HIDE DEF t
  <2>1. ASSUME InSeq(t, p) PROVE InSeq(s, p) /\ p # s[i]
    <3> PICK j \in 1..Len(t) : t[j] = p BY <2>1 DEF InSeq
    <3> QED BY <1>1, <1>2, <1>4, <1>6 DEF InSeq, Distinct
  <2>2. ASSUME InSeq(s, p), p # s[i] PROVE InSeq(t, p)
    <3> PICK j \in 1..Len(s) : s[j] = p BY <2>2 DEF InSeq
    <3>1. CASE j = Len(s)
      <4>1. i \in 1..(Len(s) - 1) BY <1>1, <2>2, <3>1
      <4> QED BY <4>1, <1>2, <1>4, <3>1 DEF InSeq
    <3>2. CASE j # Len(s)
      <4>1. j \in 1..(Len(s) - 1) /\ j # i BY <1>1, <2>2, <3>2
      <4> QED BY <4>1, <1>2, <1>4 DEF InSeq
    <3> QED BY <3>1, <3>2
  <2> QED BY <2>1, <2>2
<1> QED BY <1>2, <1>3, <1>4, <1>5, <1>6

\* Pushing a page that is not in the array adds exactly that page.
LEMMA PushProperties ==
    ASSUME NEW S, NEW s \in Seq(S), NEW q \in S
    PROVE  /\ Append(s, q) \in Seq(S)
           /\ Len(Append(s, q)) = Len(s) + 1
           /\ \A p : InSeq(Append(s, q), p) <=> InSeq(s, p) \/ p = q
           /\ Distinct(s) /\ ~InSeq(s, q) => Distinct(Append(s, q))
<1> DEFINE t == Append(s, q)
<1>1. /\ Len(s) \in Nat
      /\ t \in Seq(S)
      /\ Len(t) = Len(s) + 1
      /\ \A i \in 1..Len(s) : t[i] = s[i]
      /\ t[Len(s) + 1] = q
  BY AppendProperties, LenProperties
<1> HIDE DEF t
<1>2. \A p : InSeq(t, p) <=> InSeq(s, p) \/ p = q
  <2> TAKE p
  <2>1. ASSUME InSeq(t, p) PROVE InSeq(s, p) \/ p = q
    <3> PICK j \in 1..Len(t) : t[j] = p BY <2>1 DEF InSeq
    <3> QED BY <1>1 DEF InSeq
  <2>2. ASSUME InSeq(s, p) PROVE InSeq(t, p)
    <3> PICK j \in 1..Len(s) : s[j] = p BY <2>2 DEF InSeq
    <3> QED BY <1>1 DEF InSeq
  <2>3. ASSUME p = q PROVE InSeq(t, p)
    BY <1>1, <2>3 DEF InSeq
  <2> QED BY <2>1, <2>2, <2>3
<1>3. ASSUME Distinct(s), ~InSeq(s, q) PROVE Distinct(t)
  <2> SUFFICES ASSUME NEW i \in 1..Len(t), NEW j \in 1..Len(t), t[i] = t[j]
               PROVE  i = j
    BY DEF Distinct
  <2> QED BY <1>1, <1>3 DEF Distinct, InSeq
<1> QED BY <1>1, <1>2, <1>3 DEF t

-----------------------------------------------------------------------------
(* The inductive invariant *)

\* Array, record table and boot count stay within their capacities, and no page
\* below the allocation floor is ever in the array or handed out.
Bounded ==
    /\ TrackedUsablePages <= CapacityPages
    /\ \A i \in 1..Len(FreePages) : FreePages[i] >= MinAllocPage
    /\ \A p \in held : p >= MinAllocPage
    /\ Cardinality(RecordedPages) <= MaxRecords

Core == FreeListDistinct /\ Disjoint /\ NoPageLost /\ RecordsConsistent /\ Bounded

\* While the map is walked nothing has been handed out and the array holds only
\* pages the walk has passed.
BootState ==
    op.kind = "boot" =>
        /\ op.index >= 1
        /\ ~Initialized
        /\ held = {}
        /\ reserved = {}
        /\ \A p \in Pages : Owner[p] = NoRecord
        /\ \A i \in 1..Len(FreePages) :
              \E k \in 1..Len(MemoryMap) : k < op.index /\ FreePages[i] = MemoryMap[k]

LoopState ==
    /\ BootState
    /\ op.kind = "take" => op.owner \in ClientOwners
    /\ op.kind = "reserve" => op.index >= 1

PressureState == PressureCurrent /\ Pressure.CriticalWatermark <= Pressure.LowWatermark

IInv == TypeOK /\ Core /\ LoopState /\ PressureState /\ IntegrityHolds

\* The memory map names finitely many pages.
LEMMA PagesFinite == IsFiniteSet(Pages) /\ Pages \subseteq Nat
<1>1. Pages \subseteq Nat
  BY MapAssumption, ElementOfSeq DEF Pages
<1>2. IsFiniteSet(1..Len(MemoryMap))
  BY MapAssumption, LenProperties, FS_Interval
<1>3. MemoryMap \in Surjection(1..Len(MemoryMap), Pages)
  BY MapAssumption, LenProperties DEF Surjection, Pages
<1> QED BY <1>1, <1>2, <1>3, FS_Surjection

\* The owners by name; a page without a record has none of them.
LEMMA OwnerNames ==
    /\ ClientOwners = {"Generic", "PageTable", "KernelHeap", "UserPage", "Dma"}
    /\ Owners = ClientOwners \cup {"Free", "Reserved"}
    /\ NoRecord \notin Owners
BY DEF Owners, ClientOwners, NoRecord

-----------------------------------------------------------------------------
(* The pressure record *)

\* The default watermarks, 20 and 5 percent, are page counts.
LEMMA PercentOfType ==
    ASSUME NEW value \in Nat
    PROVE  PercentOf(value, 20) \in Nat /\ PercentOf(value, 5) \in Nat
BY DEF PercentOf

\* Whatever Configure and Refresh are given, the level they store is the one
\* that the free count and the stored watermarks call for.
LEMMA LevelledProperties ==
    ASSUME NEW initialized \in BOOLEAN, NEW free \in Nat, NEW used \in Nat,
           NEW pressure \in PressureType
    PROVE  LET new == Levelled(initialized, free, used, pressure)
           IN  /\ new \in PressureType
               /\ new.Level = ChooseLevel(initialized, free, new)
               /\ new.FreePages = free
               /\ new.UsedPages = used
               /\ new.LowWatermark = pressure.LowWatermark
               /\ new.CriticalWatermark = pressure.CriticalWatermark
<1> DEFINE level == ChooseLevel(initialized, free, pressure)
           new == Levelled(initialized, free, used, pressure)
<1>1. level \in Normal..OutOfMemory
  BY DEF ChooseLevel, PressureType, Normal, Low, Critical, OutOfMemory
<1> HIDE DEF level
<1>2. new = [Initialized |-> pressure.Initialized, Level |-> level,
             LowWatermark |-> pressure.LowWatermark,
             CriticalWatermark |-> pressure.CriticalWatermark,
             FreePages |-> free, UsedPages |-> used]
  BY DEF Levelled, level
<1> HIDE DEF new
<1>3. /\ new \in PressureType
      /\ new.Level = level
      /\ new.FreePages = free
      /\ new.UsedPages = used
      /\ new.LowWatermark = pressure.LowWatermark
      /\ new.CriticalWatermark = pressure.CriticalWatermark
  BY <1>1, <1>2 DEF PressureType
<1>4. level = ChooseLevel(initialized, free, new)
  BY <1>3 DEF level, ChooseLevel
<1> QED BY <1>3, <1>4 DEF new

\* The pressure record describes the given state of the allocator.
IsCurrent(pressure, initialized, free, used) ==
    /\ pressure \in PressureType
    /\ pressure.Level = ChooseLevel(initialized, free, pressure)
    /\ pressure.FreePages = free
    /\ pressure.UsedPages = used
    /\ pressure.CriticalWatermark <= pressure.LowWatermark

\* Configure leaves a current record with ordered watermarks.
LEMMA ConfiguredProperties ==
    ASSUME NEW initialized \in BOOLEAN, NEW free \in Nat, NEW used \in Nat,
           NEW tracked \in Nat, NEW pressure \in PressureType,
           NEW low \in Nat, NEW critical \in Nat
    PROVE  IsCurrent(Configured(initialized, free, used, tracked, pressure, low, critical),
                     initialized, free, used)
<1> DEFINE lowPages == LowOrDefault(low, tracked)
           criticalPages == CriticalOrDefault(critical, tracked)
           marked == [Initialized |-> TRUE, Level |-> pressure.Level,
                      LowWatermark |-> lowPages,
                      CriticalWatermark |->
                          IF criticalPages > lowPages THEN lowPages ELSE criticalPages,
                      FreePages |-> pressure.FreePages,
                      UsedPages |-> pressure.UsedPages]
<1>1. lowPages \in Nat /\ criticalPages \in Nat
  BY PercentOfType DEF LowOrDefault, CriticalOrDefault
<1> HIDE DEF lowPages, criticalPages
<1>2. marked \in PressureType /\ marked.CriticalWatermark <= marked.LowWatermark
  BY <1>1 DEF PressureType
<1>3. Configured(initialized, free, used, tracked, pressure, low, critical)
        = Levelled(initialized, free, used, marked)
  BY DEF Configured, lowPages, criticalPages
<1> HIDE DEF marked
<1> QED BY <1>2, <1>3, LevelledProperties DEF IsCurrent

\* Refresh leaves a current record, configured before or not.
LEMMA RefreshedProperties ==
    ASSUME NEW initialized \in BOOLEAN, NEW free \in Nat, NEW used \in Nat,
           NEW tracked \in Nat, NEW pressure \in PressureType,
           pressure.CriticalWatermark <= pressure.LowWatermark
    PROVE  IsCurrent(Refreshed(initialized, free, used, tracked, pressure),
                     initialized, free, used)
<1>1. CASE pressure.Initialized
  BY <1>1, LevelledProperties DEF Refreshed, IsCurrent
<1>2. CASE ~pressure.Initialized
  BY <1>2, ConfiguredProperties DEF Refreshed
<1> QED BY <1>1, <1>2

\* A step that refreshes the pressure record leaves it current.
LEMMA PressureRefreshProperties ==
    ASSUME DataTypeOK, PressureState, PressureRefresh, Initialized' = Initialized,
           Len(FreePages') \in Nat, UsedPageCount' \in Nat
    PROVE  Pressure' \in PressureType /\ PressureState'
<1>1. IsCurrent(Pressure', Initialized, Len(FreePages'), UsedPageCount')
  BY RefreshedProperties DEF DataTypeOK, PressureState, PressureRefresh
<1> QED BY <1>1 DEF IsCurrent, PressureState, PressureCurrent

-----------------------------------------------------------------------------
(* What the operations on one page preserve *)

\* SetPageOwner on a page outside the free array: it gets the owner and at
\* least one reference, or there is no record left for it.
LEMMA SetOwnerProperties ==
    ASSUME DataTypeOK, NEW p \in Pages, NEW owner \in Owners \ {"Free"},
           SetOwner(p, owner), ~InSeq(FreePages', p),
           Cardinality(RecordedPages) <= MaxRecords
    PROVE  /\ Owner' \in [Pages -> Owners \cup {NoRecord}]
           /\ ReferenceCount' \in [Pages -> Nat]
           /\ Cardinality(RecordedPages') <= MaxRecords
           /\ \A q \in Pages \ {p} :
                 Owner'[q] = Owner[q] /\ ReferenceCount'[q] = ReferenceCount[q]
           /\ \/ Owner'[p] = owner /\ ReferenceCount'[p] > 0
              \/ /\ Owner[p] = NoRecord
                 /\ Owner'[p] = NoRecord
                 /\ ReferenceCount'[p] = ReferenceCount[p]
<1>1. CASE OwnerAccepted(p)
  <2>1. /\ Owner' = [Owner EXCEPT ![p] = owner]
        /\ ReferenceCount' = [ReferenceCount EXCEPT
              ![p] = IF ReferenceCount[p] = 0 THEN 1 ELSE ReferenceCount[p]]
    BY <1>1 DEF SetOwner
  <2>2. RecordedPages' = RecordedPages \cup {p}
    BY <2>1, OwnerNames DEF RecordedPages, DataTypeOK
  <2>3. IsFiniteSet(RecordedPages) /\ Cardinality(RecordedPages) \in Nat
    BY PagesFinite, FS_Subset, FS_CardinalityType DEF RecordedPages
  <2>4. Cardinality(RecordedPages') <= MaxRecords
    <3>1. Cardinality(RecordedPages \cup {p})
            = IF p \in RecordedPages THEN Cardinality(RecordedPages)
                                     ELSE Cardinality(RecordedPages) + 1
      BY <2>3, FS_AddElement
    <3>2. p \in RecordedPages \/ Cardinality(RecordedPages) < MaxRecords
      BY <1>1 DEF OwnerAccepted, RecordedPages
    <3> QED BY <2>2, <2>3, <3>1, <3>2, BoundAssumption
  <2> QED BY <2>1, <2>4 DEF DataTypeOK
<1>2. CASE ~OwnerAccepted(p)
  <2>1. UNCHANGED records
    BY <1>2 DEF SetOwner
  <2>2. Owner[p] = NoRecord
    BY <1>2 DEF OwnerAccepted
  <2>3. RecordedPages' = RecordedPages
    BY <2>1 DEF RecordedPages, records
  <2> QED BY <2>1, <2>2, <2>3 DEF DataTypeOK, records
<1> QED BY <1>1, <1>2

\* Handing a free page to a caller.
LEMMA TakePageInv ==
    ASSUME DataTypeOK, Core, PressureState, NEW i \in 1..Len(FreePages),
           NEW owner \in ClientOwners, TakePage(i, owner)
    PROVE  DataTypeOK' /\ Core' /\ PressureState'
<1> DEFINE p == FreePages[i]
<1>1. /\ FreePages' = SwapRemove(FreePages, i)
      /\ UsedPageCount' = UsedPageCount + 1
      /\ SetOwner(p, owner)
      /\ held' = held \cup {p}
      /\ PressureRefresh
      /\ UNCHANGED <<Initialized, counters, IntegrityFailures, reserved>>
  BY DEF TakePage
<1>2. /\ FreePages \in Seq(Pages)
      /\ p \in Pages
      /\ p \notin held /\ p \notin reserved
      /\ Len(FreePages) \in Nat
      /\ p >= MinAllocPage
      /\ InSeq(FreePages, p)
  BY LenProperties, ElementOfSeq
  DEF DataTypeOK, Core, Disjoint, Bounded, InSeq
<1> HIDE DEF p
<1>3. /\ FreePages' \in Seq(Pages)
      /\ Len(FreePages') = Len(FreePages) - 1
      /\ Distinct(FreePages')
      /\ \A q : InSeq(FreePages', q) <=> InSeq(FreePages, q) /\ q # p
      /\ \A j \in 1..Len(FreePages') : \E k \in 1..Len(FreePages) : FreePages'[j] = FreePages[k]
  <2>1. Distinct(FreePages)
    BY DEF Core, FreeListDistinct, Distinct
  <2>2. /\ FreePages' \in Seq(Pages)
        /\ Len(FreePages') = Len(FreePages) - 1
        /\ Distinct(FreePages')
        /\ \A q : InSeq(FreePages', q) <=> InSeq(FreePages, q) /\ q # p
    BY <1>1, <1>2, <2>1, SwapRemoveProperties DEF p
  <2>3. ASSUME NEW j \in 1..Len(FreePages')
        PROVE  \E k \in 1..Len(FreePages) : FreePages'[j] = FreePages[k]
    <3>1. InSeq(FreePages', FreePages'[j]) BY DEF InSeq
    <3>2. InSeq(FreePages, FreePages'[j]) BY <2>2, <3>1
    <3> QED BY <3>2 DEF InSeq
  <2> QED BY <2>2, <2>3
<1>4. owner \in Owners \ {"Free"} /\ owner \notin {"Free", "Reserved", NoRecord}
  BY OwnerNames
<1>5. /\ Owner' \in [Pages -> Owners \cup {NoRecord}]
      /\ ReferenceCount' \in [Pages -> Nat]
      /\ Cardinality(RecordedPages') <= MaxRecords
      /\ \A q \in Pages \ {p} :
            Owner'[q] = Owner[q] /\ ReferenceCount'[q] = ReferenceCount[q]
      /\ \/ Owner'[p] = owner /\ ReferenceCount'[p] > 0
         \/ /\ Owner[p] = NoRecord
            /\ Owner'[p] = NoRecord
            /\ ReferenceCount'[p] = ReferenceCount[p]
  BY <1>1, <1>2, <1>3, <1>4, SetOwnerProperties DEF Core, Bounded
<1>6. IsFiniteSet(held) /\ Cardinality(held) \in Nat
  BY PagesFinite, FS_Subset, FS_CardinalityType DEF DataTypeOK
<1>7. Cardinality(held') = Cardinality(held) + 1
  BY <1>1, <1>2, <1>6, FS_AddElement
<1>8. Pressure' \in PressureType /\ PressureState'
  BY <1>1, <1>2, <1>3, PressureRefreshProperties DEF DataTypeOK, counters
<1>9. DataTypeOK'
  BY <1>1, <1>2, <1>3, <1>5, <1>8 DEF DataTypeOK, counters
<1>10. FreeListDistinct'
  BY <1>3 DEF FreeListDistinct, Distinct
<1>11. Disjoint'
  <2>1. ASSUME NEW j \in 1..Len(FreePages') PROVE FreePages'[j] \notin held' \cup reserved'
    <3>1. InSeq(FreePages', FreePages'[j]) BY DEF InSeq
    <3>2. InSeq(FreePages, FreePages'[j]) /\ FreePages'[j] # p BY <1>3, <3>1
    <3> QED BY <3>2, <1>1 DEF InSeq, Core, Disjoint
  <2>2. held' \cap reserved' = {}
    BY <1>1, <1>2 DEF Core, Disjoint
  <2> QED BY <2>1, <2>2 DEF Disjoint
<1>12. NoPageLost'
  BY <1>1, <1>2, <1>3, <1>6, <1>7 DEF Core, NoPageLost, DataTypeOK, counters
<1>13. RecordsConsistent'
  <2> SUFFICES ASSUME NEW q \in Pages
      PROVE /\ Owner'[q] \in {NoRecord, "Free"} => ReferenceCount'[q] = 0
            /\ Owner'[q] = "Free" => InSeq(FreePages', q)
            /\ Owner'[q] = "Reserved" => q \in reserved' /\ ReferenceCount'[q] > 0
            /\ Owner'[q] \in ClientOwners => q \in held' /\ ReferenceCount'[q] > 0
    BY DEF RecordsConsistent, IsPageInFreeList
  <2>1. CASE q = p
    BY <2>1, <1>1, <1>4, <1>5, OwnerNames
    DEF Core, RecordsConsistent, NoRecord
  <2>2. CASE q # p
    BY <2>2, <1>1, <1>3, <1>5 DEF Core, RecordsConsistent, IsPageInFreeList
  <2> QED BY <2>1, <2>2
<1>14. Bounded'
  BY <1>1, <1>2, <1>3, <1>5 DEF Core, Bounded, counters
<1> QED BY <1>8, <1>9, <1>10, <1>11, <1>12, <1>13, <1>14 DEF Core

\* Taking a free page out of use for good.
LEMMA ReservePageInv ==
    ASSUME DataTypeOK, Core, PressureState, NEW i \in 1..Len(FreePages),
           FreePages' = SwapRemove(FreePages, i),
           ReservedPages' = ReservedPages + 1,
           SetOwner(FreePages[i], "Reserved"),
           reserved' = reserved \cup {FreePages[i]},
           PressureRefresh,
           UNCHANGED <<Initialized, UsedPageCount, TrackedUsablePages, IntegrityFailures, held>>
    PROVE  DataTypeOK' /\ Core' /\ PressureState'
<1> DEFINE p == FreePages[i]
<1>1. /\ SetOwner(p, "Reserved")
      /\ reserved' = reserved \cup {p}
  OBVIOUS
<1>2. /\ FreePages \in Seq(Pages)
      /\ p \in Pages
      /\ p \notin held /\ p \notin reserved
      /\ Len(FreePages) \in Nat
      /\ InSeq(FreePages, p)
  BY LenProperties, ElementOfSeq
  DEF DataTypeOK, Core, Disjoint, Bounded, InSeq
<1> HIDE DEF p
<1>3. /\ FreePages' \in Seq(Pages)
      /\ Len(FreePages') = Len(FreePages) - 1
      /\ Distinct(FreePages')
      /\ \A q : InSeq(FreePages', q) <=> InSeq(FreePages, q) /\ q # p
      /\ \A j \in 1..Len(FreePages') : \E k \in 1..Len(FreePages) : FreePages'[j] = FreePages[k]
  <2>1. Distinct(FreePages)
    BY DEF Core, FreeListDistinct, Distinct
  <2>2. /\ FreePages' \in Seq(Pages)
        /\ Len(FreePages') = Len(FreePages) - 1
        /\ Distinct(FreePages')
        /\ \A q : InSeq(FreePages', q) <=> InSeq(FreePages, q) /\ q # p
    BY <1>2, <2>1, SwapRemoveProperties DEF p
  <2>3. ASSUME NEW j \in 1..Len(FreePages')
        PROVE  \E k \in 1..Len(FreePages) : FreePages'[j] = FreePages[k]
    <3>1. InSeq(FreePages', FreePages'[j]) BY DEF InSeq
    <3>2. InSeq(FreePages, FreePages'[j]) BY <2>2, <3>1
    <3> QED BY <3>2 DEF InSeq
  <2> QED BY <2>2, <2>3
<1>4. /\ Owner' \in [Pages -> Owners \cup {NoRecord}]
      /\ ReferenceCount' \in [Pages -> Nat]
      /\ Cardinality(RecordedPages') <= MaxRecords
      /\ \A q \in Pages \ {p} :
            Owner'[q] = Owner[q] /\ ReferenceCount'[q] = ReferenceCount[q]
      /\ \/ Owner'[p] = "Reserved" /\ ReferenceCount'[p] > 0
         \/ /\ Owner[p] = NoRecord
            /\ Owner'[p] = NoRecord
            /\ ReferenceCount'[p] = ReferenceCount[p]
  <2>1. "Reserved" \in Owners \ {"Free"} BY DEF Owners
  <2> QED BY <1>1, <1>2, <1>3, <2>1, SetOwnerProperties DEF Core, Bounded
<1>5. IsFiniteSet(reserved) /\ Cardinality(reserved) \in Nat
  BY PagesFinite, FS_Subset, FS_CardinalityType DEF DataTypeOK
<1>6. Cardinality(reserved') = Cardinality(reserved) + 1
  BY <1>1, <1>2, <1>5, FS_AddElement
<1>7. Pressure' \in PressureType /\ PressureState'
  BY <1>2, <1>3, PressureRefreshProperties DEF DataTypeOK
<1>8. DataTypeOK'
  BY <1>1, <1>2, <1>3, <1>4, <1>7 DEF DataTypeOK
<1>9. FreeListDistinct'
  BY <1>3 DEF FreeListDistinct, Distinct
<1>10. Disjoint'
  <2>1. ASSUME NEW j \in 1..Len(FreePages') PROVE FreePages'[j] \notin held' \cup reserved'
    <3>1. InSeq(FreePages', FreePages'[j]) BY DEF InSeq
    <3>2. InSeq(FreePages, FreePages'[j]) /\ FreePages'[j] # p BY <1>3, <3>1
    <3> QED BY <3>2, <1>1 DEF InSeq, Core, Disjoint
  <2>2. held' \cap reserved' = {}
    BY <1>1, <1>2 DEF Core, Disjoint
  <2> QED BY <2>1, <2>2 DEF Disjoint
<1>11. NoPageLost'
  BY <1>2, <1>3, <1>5, <1>6 DEF Core, NoPageLost, DataTypeOK
<1>12. RecordsConsistent'
  <2> SUFFICES ASSUME NEW q \in Pages
      PROVE /\ Owner'[q] \in {NoRecord, "Free"} => ReferenceCount'[q] = 0
            /\ Owner'[q] = "Free" => InSeq(FreePages', q)
            /\ Owner'[q] = "Reserved" => q \in reserved' /\ ReferenceCount'[q] > 0
            /\ Owner'[q] \in ClientOwners => q \in held' /\ ReferenceCount'[q] > 0
    BY DEF RecordsConsistent, IsPageInFreeList
  <2>1. CASE q = p
    BY <2>1, <1>1, <1>4, OwnerNames DEF Core, RecordsConsistent, NoRecord
  <2>2. CASE q # p
    BY <2>2, <1>1, <1>3, <1>4 DEF Core, RecordsConsistent, IsPageInFreeList
  <2> QED BY <2>1, <2>2
<1>13. Bounded'
  BY <1>1, <1>2, <1>3, <1>4 DEF Core, Bounded
<1> QED BY <1>7, <1>8, <1>9, <1>10, <1>11, <1>12, <1>13 DEF Core

\* Taking a page back from its caller.
LEMMA ReturnPageInv ==
    ASSUME DataTypeOK, Core, PressureState, NEW p \in Pages,
           ~IsPageInFreeList(p), Owner[p] \in ClientOwners, ReturnPage(p)
    PROVE  DataTypeOK' /\ Core' /\ PressureState'
<1>1. /\ Owner' = [Owner EXCEPT ![p] = "Free"]
      /\ ReferenceCount' = [ReferenceCount EXCEPT ![p] = 0]
      /\ FreePages' = Append(FreePages, p)
      /\ UsedPageCount' = IF UsedPageCount > 0 THEN UsedPageCount - 1 ELSE UsedPageCount
      /\ held' = held \ {p}
      /\ UNCHANGED <<Initialized, counters, IntegrityFailures, reserved>>
      /\ PressureRefresh
  BY DEF ReturnPage
<1>2. /\ FreePages \in Seq(Pages)
      /\ Len(FreePages) \in Nat
      /\ p \in held /\ p \notin reserved
      /\ p >= MinAllocPage
      /\ ~InSeq(FreePages, p)
      /\ Distinct(FreePages)
  BY LenProperties
  DEF DataTypeOK, Core, RecordsConsistent, Disjoint, Bounded, IsPageInFreeList,
      FreeListDistinct, Distinct
<1>3. /\ FreePages' \in Seq(Pages)
      /\ Len(FreePages') = Len(FreePages) + 1
      /\ Distinct(FreePages')
      /\ \A q : InSeq(FreePages', q) <=> InSeq(FreePages, q) \/ q = p
  BY <1>1, <1>2, PushProperties
<1>4. IsFiniteSet(held) /\ Cardinality(held) \in Nat
  BY PagesFinite, FS_Subset, FS_CardinalityType DEF DataTypeOK
<1>5. Cardinality(held') = Cardinality(held) - 1 /\ Cardinality(held) > 0
  <2>1. held # {} BY <1>2
  <2> QED BY <1>1, <1>2, <1>4, <2>1, FS_RemoveElement, FS_EmptySet
<1>6. UsedPageCount' \in Nat /\ UsedPageCount' = UsedPageCount - 1
  BY <1>1, <1>4, <1>5 DEF Core, NoPageLost, DataTypeOK
<1>7. Pressure' \in PressureType /\ PressureState'
  BY <1>1, <1>2, <1>3, <1>6, PressureRefreshProperties DEF DataTypeOK, counters
<1>8. DataTypeOK'
  BY <1>1, <1>3, <1>6, <1>7, OwnerNames DEF DataTypeOK, counters
<1>9. FreeListDistinct'
  BY <1>3 DEF FreeListDistinct, Distinct
<1>10. Disjoint'
  <2>1. ASSUME NEW j \in 1..Len(FreePages') PROVE FreePages'[j] \notin held' \cup reserved'
    <3>1. InSeq(FreePages', FreePages'[j]) BY DEF InSeq
    <3>2. InSeq(FreePages, FreePages'[j]) \/ FreePages'[j] = p BY <1>3, <3>1
    <3> QED BY <3>2, <1>1, <1>2 DEF InSeq, Core, Disjoint
  <2>2. held' \cap reserved' = {}
    BY <1>1 DEF Core, Disjoint
  <2> QED BY <2>1, <2>2 DEF Disjoint
<1>11. NoPageLost'
  BY <1>1, <1>2, <1>3, <1>4, <1>5, <1>6 DEF Core, NoPageLost, DataTypeOK, counters
<1>12. RecordsConsistent'
  <2> SUFFICES ASSUME NEW q \in Pages
      PROVE /\ Owner'[q] \in {NoRecord, "Free"} => ReferenceCount'[q] = 0
            /\ Owner'[q] = "Free" => InSeq(FreePages', q)
            /\ Owner'[q] = "Reserved" => q \in reserved' /\ ReferenceCount'[q] > 0
            /\ Owner'[q] \in ClientOwners => q \in held' /\ ReferenceCount'[q] > 0
    BY DEF RecordsConsistent, IsPageInFreeList
  <2>1. CASE q = p
    BY <2>1, <1>1, <1>3, OwnerNames DEF DataTypeOK
  <2>2. CASE q # p
    BY <2>2, <1>1, <1>3 DEF Core, RecordsConsistent, IsPageInFreeList, DataTypeOK
  <2> QED BY <2>1, <2>2
<1>13. Bounded'
  <2>1. RecordedPages' = RecordedPages
    BY <1>1, OwnerNames DEF RecordedPages, DataTypeOK
  <2>2. ASSUME NEW j \in 1..Len(FreePages') PROVE FreePages'[j] >= MinAllocPage
    <3>1. InSeq(FreePages', FreePages'[j]) BY DEF InSeq
    <3>2. InSeq(FreePages, FreePages'[j]) \/ FreePages'[j] = p BY <1>3, <3>1
    <3> QED BY <3>2, <1>2 DEF InSeq, Core, Bounded
  <2> QED BY <1>1, <2>1, <2>2 DEF Core, Bounded, counters
<1> QED BY <1>7, <1>8, <1>9, <1>10, <1>11, <1>12, <1>13 DEF Core

-----------------------------------------------------------------------------
(* The actions *)

data == <<Initialized, FreePages, UsedPageCount, counters, records, Pressure,
          IntegrityFailures, held, reserved>>
Data == DataTypeOK /\ Core /\ PressureState /\ IntegrityHolds

\* What is said of the allocator's data survives a step that leaves it alone.
LEMMA DataUnchanged ==
    ASSUME Data, UNCHANGED data
    PROVE  Data'
BY DEF Data, data, counters, records, DataTypeOK, Core, FreeListDistinct, Disjoint,
       NoPageLost, RecordsConsistent, IsPageInFreeList, InSeq, Bounded, RecordedPages,
       PressureState, PressureCurrent, IntegrityHolds

\* The idle loop record has the type of loop records.
LEMMA IdleLoop == Idle.kind = "idle" /\ Idle \in [kind : {"boot", "idle", "take", "reserve", "free"},
                      index : Nat, first : Nat, end : Nat, owner : Owners]
BY DEF Idle, Owners

\* A refused allocation changes nothing but the pressure record.
LEMMA AllocationFailsInv ==
    ASSUME Data, AllocationFails
    PROVE  Data' /\ op' = op
<1>1. Len(FreePages') \in Nat /\ UsedPageCount' \in Nat
  BY LenProperties DEF Data, DataTypeOK, AllocationFails
<1>2. Pressure' \in PressureType /\ PressureState'
  BY <1>1, PressureRefreshProperties DEF Data, AllocationFails
<1> QED BY <1>2
  DEF AllocationFails, Data, counters, records, DataTypeOK, Core, FreeListDistinct, Disjoint,
      NoPageLost, RecordsConsistent, IsPageInFreeList, InSeq, Bounded, RecordedPages,
      IntegrityHolds

\* Handing out a page keeps everything said of the data.
LEMMA TakePageData ==
    ASSUME Data, NEW i \in 1..Len(FreePages), NEW owner \in ClientOwners, TakePage(i, owner)
    PROVE  Data'
<1>1. DataTypeOK' /\ Core' /\ PressureState'
  BY TakePageInv DEF Data
<1>2. IntegrityHolds'
  BY DEF TakePage, Data, IntegrityHolds
<1> QED BY <1>1, <1>2 DEF Data

\* Taking a page back keeps everything said of the data.
LEMMA ReturnPageData ==
    ASSUME Data, NEW p \in Pages, ~IsPageInFreeList(p), Owner[p] \in ClientOwners, ReturnPage(p)
    PROVE  Data'
<1>1. DataTypeOK' /\ Core' /\ PressureState'
  BY ReturnPageInv DEF Data
<1>2. IntegrityHolds'
  BY DEF ReturnPage, Data, IntegrityHolds
<1> QED BY <1>1, <1>2 DEF Data

\* The single-page allocations keep the invariant.
LEMMA AllocateFromInv ==
    ASSUME Data, NEW pages, NEW owner \in ClientOwners, AllocateFrom(pages, owner)
    PROVE  Data' /\ op' = op
<1>1. CASE /\ \E i \in 1..Len(FreePages) : IsLastMatch(i, pages) /\ TakePage(i, owner)
           /\ UNCHANGED op
  BY <1>1, TakePageData
<1>2. CASE AllocationFails
  BY <1>2, AllocationFailsInv
<1> QED BY <1>1, <1>2 DEF AllocateFrom

\* A constrained allocation stores a client as owner and takes at least a page.
LEMMA ConstraintOwnerType ==
    ASSUME NEW c \in Constraints
    PROVE  ConstraintOwner(c) \in ClientOwners /\ ContiguousCount(c) \in Nat \ {0}
<1>1. c.Owner \in ClientOwners \cup {"Free"} /\ c.PageCount \in Nat
  BY ArgumentAssumption
<1> QED BY <1>1, OwnerNames DEF ConstraintOwner, ContiguousCount

\* The body of FreePage and of each turn of FreeContiguousPages.
LEMMA FreePageBodyInv ==
    ASSUME Data, NEW p, FreePageBody(p)
    PROVE  Data'
<1>1. CASE FreeAccepted(p)
  <2>1. p \in Pages /\ ~IsPageInFreeList(p) /\ Owner[p] \in ClientOwners
    BY <1>1, OwnerNames DEF FreeAccepted, Data, DataTypeOK
  <2> QED BY <1>1, <2>1, ReturnPageData DEF FreePageBody
<1>2. CASE ~FreeAccepted(p)
  BY <1>2, DataUnchanged DEF FreePageBody, data
<1> QED BY <1>1, <1>2

\* A permutation of the array in ascending order: what the integrity check
\* finds there is right.
LEMMA ValidateAllocatorInv ==
    ASSUME Data, ValidateAllocator
    PROVE  Data' /\ op' = op
<1>1. PICK f \in IndexPermutations(Len(FreePages)) :
          FreePages' = Permuted(FreePages, f) /\ Ascending(Permuted(FreePages, f))
  BY DEF ValidateAllocator, SortFreePages
<1> DEFINE n == Len(FreePages)
<1>2. /\ n \in Nat
      /\ f \in [1..n -> 1..n]
      /\ \A i, j \in 1..n : f[i] = f[j] => i = j
      /\ \A i \in 1..n : \E j \in 1..n : f[j] = i
      /\ \A i \in 1..n : FreePages[i] \in Pages
  BY LenProperties, ElementOfSeq DEF Data, DataTypeOK, IndexPermutations
<1>3. FreePages' = [i \in 1..n |-> FreePages[f[i]]]
  BY <1>1 DEF Permuted
<1>4. FreePages' \in Seq(Pages)
  <2>1. \A i \in 1..n : FreePages[f[i]] \in Pages
    BY <1>2
  <2> HIDE DEF n
  <2> QED BY <1>2, <1>3, <2>1, IsASeq
<1>5. Len(FreePages') = n
  <2>1. DOMAIN FreePages' = 1..n BY <1>3
  <2> QED BY <1>2, <1>4, <2>1, LenProperties
<1>6. \A i \in 1..n : FreePages'[i] = FreePages[f[i]] /\ f[i] \in 1..n
  BY <1>2, <1>3
<1> HIDE DEF n
<1>7. \A p : InSeq(FreePages', p) <=> InSeq(FreePages, p)
  <2> TAKE p
  <2>1. ASSUME InSeq(FreePages', p) PROVE InSeq(FreePages, p)
    BY <2>1, <1>2, <1>5, <1>6 DEF InSeq, n
  <2>2. ASSUME InSeq(FreePages, p) PROVE InSeq(FreePages', p)
    <3> PICK i \in 1..n : FreePages[i] = p BY <2>2 DEF InSeq, n
    <3> PICK j \in 1..n : f[j] = i BY <1>2
    <3> QED BY <1>5, <1>6 DEF InSeq
  <2> QED BY <2>1, <2>2
<1>8. FreeListDistinct'
  <2> SUFFICES ASSUME NEW i \in 1..n, NEW j \in 1..n, FreePages'[i] = FreePages'[j]
               PROVE  i = j
    BY <1>5 DEF FreeListDistinct
  <2>1. f[i] = f[j] BY <1>6 DEF Data, Core, FreeListDistinct, n
  <2> QED BY <1>2, <2>1
<1>9. UNCHANGED <<Initialized, UsedPageCount, counters, records, Pressure, op, held, reserved>>
  BY DEF ValidateAllocator
<1>10. Core'
  <2>1. Disjoint'
    BY <1>5, <1>6, <1>9 DEF Data, Core, Disjoint, n
  <2>2. NoPageLost'
    BY <1>5, <1>9 DEF Data, Core, NoPageLost, counters, n
  <2>3. RecordsConsistent'
    BY <1>7, <1>9 DEF Data, Core, RecordsConsistent, IsPageInFreeList, records
  <2>4. Bounded'
    BY <1>5, <1>6, <1>9 DEF Data, Core, Bounded, RecordedPages, counters, records, n
  <2> QED BY <1>8, <2>1, <2>2, <2>3, <2>4 DEF Core
<1>11. ValidatePageAccounting
  <2>1. n + UsedPageCount + ReservedPages = TrackedUsablePages
    BY DEF Data, Core, NoPageLost, n
  <2>2. n <= CapacityPages
    BY <1>2, <2>1, BoundAssumption DEF Data, DataTypeOK, Core, Bounded
  <2>3. n + UsedPageCount + ReservedPages <= TrackedUsablePages
    BY <2>1, <1>2 DEF Data, DataTypeOK
  <2> QED BY <2>2, <2>3 DEF ValidatePageAccounting, Data, Core, Bounded, n
<1>12. ValidateFreePagesSorted(FreePages')
  <2> SUFFICES ASSUME NEW i \in 1..n
               PROVE  /\ FreePages'[i] >= MinAllocPage
                      /\ i > 1 => FreePages'[i - 1] < FreePages'[i]
                      /\ Owner[FreePages'[i]] \in {NoRecord, "Free"}
    BY <1>5 DEF ValidateFreePagesSorted
  <2>1. FreePages'[i] >= MinAllocPage
    BY <1>5, <1>10 DEF Core, Bounded
  <2>2. ASSUME i > 1 PROVE FreePages'[i - 1] < FreePages'[i]
    <3>1. i - 1 \in 1..n /\ i - 1 < i BY <1>2, <2>2
    <3>2. FreePages'[i - 1] <= FreePages'[i]
      BY <1>1, <1>5, <3>1 DEF Ascending
    <3>3. FreePages'[i - 1] # FreePages'[i]
      BY <1>5, <1>8, <3>1 DEF FreeListDistinct
    <3>4. FreePages'[i - 1] \in Nat /\ FreePages'[i] \in Nat
      BY <1>2, <1>6, <3>1, PagesFinite
    <3> QED BY <3>2, <3>3, <3>4
  <2>3. Owner[FreePages'[i]] \in {NoRecord, "Free"}
    <3>1. FreePages'[i] \in Pages /\ FreePages'[i] \notin held \cup reserved
      BY <1>2, <1>5, <1>6, <1>9, <1>10 DEF Core, Disjoint
    <3> QED BY <3>1, OwnerNames DEF Data, DataTypeOK, Core, RecordsConsistent
  <2> QED BY <2>1, <2>2, <2>3
<1>13. ValidateOwnershipRecords(FreePages')
  <2> SUFFICES ASSUME NEW p \in RecordedPages
               PROVE  IF Owner[p] = "Free"
                      THEN ReferenceCount[p] = 0 /\ InSeq(FreePages', p)
                      ELSE ReferenceCount[p] # 0 /\ ~InSeq(FreePages', p)
    BY DEF ValidateOwnershipRecords
  <2>1. p \in Pages /\ Owner[p] # NoRecord BY DEF RecordedPages
  <2>2. CASE Owner[p] = "Free"
    BY <1>7, <2>1, <2>2 DEF Data, Core, RecordsConsistent, IsPageInFreeList
  <2>3. CASE Owner[p] # "Free"
    <3>1. Owner[p] \in ClientOwners \cup {"Reserved"}
      BY <2>1, <2>3, OwnerNames DEF Data, DataTypeOK
    <3>2. p \in held \cup reserved /\ ReferenceCount[p] > 0
      BY <2>1, <3>1 DEF Data, Core, RecordsConsistent
    <3>3. ~InSeq(FreePages, p)
      BY <3>2 DEF Data, Core, Disjoint, InSeq
    <3> QED BY <1>7, <2>3, <3>2, <3>3
  <2> QED BY <2>2, <2>3
<1>14. IntegrityFailures' = FALSE
  BY <1>11, <1>12, <1>13 DEF ValidateAllocator, Data, IntegrityHolds
<1>15. DataTypeOK'
  BY <1>4, <1>9, <1>14 DEF Data, DataTypeOK, counters, records
<1>16. PressureState'
  BY <1>5, <1>9 DEF Data, PressureState, PressureCurrent, n
<1> QED BY <1>9, <1>10, <1>14, <1>15, <1>16 DEF Data, IntegrityHolds

\* Adding a usable page at boot keeps the invariant.
LEMMA AddUsablePageInv ==
    ASSUME IInv, AddUsablePage
    PROVE  IInv'
<1>1. /\ op.kind = "boot"
      /\ op.index <= Len(MemoryMap)
      /\ op' = [op EXCEPT !.index = op.index + 1]
      /\ UNCHANGED <<Initialized, UsedPageCount, ReservedPages, records, Pressure,
                     IntegrityFailures, held, reserved>>
  BY DEF AddUsablePage
<1>2. /\ op.index \in 1..Len(MemoryMap)
      /\ op' \in [kind : {"boot", "idle", "take", "reserve", "free"}, index : Nat,
                  first : Nat, end : Nat, owner : Owners]
      /\ op'.kind = "boot"
      /\ op'.index = op.index + 1
  <2>1. op.index \in Nat /\ op.index >= 1
    BY <1>1 DEF IInv, TypeOK, LoopTypeOK, LoopState, BootState
  <2>2. Len(MemoryMap) \in Nat BY MapAssumption, LenProperties
  <2> QED BY <1>1, <2>1, <2>2 DEF IInv, TypeOK, LoopTypeOK
<1> DEFINE q == MemoryMap[op.index]
<1>3. Len(FreePages) \in Nat /\ q \in Pages /\ FreePages \in Seq(Pages)
  BY <1>2, LenProperties DEF IInv, TypeOK, DataTypeOK, Pages
<1>4. \A i \in 1..Len(FreePages) :
        \E k \in 1..Len(MemoryMap) : k < op.index /\ FreePages[i] = MemoryMap[k]
  BY <1>1 DEF IInv, LoopState, BootState
<1>5. ~InSeq(FreePages, q)
  <2> SUFFICES ASSUME NEW i \in 1..Len(FreePages), FreePages[i] = q PROVE FALSE
    BY DEF InSeq
  <2> PICK k \in 1..Len(MemoryMap) : k < op.index /\ FreePages[i] = MemoryMap[k]
    BY <1>4
  <2>1. k = op.index BY <1>2, MapAssumption
  <2>2. op.index \in Nat /\ k \in Nat BY <1>2
  <2> QED BY <2>1, <2>2
<1>6. CASE q < MinAllocPage \/ Len(FreePages) >= CapacityPages
  <2>1. UNCHANGED <<FreePages, TrackedUsablePages>>
    BY <1>6 DEF AddUsablePage
  <2>2. Data'
    <3>1. Data BY DEF IInv, TypeOK, Data
    <3> QED BY <3>1, <1>1, <2>1, DataUnchanged DEF data, counters
  <2>3. LoopState'
    <3>1. /\ held' = {} /\ reserved' = {} /\ ~Initialized'
          /\ \A p \in Pages : Owner'[p] = NoRecord
      BY <1>1 DEF IInv, LoopState, BootState, records
    <3>2. \A i \in 1..Len(FreePages') :
            \E k \in 1..Len(MemoryMap) : k < op'.index /\ FreePages'[i] = MemoryMap[k]
      BY <1>2, <1>4, <2>1
    <3> QED BY <1>2, <3>1, <3>2 DEF LoopState, BootState
  <2> QED BY <1>2, <2>2, <2>3 DEF IInv, TypeOK, LoopTypeOK, Data
<1>7. CASE ~(q < MinAllocPage \/ Len(FreePages) >= CapacityPages)
  <2>1. /\ FreePages' = Append(FreePages, q)
        /\ TrackedUsablePages' = TrackedUsablePages + 1
    BY <1>7 DEF AddUsablePage
  <2>2. Distinct(FreePages)
    BY DEF IInv, Core, FreeListDistinct, Distinct
  <2> HIDE DEF q
  <2>3. /\ FreePages' \in Seq(Pages)
        /\ Len(FreePages') = Len(FreePages) + 1
        /\ \A p : InSeq(FreePages', p) <=> InSeq(FreePages, p) \/ p = q
        /\ Distinct(FreePages')
    BY <1>3, <1>5, <2>1, <2>2, PushProperties
  <2>4. /\ held = {} /\ reserved = {}
        /\ held' = {} /\ reserved' = {}
        /\ \A p \in Pages : Owner[p] = NoRecord /\ Owner'[p] = NoRecord
    BY <1>1 DEF IInv, LoopState, BootState, records
  <2>5. DataTypeOK'
    BY <1>1, <2>1, <2>3 DEF IInv, TypeOK, DataTypeOK, records
  <2>6. FreeListDistinct'
    BY <2>3 DEF FreeListDistinct, Distinct
  <2>7. Disjoint'
    BY <2>4 DEF Disjoint
  <2>8. NoPageLost'
    BY <1>1, <1>3, <2>1, <2>3, <2>4 DEF IInv, TypeOK, DataTypeOK, Core, NoPageLost
  <2>9. RecordsConsistent'
    <3>1. NoRecord # "Free" /\ NoRecord # "Reserved" /\ NoRecord \notin ClientOwners
      BY OwnerNames DEF NoRecord
    <3>2. \A p \in Pages : ReferenceCount'[p] = 0
      BY <1>1, <2>4 DEF IInv, Core, RecordsConsistent, records
    <3> QED BY <2>4, <3>1, <3>2 DEF RecordsConsistent
  <2>10. Bounded'
    <3>1. q >= MinAllocPage
      BY <1>3, <1>7, PagesFinite, BoundAssumption
    <3>2. ASSUME NEW j \in 1..Len(FreePages') PROVE FreePages'[j] >= MinAllocPage
      <4>1. InSeq(FreePages', FreePages'[j]) BY DEF InSeq
      <4>2. InSeq(FreePages, FreePages'[j]) \/ FreePages'[j] = q BY <2>3, <4>1
      <4> QED BY <4>2, <3>1 DEF InSeq, IInv, Core, Bounded
    <3>3. TrackedUsablePages' <= CapacityPages
      <4>1. TrackedUsablePages = Len(FreePages)
        BY <1>3, <2>4, FS_EmptySet DEF IInv, Core, NoPageLost, TypeOK, DataTypeOK
      <4>2. Len(FreePages) < CapacityPages
        BY <1>3, <1>7, BoundAssumption
      <4> QED BY <1>3, <2>1, <4>1, <4>2, BoundAssumption
    <3>4. RecordedPages' = RecordedPages
      BY <1>1 DEF RecordedPages, records
    <3> QED BY <2>4, <3>2, <3>3, <3>4 DEF IInv, Core, Bounded
  <2>11. PressureState' /\ IntegrityHolds'
    <3>1. ~Initialized
      BY <1>1 DEF IInv, LoopState, BootState
    <3> QED BY <1>1, <3>1 DEF IInv, PressureState, PressureCurrent, IntegrityHolds
  <2>12. LoopState'
    <3>1. ASSUME NEW i \in 1..Len(FreePages')
          PROVE  \E k \in 1..Len(MemoryMap) : k < op'.index /\ FreePages'[i] = MemoryMap[k]
      <4>1. InSeq(FreePages', FreePages'[i]) BY DEF InSeq
      <4>2. InSeq(FreePages, FreePages'[i]) \/ FreePages'[i] = q BY <2>3, <4>1
      <4>3. CASE FreePages'[i] = q
        BY <1>2, <4>3 DEF q
      <4>4. CASE InSeq(FreePages, FreePages'[i])
        BY <1>2, <1>4, <4>4 DEF InSeq
      <4> QED BY <4>2, <4>3, <4>4
    <3> QED BY <1>1, <1>2, <2>4, <3>1 DEF IInv, LoopState, BootState
  <2> QED BY <1>2, <2>5, <2>6, <2>7, <2>8, <2>9, <2>10, <2>11, <2>12
      DEF IInv, TypeOK, LoopTypeOK, Core
<1> QED BY <1>6, <1>7

\* The end of the boot keeps the invariant.
LEMMA FinishInitInv ==
    ASSUME Data, FinishInit
    PROVE  Data'
<1>1. UNCHANGED <<FreePages, UsedPageCount, counters, records, IntegrityFailures,
                  held, reserved>>
  BY DEF FinishInit
<1>2. Core'
  BY <1>1 DEF Data, counters, records, Core, FreeListDistinct, Disjoint, NoPageLost,
      RecordsConsistent, IsPageInFreeList, InSeq, Bounded, RecordedPages
<1>3. Len(FreePages) \in Nat /\ Initialized' \in BOOLEAN
  BY LenProperties DEF Data, DataTypeOK, FinishInit
<1>4. CASE Initialized'
  <2>1. Pressure' = Configured(TRUE, Len(FreePages), UsedPageCount,
                               TrackedUsablePages, Pressure, 0, 0)
    BY <1>4 DEF FinishInit
  <2>2. IsCurrent(Pressure', TRUE, Len(FreePages), UsedPageCount)
    BY <1>3, <2>1, ConfiguredProperties DEF Data, DataTypeOK
  <2>3. Initialized' = TRUE BY <1>3, <1>4
  <2> QED BY <1>1, <1>2, <1>3, <2>2, <2>3
      DEF IsCurrent, Data, DataTypeOK, PressureState, PressureCurrent, IntegrityHolds, counters, records
<1>5. CASE ~Initialized'
  <2>1. Pressure' = Pressure BY <1>5 DEF FinishInit
  <2> QED BY <1>1, <1>2, <1>3, <1>5, <2>1
      DEF Data, DataTypeOK, PressureState, PressureCurrent, IntegrityHolds, counters, records
<1> QED BY <1>4, <1>5

\* SetPageOwner as its callers use it keeps the invariant.
LEMMA SetPageOwnerInv ==
    ASSUME Data, NEW p \in Pages, NEW owner \in ClientOwners, SetPageOwner(p, owner)
    PROVE  Data'
<1>1. /\ p \in held
      /\ UNCHANGED <<Initialized, FreePages, UsedPageCount, counters, Pressure,
                     IntegrityFailures, op, held, reserved>>
      /\ SetOwner(p, owner)
  BY DEF SetPageOwner
<1>2. owner \in Owners \ {"Free"} /\ owner \notin {"Free", "Reserved", NoRecord}
  BY OwnerNames
<1>3. ~InSeq(FreePages', p)
  BY <1>1 DEF Data, Core, Disjoint, InSeq
<1>4. /\ Owner' \in [Pages -> Owners \cup {NoRecord}]
      /\ ReferenceCount' \in [Pages -> Nat]
      /\ Cardinality(RecordedPages') <= MaxRecords
      /\ \A q \in Pages \ {p} :
            Owner'[q] = Owner[q] /\ ReferenceCount'[q] = ReferenceCount[q]
      /\ \/ Owner'[p] = owner /\ ReferenceCount'[p] > 0
         \/ /\ Owner[p] = NoRecord
            /\ Owner'[p] = NoRecord
            /\ ReferenceCount'[p] = ReferenceCount[p]
  BY <1>1, <1>2, <1>3, SetOwnerProperties DEF Data, Core, Bounded
<1>5. RecordsConsistent'
  <2> SUFFICES ASSUME NEW q \in Pages
      PROVE /\ Owner'[q] \in {NoRecord, "Free"} => ReferenceCount'[q] = 0
            /\ Owner'[q] = "Free" => InSeq(FreePages', q)
            /\ Owner'[q] = "Reserved" => q \in reserved' /\ ReferenceCount'[q] > 0
            /\ Owner'[q] \in ClientOwners => q \in held' /\ ReferenceCount'[q] > 0
    BY DEF RecordsConsistent, IsPageInFreeList
  <2>1. CASE q = p
    BY <2>1, <1>1, <1>2, <1>4, OwnerNames DEF Data, Core, RecordsConsistent, NoRecord
  <2>2. CASE q # p
    BY <2>2, <1>1, <1>4 DEF Data, Core, RecordsConsistent, IsPageInFreeList
  <2> QED BY <2>1, <2>2
<1>6. Core'
  BY <1>1, <1>4, <1>5 DEF Data, Core, FreeListDistinct, Disjoint, NoPageLost, Bounded, counters
<1>7. DataTypeOK' /\ PressureState' /\ IntegrityHolds'
  BY <1>1, <1>4
  DEF Data, DataTypeOK, PressureState, PressureCurrent, IntegrityHolds, counters
<1> QED BY <1>6, <1>7 DEF Data

\* A step that changes only the reference count of a client's page, and keeps
\* it above zero.
LEMMA ReferenceStepInv ==
    ASSUME Data, NEW p \in Pages, NEW n \in Nat, n > 0, Owner[p] \in ClientOwners,
           ReferenceCount' = [ReferenceCount EXCEPT ![p] = n],
           UNCHANGED <<Initialized, FreePages, UsedPageCount, counters, Owner, Pressure,
                       IntegrityFailures, held, reserved>>
    PROVE  Data'
<1>1. RecordsConsistent'
  <2> SUFFICES ASSUME NEW q \in Pages
      PROVE /\ Owner'[q] \in {NoRecord, "Free"} => ReferenceCount'[q] = 0
            /\ Owner'[q] = "Free" => InSeq(FreePages', q)
            /\ Owner'[q] = "Reserved" => q \in reserved' /\ ReferenceCount'[q] > 0
            /\ Owner'[q] \in ClientOwners => q \in held' /\ ReferenceCount'[q] > 0
    BY DEF RecordsConsistent, IsPageInFreeList
  <2>1. CASE q = p
    BY <2>1, OwnerNames DEF Data, DataTypeOK, Core, RecordsConsistent, NoRecord
  <2>2. CASE q # p
    BY <2>2 DEF Data, DataTypeOK, Core, RecordsConsistent, IsPageInFreeList
  <2> QED BY <2>1, <2>2
<1>2. Core'
  BY <1>1 DEF Data, Core, FreeListDistinct, Disjoint, NoPageLost, Bounded, RecordedPages, counters
<1>3. DataTypeOK' /\ PressureState' /\ IntegrityHolds'
  BY DEF Data, DataTypeOK, PressureState, PressureCurrent, IntegrityHolds, counters
<1> QED BY <1>2, <1>3 DEF Data

\* Sharing a page keeps the invariant.
LEMMA AddPageReferenceInv ==
    ASSUME Data, NEW p \in Pages, AddPageReference(p)
    PROVE  Data'
<1>1. Owner[p] \in ClientOwners
  BY OwnerNames DEF AddPageReference, Data, DataTypeOK, Core, RecordsConsistent
<1>2. ReferenceCount[p] + 1 \in Nat /\ ReferenceCount[p] + 1 > 0
  BY DEF Data, DataTypeOK
<1> QED BY <1>1, <1>2, ReferenceStepInv DEF AddPageReference

\* Dropping a reference keeps the invariant.
LEMMA ReleasePageReferenceInv ==
    ASSUME Data, NEW p \in Pages, ReleasePageReference(p)
    PROVE  Data'
<1>1. Owner[p] \in ClientOwners
  BY OwnerNames DEF ReleasePageReference, Data, DataTypeOK, Core, RecordsConsistent, NoRecord
<1>2. p \in held /\ ~IsPageInFreeList(p) /\ Owner[p] # "Reserved"
  BY <1>1, OwnerNames DEF Data, Core, RecordsConsistent, Disjoint, IsPageInFreeList, InSeq
<1>3. ReferenceCount[p] \in Nat /\ ReferenceCount[p] > 0
  BY DEF Data, DataTypeOK, ReleasePageReference
<1>4. Len(FreePages) < CapacityPages
  <2>1. IsFiniteSet(held) /\ Cardinality(held) \in Nat
    BY PagesFinite, FS_Subset, FS_CardinalityType DEF Data, DataTypeOK
  <2>2. UsedPageCount > 0
    <3>1. held # {} BY <1>2
    <3> QED BY <2>1, <3>1, FS_EmptySet DEF Data, Core, NoPageLost
  <2>3. Len(FreePages) \in Nat BY LenProperties DEF Data, DataTypeOK
  <2> QED BY <2>2, <2>3, BoundAssumption DEF Data, DataTypeOK, Core, NoPageLost, Bounded
<1>5. CASE ReferenceCount[p] = 1
  <2>1. ReturnPage(p) BY <1>2, <1>4, <1>5 DEF ReleasePageReference
  <2> QED BY <1>1, <1>2, <2>1, ReturnPageData
<1>6. CASE ReferenceCount[p] # 1
  <2>1. /\ ReferenceCount' = [ReferenceCount EXCEPT ![p] = ReferenceCount[p] - 1]
        /\ UNCHANGED <<Initialized, FreePages, UsedPageCount, counters, Owner,
                       Pressure, IntegrityFailures, held, reserved>>
    BY <1>6 DEF ReleasePageReference
  <2>2. ReferenceCount[p] - 1 \in Nat /\ ReferenceCount[p] - 1 > 0
    BY <1>3, <1>6
  <2> QED BY <1>1, <2>1, <2>2, ReferenceStepInv
<1> QED BY <1>5, <1>6

\* A step that only rewrites the pressure record, and leaves it current.
LEMMA PressureStepInv ==
    ASSUME Data,
           UNCHANGED <<Initialized, FreePages, UsedPageCount, counters, records,
                       IntegrityFailures, held, reserved>>,
           IsCurrent(Pressure', Initialized, Len(FreePages), UsedPageCount)
    PROVE  Data'
<1>1. Core'
  BY DEF Data, counters, records, Core, FreeListDistinct, Disjoint, NoPageLost,
         RecordsConsistent, IsPageInFreeList, InSeq, Bounded, RecordedPages
<1>2. DataTypeOK' /\ PressureState' /\ IntegrityHolds'
  BY DEF IsCurrent, Data, DataTypeOK, PressureState, PressureCurrent, IntegrityHolds,
         counters, records
<1> QED BY <1>1, <1>2 DEF Data

\* New watermarks keep the invariant.
LEMMA PressureConfigureInv ==
    ASSUME Data, NEW low \in Watermarks, NEW critical \in Watermarks,
           PressureConfigure(low, critical)
    PROVE  Data'
<1>1. low \in Nat /\ critical \in Nat
  BY ArgumentAssumption
<1>2. Len(FreePages) \in Nat BY LenProperties DEF Data, DataTypeOK
<1>3. IsCurrent(Pressure', Initialized, Len(FreePages), UsedPageCount)
  BY <1>1, <1>2, ConfiguredProperties DEF Data, DataTypeOK, PressureConfigure
<1> QED BY <1>3, PressureStepInv DEF PressureConfigure

\* The pressure self test keeps the invariant.
LEMMA RunPressureSelfTestInv ==
    ASSUME Data, RunPressureSelfTest
    PROVE  Data'
<1> DEFINE free == Len(FreePages)
           raised == Configured(Initialized, free, UsedPageCount, TrackedUsablePages,
                                Pressure, free + 1, free + 1)
           restored == Configured(Initialized, free, UsedPageCount, TrackedUsablePages,
                                  raised, Pressure.LowWatermark, Pressure.CriticalWatermark)
           again == [restored EXCEPT !.Level = Pressure.Level]
<1>1. free \in Nat /\ free + 1 \in Nat
  BY LenProperties DEF Data, DataTypeOK
<1>2. /\ Initialized \in BOOLEAN
      /\ UsedPageCount \in Nat
      /\ TrackedUsablePages \in Nat
      /\ Pressure \in PressureType
      /\ Pressure.LowWatermark \in Nat /\ Pressure.CriticalWatermark \in Nat
  BY DEF Data, DataTypeOK, PressureType
<1> HIDE DEF free
<1>3. IsCurrent(raised, Initialized, free, UsedPageCount)
  BY <1>1, <1>2, ConfiguredProperties
<1> HIDE DEF raised
<1>4. restored \in PressureType /\ restored.CriticalWatermark <= restored.LowWatermark
  <2>1. raised \in PressureType BY <1>3 DEF IsCurrent
  <2>2. IsCurrent(restored, Initialized, free, UsedPageCount)
    BY <1>1, <1>2, <2>1, ConfiguredProperties
  <2> QED BY <2>2 DEF IsCurrent
<1> HIDE DEF restored
<1>5. again \in PressureType /\ again.CriticalWatermark <= again.LowWatermark
  BY <1>2, <1>4 DEF PressureType
<1> HIDE DEF again
<1> DEFINE final == Refreshed(Initialized, free, UsedPageCount, TrackedUsablePages, again)
<1>6. IsCurrent(final, Initialized, free, UsedPageCount)
  BY <1>1, <1>2, <1>5, RefreshedProperties
<1> HIDE DEF final
<1>7. /\ Pressure' = raised \/ Pressure' = final
      /\ UNCHANGED <<Initialized, FreePages, UsedPageCount, counters, records,
                     IntegrityFailures, held, reserved>>
  BY DEF RunPressureSelfTest, final, again, restored, raised, free
<1> QED BY <1>3, <1>6, <1>7, PressureStepInv DEF free

\* Each step of the reserving loop keeps the invariant.
LEMMA ReserveStepInv ==
    ASSUME Data, LoopTypeOK, op.index >= 1, ReserveStep
    PROVE  Data' /\ LoopTypeOK' /\ op'.kind = "reserve" /\ op'.index >= 1
<1>1. op.kind = "reserve" /\ op.index <= Len(FreePages) /\ op.index \in Nat
  BY DEF ReserveStep, LoopTypeOK
<1>2. op.index \in 1..Len(FreePages)
  <2>1. Len(FreePages) \in Nat BY LenProperties DEF Data, DataTypeOK
  <2> QED BY <1>1, <2>1
<1>3. CASE op.first <= FreePages[op.index] /\ FreePages[op.index] < op.end
  <2>1. /\ FreePages' = SwapRemove(FreePages, op.index)
        /\ ReservedPages' = ReservedPages + 1
        /\ SetOwner(FreePages[op.index], "Reserved")
        /\ reserved' = reserved \cup {FreePages[op.index]}
        /\ UNCHANGED <<TrackedUsablePages, UsedPageCount, op>>
        /\ PressureRefresh
        /\ UNCHANGED <<Initialized, IntegrityFailures, held>>
    BY <1>3 DEF ReserveStep
  <2>2. DataTypeOK' /\ Core' /\ PressureState'
    BY <1>2, <2>1, ReservePageInv DEF Data
  <2>3. IntegrityHolds' BY <2>1 DEF Data, IntegrityHolds
  <2> QED BY <1>1, <2>1, <2>2, <2>3 DEF Data, LoopTypeOK
<1>4. CASE ~(op.first <= FreePages[op.index] /\ FreePages[op.index] < op.end)
  <2>1. /\ op' = [op EXCEPT !.index = op.index + 1]
        /\ UNCHANGED data
    BY <1>4 DEF ReserveStep, data
  <2> QED BY <1>1, <2>1, DataUnchanged DEF LoopTypeOK
<1> QED BY <1>3, <1>4

-----------------------------------------------------------------------------
(* The theorems *)

\* The cleared allocator satisfies the invariant.
LEMMA InitInv == Init => IInv
<1> SUFFICES ASSUME Init PROVE IInv
  OBVIOUS
<1> USE DEF Init
<1>1. FreePages \in Seq(Pages) /\ Len(FreePages) = 0
  BY EmptySeq
<1>2. LoopTypeOK /\ op.kind = "boot" /\ op.index = 1
  BY DEF LoopTypeOK, Loop, Owners
<1>3. Pressure \in PressureType
  BY DEF PressureType, Normal, OutOfMemory
<1>4. DataTypeOK
  BY <1>1, <1>3 DEF DataTypeOK
<1>5. RecordedPages = {}
  BY DEF RecordedPages
<1>6. Core
  <2>1. FreeListDistinct /\ Disjoint
    BY <1>1 DEF FreeListDistinct, Disjoint
  <2>2. NoPageLost
    BY <1>1, FS_EmptySet DEF NoPageLost
  <2>3. RecordsConsistent
    BY OwnerNames DEF RecordsConsistent, NoRecord
  <2>4. Bounded
    BY <1>1, <1>5, FS_EmptySet, BoundAssumption DEF Bounded
  <2> QED BY <2>1, <2>2, <2>3, <2>4 DEF Core
<1>7. LoopState
  BY <1>1, <1>2 DEF LoopState, BootState
<1>8. PressureState /\ IntegrityHolds
  BY DEF PressureState, PressureCurrent, IntegrityHolds
<1> QED BY <1>2, <1>4, <1>6, <1>7, <1>8 DEF IInv, TypeOK

\* The loop variable after a step that ends a call or starts or continues one
\* of the loops over allocated pages.
LEMMA QuietLoop ==
    ASSUME op'.kind \in {"idle", "free"}
    PROVE  LoopState'
BY DEF LoopState, BootState

\* The loop over a contiguous run moves to a page number.
LEMMA NextPageType ==
    ASSUME LoopTypeOK
    PROVE  /\ NextPage \in [kind : {"boot", "idle", "take", "reserve", "free"}, index : Nat,
                           first : Nat, end : Nat, owner : Owners]
           /\ NextPage.kind \in {op.kind, "idle"}
           /\ NextPage.kind # "idle" => NextPage.owner = op.owner
BY IdleLoop DEF LoopTypeOK, NextPage

\* Every step keeps the invariant.
LEMMA NextInv == IInv /\ [Next]_vars => IInv'
<1> SUFFICES ASSUME IInv, [Next]_vars PROVE IInv'
  OBVIOUS
<1>1. Data /\ LoopTypeOK /\ LoopState
  BY DEF IInv, Data, TypeOK
<1> SUFFICES Data' /\ LoopTypeOK' /\ LoopState'
  BY DEF IInv, Data, TypeOK
<1>2. ASSUME op = Idle, op' = op PROVE LoopTypeOK' /\ LoopState'
  BY <1>1, <1>2, IdleLoop, QuietLoop DEF LoopTypeOK
<1>3. ASSUME op' = Idle PROVE LoopTypeOK' /\ LoopState'
  BY <1>3, IdleLoop, QuietLoop DEF LoopTypeOK
<1>4. CASE AddUsablePage
  BY <1>4, AddUsablePageInv DEF IInv, Data, TypeOK
<1>5. CASE FinishInit
  <2>1. op' = Idle BY <1>5 DEF FinishInit
  <2> QED BY <1>1, <1>3, <1>5, <2>1, FinishInitInv
<1>6. CASE AllocatePage
  <2>1. op = Idle BY <1>6 DEF AllocatePage
  <2>2. CASE AllocationFails
    BY <1>1, <1>2, <2>1, <2>2, AllocationFailsInv
  <2>3. CASE Len(FreePages) > 0 /\ TakePage(Len(FreePages), "Generic") /\ UNCHANGED op
    <3>1. Len(FreePages) \in 1..Len(FreePages)
      BY <1>1, <2>3, LenProperties DEF Data, DataTypeOK
    <3>2. "Generic" \in ClientOwners BY OwnerNames
    <3> QED BY <1>1, <1>2, <2>1, <2>3, <3>1, <3>2, TakePageData
  <2> QED BY <1>6, <2>2, <2>3 DEF AllocatePage
<1>7. ASSUME NEW limit \in Limits, AllocatePageBelow(limit) PROVE Data' /\ LoopTypeOK' /\ LoopState'
  <2>1. "Generic" \in ClientOwners BY OwnerNames
  <2>2. op = Idle BY <1>7 DEF AllocatePageBelow, AllocateFrom
  <2> QED BY <1>1, <1>2, <1>7, <2>1, <2>2, AllocateFromInv DEF AllocatePageBelow
<1>8. ASSUME NEW c \in Constraints, AllocateConstrainedPage(c)
      PROVE  Data' /\ LoopTypeOK' /\ LoopState'
  <2>1. op = Idle BY <1>8 DEF AllocateConstrainedPage, AllocateFrom
  <2> QED BY <1>1, <1>2, <1>8, <2>1, ConstraintOwnerType, AllocateFromInv
      DEF AllocateConstrainedPage
<1>9. ASSUME NEW c \in Constraints, AllocateContiguousPages(c)
      PROVE  Data' /\ LoopTypeOK' /\ LoopState'
  <2>1. op = Idle BY <1>9 DEF AllocateContiguousPages
  <2>2. CASE AllocationFails
    BY <1>1, <1>2, <2>1, <2>2, AllocationFailsInv
  <2>3. CASE ~AllocationFails
    <3>1. PICK i \in 1..Len(FreePages) :
            /\ op' = Loop("take", FreePages[i], FreePages[i] + ContiguousCount(c),
                          ConstraintOwner(c))
            /\ UNCHANGED data
      BY <1>9, <2>3 DEF AllocateContiguousPages, data
    <3>2. FreePages[i] \in Nat
      BY <1>1, PagesFinite, ElementOfSeq DEF Data, DataTypeOK
    <3>3. /\ ConstraintOwner(c) \in ClientOwners
          /\ ConstraintOwner(c) \in Owners
          /\ ContiguousCount(c) \in Nat
      BY ConstraintOwnerType, OwnerNames
    <3>4. LoopTypeOK' /\ op'.kind = "take" /\ op'.owner \in ClientOwners
      BY <3>1, <3>2, <3>3 DEF LoopTypeOK, Loop
    <3> QED BY <1>1, <3>1, <3>4, DataUnchanged DEF LoopState, BootState
  <2> QED BY <2>2, <2>3
<1>10. CASE TakeContiguousPage
  <2>1. /\ op.kind = "take"
        /\ op.owner \in ClientOwners
        /\ op' = NextPage
    BY <1>1, <1>10 DEF TakeContiguousPage, LoopState
  <2>2. \E i \in 1..Len(FreePages) : TakePage(i, op.owner)
    BY <1>10 DEF TakeContiguousPage
  <2>3. Data'
    BY <1>1, <2>1, <2>2, TakePageData
  <2>4. LoopTypeOK' /\ op'.kind \in {"take", "idle"} /\ (op'.kind = "take" => op'.owner = op.owner)
    BY <1>1, <2>1, NextPageType DEF LoopTypeOK
  <2> QED BY <2>1, <2>3, <2>4 DEF LoopState, BootState
<1>11. ASSUME NEW range \in Ranges, ReserveRange(range) PROVE Data' /\ LoopTypeOK' /\ LoopState'
  <2>1. range.first \in Nat /\ range.end \in Nat
    BY ArgumentAssumption
  <2>2. /\ op' = Loop("reserve", range.first, range.end, "Reserved")
        /\ UNCHANGED data
    BY <1>11 DEF ReserveRange, data
  <2>3. LoopTypeOK' /\ op'.kind = "reserve" /\ op'.index = 1
    BY <2>1, <2>2 DEF LoopTypeOK, Loop, Owners
  <2> QED BY <1>1, <2>2, <2>3, DataUnchanged DEF LoopState, BootState
<1>12. CASE ReserveStep
  <2>1. op.index >= 1
    BY <1>1, <1>12 DEF ReserveStep, LoopState
  <2>2. Data' /\ LoopTypeOK' /\ op'.kind = "reserve" /\ op'.index >= 1
    BY <1>1, <1>12, <2>1, ReserveStepInv
  <2> QED BY <2>2 DEF LoopState, BootState
<1>13. CASE ReserveDone
  BY <1>1, <1>3, <1>13, DataUnchanged DEF ReserveDone, data
<1>14. ASSUME NEW p \in Pages, FreePage(p) PROVE Data' /\ LoopTypeOK' /\ LoopState'
  BY <1>1, <1>2, <1>14, FreePageBodyInv DEF FreePage
<1>15. ASSUME NEW range \in Ranges, FreeContiguousPages(range)
       PROVE  Data' /\ LoopTypeOK' /\ LoopState'
  <2>1. range.first \in Nat /\ range.end \in Nat
    BY ArgumentAssumption
  <2>2. /\ op' = Loop("free", range.first, range.end, "Free")
        /\ UNCHANGED data
    BY <1>15 DEF FreeContiguousPages, data
  <2>3. LoopTypeOK' /\ op'.kind = "free"
    BY <2>1, <2>2 DEF LoopTypeOK, Loop, Owners
  <2> QED BY <1>1, <2>2, <2>3, DataUnchanged, QuietLoop
<1>16. CASE FreeContiguousPage
  <2>1. op.kind = "free" /\ op' = NextPage /\ FreePageBody(op.first)
    BY <1>16 DEF FreeContiguousPage
  <2>2. LoopTypeOK' /\ op'.kind \in {"free", "idle"}
    BY <1>1, <2>1, NextPageType DEF LoopTypeOK
  <2> QED BY <1>1, <2>1, <2>2, FreePageBodyInv, QuietLoop
<1>17. ASSUME NEW p \in Pages, NEW owner \in ClientOwners, SetPageOwner(p, owner)
       PROVE  Data' /\ LoopTypeOK' /\ LoopState'
  BY <1>1, <1>2, <1>17, SetPageOwnerInv DEF SetPageOwner
<1>18. ASSUME NEW p \in Pages, AddPageReference(p) PROVE Data' /\ LoopTypeOK' /\ LoopState'
  BY <1>1, <1>2, <1>18, AddPageReferenceInv DEF AddPageReference
<1>19. ASSUME NEW p \in Pages, ReleasePageReference(p) PROVE Data' /\ LoopTypeOK' /\ LoopState'
  BY <1>1, <1>2, <1>19, ReleasePageReferenceInv DEF ReleasePageReference
<1>20. ASSUME NEW low \in Watermarks, NEW critical \in Watermarks,
              PressureConfigure(low, critical)
       PROVE  Data' /\ LoopTypeOK' /\ LoopState'
  BY <1>1, <1>2, <1>20, PressureConfigureInv DEF PressureConfigure
<1>21. CASE RunPressureSelfTest
  BY <1>1, <1>2, <1>21, RunPressureSelfTestInv DEF RunPressureSelfTest
<1>22. CASE ValidateAllocator
  <2>1. op = Idle BY <1>22 DEF ValidateAllocator
  <2> QED BY <1>1, <1>2, <1>22, <2>1, ValidateAllocatorInv
<1>23. CASE UNCHANGED vars
  <2>1. UNCHANGED data BY <1>23 DEF vars, data, counters, records
  <2>2. LoopTypeOK' /\ LoopState'
    BY <1>1, <1>23 DEF vars, LoopTypeOK, LoopState, BootState
  <2> QED BY <1>1, <2>1, <2>2, DataUnchanged
<1> QED BY <1>4, <1>5, <1>6, <1>7, <1>8, <1>9, <1>10, <1>11, <1>12, <1>13, <1>14, <1>15,
           <1>16, <1>17, <1>18, <1>19, <1>20, <1>21, <1>22, <1>23 DEF Next

\* The inductive invariant holds in every reachable state of the allocator.
THEOREM Invariance == Spec => []IInv
BY InitInv, NextInv, PTL DEF Spec

\* The allocator's variables keep their types, whatever is called in whatever
\* order.
THEOREM TypeCorrect == Spec => []TypeOK
BY Invariance, PTL DEF IInv

\* No page is ever twice in the free array, free and in use at once, or lost:
\* the counters and the pages in circulation always add up to the tracked ones.
THEOREM PagesConserved == Spec => []PagesPartitioned
<1>1. IInv => PagesPartitioned
  BY DEF IInv, Core, PagesPartitioned
<1> QED BY <1>1, Invariance, PTL

\* The ownership records always agree with the free array and with the pages
\* the callers hold.
THEOREM RecordsAgree == Spec => []RecordsConsistent
<1>1. IInv => RecordsConsistent
  BY DEF IInv, Core
<1> QED BY <1>1, Invariance, PTL

\* The kernel's integrity check never fails.
THEOREM IntegrityNeverFails == Spec => []IntegrityHolds
<1>1. IInv => IntegrityHolds
  BY DEF IInv
<1> QED BY <1>1, Invariance, PTL

\* The pressure record is never stale.
THEOREM PressureAlwaysCurrent == Spec => []PressureCurrent
<1>1. IInv => PressureCurrent
  BY DEF IInv, PressureState
<1> QED BY <1>1, Invariance, PTL

\* A contiguous allocation takes only free pages: the run is found free, no other
\* call comes between, and each turn removes no page but its own.
LEMMA RunKept == IInv /\ ContiguousRunStaysFree /\ [Next]_vars => ContiguousRunStaysFree'
<1> SUFFICES ASSUME IInv, ContiguousRunStaysFree, [Next]_vars, op'.kind = "take"
             PROVE  \A p \in op'.first..(op'.end - 1) : IsPageInFreeList(p)'
  BY DEF ContiguousRunStaysFree
<1>1. Data /\ LoopTypeOK /\ Idle.kind = "idle"
  BY DEF IInv, Data, TypeOK, Idle
<1>2. CASE op' = Idle \/ (op = Idle /\ op' = op)
  BY <1>1, <1>2
<1>3. ASSUME NEW c \in Constraints, AllocateContiguousPages(c)
      PROVE  \A p \in op'.first..(op'.end - 1) : IsPageInFreeList(p)'
  <2>1. PICK i \in 1..Len(FreePages) :
          /\ ContiguousRunAt(FreePages[i], ContiguousCount(c), c)
          /\ op' = Loop("take", FreePages[i], FreePages[i] + ContiguousCount(c),
                        ConstraintOwner(c))
          /\ FreePages' = FreePages
    BY <1>1, <1>3 DEF AllocateContiguousPages, AllocationFails
  <2>2. op'.first = FreePages[i] /\ op'.end = FreePages[i] + ContiguousCount(c)
    BY <2>1 DEF Loop
  <2>3. \A p : IsPageInFreeList(p)' <=> IsPageInFreeList(p)
    BY <2>1 DEF IsPageInFreeList, InSeq
  <2> DEFINE last == FreePages[i] + ContiguousCount(c) - 1
  <2>4. \A p \in FreePages[i]..last : IsPageInFreeList(p)
    BY <2>1 DEF ContiguousRunAt
  <2>5. FreePages[i] \in Nat /\ ContiguousCount(c) \in Nat
    BY <1>1, PagesFinite, ElementOfSeq, ConstraintOwnerType DEF Data, DataTypeOK
  <2>6. op'.first = FreePages[i] /\ op'.end - 1 = last
    BY <2>2, <2>5
  <2> HIDE DEF last
  <2> QED BY <2>3, <2>4, <2>6
<1>4. CASE TakeContiguousPage
  <2>1. PICK i \in 1..Len(FreePages) :
          op.kind = "take" /\ FreePages[i] = op.first /\ FreePages' = SwapRemove(FreePages, i)
    BY <1>4 DEF TakeContiguousPage, TakePage
  <2>2. FreePages \in Seq(Pages) /\ Distinct(FreePages)
    BY <1>1 DEF Data, DataTypeOK, Core, FreeListDistinct, Distinct
  <2>3. \A p : IsPageInFreeList(p)' <=> IsPageInFreeList(p) /\ p # op.first
    BY <2>1, <2>2, SwapRemoveProperties DEF IsPageInFreeList
  <2>4. op' = [op EXCEPT !.first = @ + 1] /\ op.first \in Nat /\ op.end \in Nat
    <3>1. op' = NextPage /\ op' # Idle
      BY <1>1, <1>4 DEF TakeContiguousPage
    <3> QED BY <1>1, <3>1 DEF NextPage, LoopTypeOK
  <2>5. op'.first = op.first + 1 /\ op'.end = op.end
    BY <1>1, <2>4 DEF LoopTypeOK
  <2>6. \A p \in op'.first..(op'.end - 1) : p \in op.first..(op.end - 1) /\ p # op.first
    BY <2>4, <2>5
  <2> QED BY <2>1, <2>3, <2>6 DEF ContiguousRunStaysFree
<1>5. CASE AddUsablePage \/ ReserveStep
  <2>1. op.kind # "take"
    BY <1>5 DEF AddUsablePage, ReserveStep
  <2>2. op'.kind = op.kind
    BY <1>1, <1>5 DEF AddUsablePage, ReserveStep, LoopTypeOK
  <2> QED BY <2>1, <2>2
<1>6. CASE \/ \E range \in Ranges : ReserveRange(range) \/ FreeContiguousPages(range)
           \/ FreeContiguousPage
  <2>1. op'.kind # "take"
    BY <1>1, <1>6 DEF ReserveRange, FreeContiguousPages, FreeContiguousPage, Loop, NextPage,
                      LoopTypeOK
  <2> QED BY <2>1
<1>7. CASE UNCHANGED vars
  <2>1. op' = op /\ FreePages' = FreePages
    BY <1>7 DEF vars
  <2> QED BY <2>1 DEF ContiguousRunStaysFree, IsPageInFreeList
<1>8. CASE FinishInit \/ ReserveDone
  BY <1>2, <1>8 DEF FinishInit, ReserveDone
<1>9. CASE \/ AllocatePage \/ (\E limit \in Limits : AllocatePageBelow(limit))
           \/ \E c \in Constraints : AllocateConstrainedPage(c)
  <2>1. op = Idle /\ op' = op
    BY <1>9 DEF AllocatePage, AllocatePageBelow, AllocateConstrainedPage, AllocateFrom,
                AllocationFails
  <2> QED BY <1>2, <2>1
<1>10. CASE \/ \E p \in Pages : FreePage(p) \/ AddPageReference(p) \/ ReleasePageReference(p)
            \/ \E p \in Pages, owner \in ClientOwners : SetPageOwner(p, owner)
            \/ \E low \in Watermarks, critical \in Watermarks : PressureConfigure(low, critical)
            \/ RunPressureSelfTest \/ ValidateAllocator
  <2>1. op = Idle /\ op' = op
    BY <1>10 DEF FreePage, AddPageReference, ReleasePageReference, SetPageOwner,
                 PressureConfigure, RunPressureSelfTest, ValidateAllocator
  <2> QED BY <1>2, <2>1
<1> QED BY <1>3, <1>4, <1>5, <1>6, <1>7, <1>8, <1>9, <1>10 DEF Next

\* The loop of AllocateContiguousPages never looks for a page that is gone.
THEOREM RunStaysFree == Spec => []ContiguousRunStaysFree
<1>1. Init => ContiguousRunStaysFree
  BY DEF Init, Loop, ContiguousRunStaysFree
<1>2. ContiguousRunStaysFree /\ IInv /\ [Next]_vars => ContiguousRunStaysFree'
  BY RunKept
<1> QED BY <1>1, <1>2, Invariance, PTL DEF Spec
=============================================================================
