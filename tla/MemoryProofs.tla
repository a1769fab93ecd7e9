---------------------------- MODULE MemoryProofs ----------------------------
(***************************************************************************)
(* What address spaces map is theirs and is seen by nobody else, for every *)
(* number of spaces, pages and frames; the links and counts of processes   *)
(* and threads agree, for every number of them.                            *)
(***************************************************************************)
EXTENDS VirtualMemory, Process, FiniteSetTheorems, TLAPS

Access == [space : Spaces \cup {None}, page : Pages \cup {KernelPage}, kind : Kinds \cup {"none"},
           tries : Nat, mixed : BOOLEAN]
Load == [space : Spaces \cup {None}, next : Pages \cup {1}, last : Pages \cup {0},
         W : BOOLEAN, X : BOOLEAN]

Content == [Cells -> Values \cup {0}]

Types ==
    /\ SpacesTypeOK
    /\ regions \in [Spaces -> Seq(Region)]
    /\ data \in [Frames -> Content]
    /\ pending \in Access
    /\ load \in Load

\* Space s maps frame f at page p.
MapsTo(s, p, f) == s \in live /\ table[s][p].frame = f

\* A frame that is mapped is nobody else's: it is neither free nor a table, it
\* counts its mappings, and none of several mappings can write.
Owned(f) ==
    /\ f \notin free /\ f \notin tables
    /\ f \in Tracked => refs[f] >= Cardinality(Mappings(f))

ReadOnlyIfShared(f) ==
    \A s, t \in live, p, q \in Pages :
        MapsTo(s, p, f) /\ MapsTo(t, q, f) /\ <<s, p>> # <<t, q>> => ~table[s][p].W

FrameOK(f) == Mappings(f) # {} => Owned(f) /\ ReadOnlyIfShared(f)

\* Frames and mappings.  A space that is not live maps nothing.
Memory ==
    /\ \A s \in Spaces \ live, p \in Pages : table[s][p] = NoEntry
    /\ \A s \in Spaces, p \in Pages : Present(s, p) => table[s][p].frame \in Frames /\ p \in leaves[s]
    /\ \A f \in Frames : FrameOK(f)
    /\ tables \cap free = {}

\* A segment is loaded into a live space, up to its last page.
Loading ==
    load # NoLoad => /\ load.space \in live
                     /\ {load.next, load.last} \subseteq Pages /\ load.next <= load.last

\* The faulting access is one that no repair makes possible: the page is there
\* and the access is no write.
Stuck == pending.page \in Pages /\ Present(pending.space, pending.page) /\ pending.kind # "write"

\* What the policy has done to a fault of the process whose allocator it uses.
Tried ==
    \/ verdict = "none" /\ pending.tries = 0
    \/ verdict = "kill" /\ (pending.tries <= 1 \/ Stuck)
    \/ /\ verdict = "recover" /\ pending.tries <= 1
       /\ Stuck \/ Permitted(pending.space, pending.page, pending.kind)

Faulting ==
    /\ pending = NoAccess => verdict \in {"none", "panic"}
    /\ pending # NoAccess => /\ pending.space \in live /\ load = NoLoad
                             /\ verdict # "panic"
                             /\ ~pending.mixed => Tried

\* The inductive invariant.
SpacesInv == Types /\ Memory /\ Loading /\ Faulting

-----------------------------------------------------------------------------
(* Mappings.                                                               *)

LEMMA MappingsFinite ==
    ASSUME SpacesConstants, live \subseteq Spaces, NEW f
    PROVE  IsFiniteSet(Mappings(f)) /\ Cardinality(Mappings(f)) \in Nat
<1>1. IsFiniteSet(live)
  BY FS_Subset DEF SpacesConstants
<1>2. IsFiniteSet(live \X Pages)
  BY <1>1, FS_Product DEF SpacesConstants
<1>3. Mappings(f) \in SUBSET (live \X Pages)
  BY DEF Mappings
<1> QED BY <1>2, <1>3, FS_Subset, FS_CardinalityType

LEMMA MappingsOf ==
    ASSUME NEW f
    PROVE  /\ \A s \in live, p \in Pages : <<s, p>> \in Mappings(f) <=> table[s][p].frame = f
           /\ \A m \in Mappings(f) : \E s \in live, p \in Pages : m = <<s, p>>
BY DEF Mappings

LEMMA MappingsEmpty ==
    ASSUME NEW f
    PROVE  Mappings(f) = {} <=> \A s \in live, p \in Pages : table[s][p].frame # f
<1>1. ASSUME Mappings(f) # {} PROVE \E s \in live, p \in Pages : table[s][p].frame = f
  BY <1>1, MappingsOf
<1>2. ASSUME NEW s \in live, NEW p \in Pages, table[s][p].frame = f PROVE Mappings(f) # {}
  BY <1>2, MappingsOf
<1> QED BY <1>1, <1>2

\* The parts of SpacesSound follow.
LEMMA SpacesInvSound ==
    ASSUME SpacesConstants, SpacesInv
    PROVE  SpacesSound
<1> USE DEF SpacesInv, Types, Memory
<1>1. live \subseteq Spaces
  BY DEF SpacesTypeOK
<1>2. RefsCoverMappings
  BY DEF RefsCoverMappings, FrameOK, Owned
<1>3. SharedIsReadOnly
  <2> SUFFICES ASSUME NEW f \in Frames, Cardinality(Mappings(f)) > 1, NEW m \in Mappings(f)
               PROVE  ~table[m[1]][m[2]].W
    BY DEF SharedIsReadOnly
  <2>1. PICK n \in Mappings(f) : n # m
    <3>1. ASSUME \A n \in Mappings(f) : n = m PROVE FALSE
      <4>1. Mappings(f) = {m}
        BY <3>1
      <4>2. Cardinality({m}) = 1
        BY FS_Singleton
      <4> QED BY <4>1, <4>2
    <3> QED BY <3>1
  <2>2. PICK s \in live, p \in Pages : m = <<s, p>>
    BY MappingsOf
  <2>3. PICK t \in live, q \in Pages : n = <<t, q>>
    BY MappingsOf
  <2>4. MapsTo(s, p, f) /\ MapsTo(t, q, f) /\ <<s, p>> # <<t, q>>
    BY <2>1, <2>2, <2>3, MappingsOf DEF MapsTo
  <2>5. ReadOnlyIfShared(f)
    BY DEF FrameOK
  <2> QED BY <2>2, <2>4, <2>5 DEF ReadOnlyIfShared
<1>4. TablesPrivate
  BY <1>1, MappingsEmpty DEF TablesPrivate, FrameOK, Owned, SpacesTypeOK
<1>5. RecoveredOnce
  <2> SUFFICES ASSUME verdict = "recover", ~pending.mixed PROVE pending.tries <= 1
    BY DEF RecoveredOnce
  <2>1. pending # NoAccess
    BY DEF Faulting
  <2> QED BY <2>1 DEF Faulting, Tried
<1> QED BY <1>2, <1>3, <1>4, <1>5 DEF SpacesSound

\* A frame that gets no new mapping and no new right to write and loses no
\* reference stays in order.
LEMMA FrameKept ==
    ASSUME SpacesConstants, live \subseteq Spaces, live' \subseteq Spaces,
           NEW f, FrameOK(f),
           \A s \in live', p \in Pages : table'[s][p].frame = f =>
               /\ s \in live /\ table[s][p].frame = f
               /\ table'[s][p].W => table[s][p].W,
           f \notin free /\ f \notin tables => f \notin free' /\ f \notin tables',
           f \in Tracked => refs[f] \in Nat /\ refs'[f] \in Nat /\ refs'[f] >= refs[f]
    PROVE  FrameOK(f)'
<1> SUFFICES ASSUME Mappings(f)' # {} PROVE Owned(f)' /\ ReadOnlyIfShared(f)'
  BY DEF FrameOK
<1>1. Mappings(f)' \subseteq Mappings(f)
  BY DEF Mappings
<1>2. Owned(f) /\ ReadOnlyIfShared(f)
  BY <1>1 DEF FrameOK
<1>3. Cardinality(Mappings(f)') <= Cardinality(Mappings(f))
  BY <1>1, MappingsFinite, FS_Subset
<1>4. Cardinality(Mappings(f)) \in Nat /\ Cardinality(Mappings(f)') \in Nat
  <2>1. IsFiniteSet(Mappings(f)')
    BY <1>1, MappingsFinite, FS_Subset
  <2> QED BY <2>1, MappingsFinite, FS_CardinalityType
<1>5. Owned(f)'
  BY <1>2, <1>3, <1>4 DEF Owned
<1>6. ReadOnlyIfShared(f)'
  BY <1>2 DEF ReadOnlyIfShared, MapsTo
<1> QED BY <1>5, <1>6

\* A frame with one mapping, whatever that may do, is in order.
LEMMA FrameAlone ==
    ASSUME NEW f, f \notin free', f \notin tables',
           f \in Tracked => refs'[f] \in Nat /\ refs'[f] >= 1,
           \A s, t \in live', p, q \in Pages :
               table'[s][p].frame = f /\ table'[t][q].frame = f => <<s, p>> = <<t, q>>
    PROVE  FrameOK(f)'
<1> SUFFICES ASSUME Mappings(f)' # {} PROVE Owned(f)' /\ ReadOnlyIfShared(f)'
  BY DEF FrameOK
<1>1. PICK m : Mappings(f)' = {m}
  <2>1. \A m, n \in Mappings(f)' : m = n
    BY DEF Mappings
  <2> QED BY <2>1
<1>2. Cardinality(Mappings(f)') = 1
  BY <1>1, FS_Singleton
<1>3. ReadOnlyIfShared(f)'
  BY DEF ReadOnlyIfShared, MapsTo
<1> QED BY <1>2, <1>3 DEF Owned

memoryVars == <<live, table, leaves, free, refs, tables>>

LEMMA MemoryUnchanged ==
    ASSUME Memory, UNCHANGED memoryVars
    PROVE  Memory'
BY DEF Memory, memoryVars, Present, FrameOK, Owned, ReadOnlyIfShared, MapsTo, Mappings

-----------------------------------------------------------------------------
(* Frames the allocator gives out.                                         *)

LEMMA TableFramesFree == ASSUME NEW k, NEW avail PROVE TableFrames(k, avail) \subseteq avail
BY DEF TableFrames

LEMMA TablesMadeFor ==
    ASSUME NEW s, NEW pages, NEW k
    PROVE  TablesMade(s, pages, k) \subseteq pages
BY DEF TablesMade

LEMMA AllocatableFree == Allocatable \subseteq free
BY DEF Allocatable

LEMMA SeqBounded ==
    ASSUME NEW S, NEW n \in Nat, NEW s
    PROVE  s \in BoundedSeq(S, n) <=> s \in Seq(S) /\ Len(s) <= n
<1> USE DEF BoundedSeq, SeqOf
<1>1. ASSUME s \in BoundedSeq(S, n) PROVE s \in Seq(S) /\ Len(s) <= n
  <2>1. PICK m \in 0 .. n : s \in [1 .. m -> S]
    BY <1>1
  <2> QED BY <2>1
<1>2. ASSUME s \in Seq(S), Len(s) <= n PROVE s \in BoundedSeq(S, n)
  <2>1. Len(s) \in 0 .. n /\ s \in [1 .. Len(s) -> S]
    BY <1>2
  <2> QED BY <2>1
<1> QED BY <1>1, <1>2

-----------------------------------------------------------------------------
(* Steps that map nothing and unmap nothing.                               *)

\* While nothing is loaded or repaired, a step that leaves it so.
LEMMA IdleKeeps ==
    ASSUME SpacesConstants, SpacesInv, Idle, Types', Memory',
           UNCHANGED <<pending, verdict, load>>
    PROVE  SpacesInv'
BY DEF SpacesInv, Idle, Loading, Faulting

LEMMA PolicyContextKeeps ==
    ASSUME SpacesConstants, SpacesInv, NEW s \in Spaces \cup {None},
           SetProcessContext(s) \/ SetDemandAllocator(s)
    PROVE  SpacesInv'
<1> USE DEF SetProcessContext, SetDemandAllocator, frameVars
<1>1. Types'
  BY DEF SpacesInv, Types, SpacesTypeOK
<1>2. Memory'
  BY MemoryUnchanged DEF SpacesInv, memoryVars
<1> QED BY <1>1, <1>2, IdleKeeps DEF Idle

LEMMA RegionType ==
    ASSUME SpacesConstants, NEW a \in Pages, NEW b \in Pages, NEW r \in Rights
    PROVE  [first |-> a, last |-> b, W |-> r[1], X |-> r[2]] \in Region
BY DEF SpacesConstants, Region

LEMMA ReserveType ==
    ASSUME SpacesConstants, SpacesInv, NEW s \in Spaces, NEW a \in Pages, NEW b \in Pages,
           NEW r \in Rights, Reserve(s, a, b, r[1], r[2])
    PROVE  /\ regions' \in [Spaces -> Seq(Region)]
           /\ \A t \in Spaces : regions'[t] \in BoundedSeq(Region, MaxRegions)
<1> DEFINE new == [first |-> a, last |-> b, W |-> r[1], X |-> r[2]]
<1>1. new \in Region
  BY RegionType
<1>2. regions' = [regions EXCEPT ![s] = Append(@, new)] /\ Len(regions[s]) < MaxRegions
  BY DEF Reserve
<1>3. regions \in [Spaces -> Seq(Region)] /\ MaxRegions \in Nat
  BY DEF SpacesInv, Types, SpacesConstants
<1> HIDE DEF new
<1>4. regions' \in [Spaces -> Seq(Region)]
  BY <1>1, <1>2, <1>3
<1>5. ASSUME NEW t \in Spaces PROVE regions'[t] \in BoundedSeq(Region, MaxRegions)
  <2>1. Len(regions[t]) <= MaxRegions
    BY <1>3, SeqBounded DEF SpacesInv, Types, SpacesTypeOK
  <2>2. Len(regions'[t]) <= MaxRegions
    BY <1>1, <1>2, <1>3, <2>1
  <2> QED BY <1>3, <1>4, <2>2, SeqBounded
<1> QED BY <1>4, <1>5

LEMMA ReserveKeeps ==
    ASSUME SpacesConstants, SpacesInv, NEW s \in Spaces, NEW a \in Pages, NEW b \in Pages,
           NEW r \in Rights,
           ReserveMmapRegion(s, a, b, r[1], r[2]) \/ MapSegment(s, a, b, r[1], r[2])
    PROVE  SpacesInv'
<1>1. Reserve(s, a, b, r[1], r[2])
  BY DEF ReserveMmapRegion, MapSegment
<1>2. Memory'
  BY MemoryUnchanged DEF SpacesInv, memoryVars, ReserveMmapRegion, MapSegment, frameVars
<1>3. r[1] \in BOOLEAN /\ r[2] \in BOOLEAN
  BY DEF SpacesConstants
<1>4. load' \in Load
  BY <1>3 DEF ReserveMmapRegion, MapSegment, SpacesInv, Types, Load
<1>5. Types'
  BY <1>1, <1>4, ReserveType DEF ReserveMmapRegion, MapSegment, SpacesInv, Types, SpacesTypeOK, frameVars
<1>6. Idle
  BY <1>1 DEF Reserve, Called
<1>7. CASE ReserveMmapRegion(s, a, b, r[1], r[2])
  BY <1>2, <1>5, <1>6, <1>7, IdleKeeps DEF ReserveMmapRegion
<1>8. CASE MapSegment(s, a, b, r[1], r[2])
  <2>1. Loading' /\ Faulting'
    BY <1>1, <1>6, <1>8 DEF MapSegment, Reserve, Loading, Faulting, Idle, SpacesInv
  <2> QED BY <1>2, <1>5, <2>1 DEF SpacesInv
<1> QED BY <1>7, <1>8

LEMMA MapSegmentFailsKeeps ==
    ASSUME SpacesConstants, SpacesInv, MapSegmentFails
    PROVE  SpacesInv'
<1> USE DEF MapSegmentFails, SpacesInv
<1>1. load' \in Load
  BY DEF NoLoad, Load
<1>2. Types'
  BY <1>1 DEF Types, SpacesTypeOK, frameVars
<1>3. Memory'
  BY MemoryUnchanged DEF memoryVars, frameVars
<1>4. Loading' /\ Faulting'
  BY DEF Loading, Faulting
<1> QED BY <1>2, <1>3, <1>4

LEMMA PanicWithoutContextKeeps ==
    ASSUME SpacesConstants, SpacesInv, PanicWithoutContext
    PROVE  SpacesInv'
<1> USE DEF PanicWithoutContext, SpacesInv
<1>1. Types'
  BY DEF Types, SpacesTypeOK, PolicyActions, frameVars
<1>2. Memory'
  BY MemoryUnchanged DEF memoryVars, frameVars
<1>3. Loading' /\ Faulting'
  BY DEF Loading, Faulting, Idle
<1> QED BY <1>1, <1>2, <1>3

LEMMA AccessType ==
    ASSUME NEW s \in Spaces, NEW p \in Pages \cup {KernelPage}, NEW kind \in Kinds
    PROVE  [space |-> s, page |-> p, kind |-> kind, tries |-> 0, mixed |-> FALSE] \in Access
BY DEF Access

LEMMA FaultingAccessKeeps ==
    ASSUME SpacesConstants, SpacesInv, NEW s \in Spaces, NEW p \in Pages \cup {KernelPage},
           NEW kind \in Kinds, FaultingAccess(s, p, kind)
    PROVE  SpacesInv'
<1> USE DEF FaultingAccess, SpacesInv
<1>1. pending' = [space |-> s, page |-> p, kind |-> kind, tries |-> 0, mixed |-> FALSE]
  BY DEF NoAccess
<1>5. pending' \in Access
  <2>1. [space |-> s, page |-> p, kind |-> kind, tries |-> 0, mixed |-> FALSE] \in Access
    BY AccessType
  <2> QED BY <1>1, <2>1
<1>2. Types'
  BY <1>5 DEF Types, SpacesTypeOK, frameVars
<1>3. Memory'
  BY MemoryUnchanged DEF memoryVars, frameVars
<1>4. Loading' /\ Faulting'
  BY <1>1 DEF Loading, Faulting, Idle, Tried, NoAccess, SpacesConstants
<1> QED BY <1>2, <1>3, <1>4

\* What a verdict of the policy does to the faulting access.
LEMMA FinishAccess ==
    ASSUME SpacesConstants, SpacesInv, Faults, NEW action, Finish(action)
    PROVE  /\ pending' \in Access /\ pending' # NoAccess
           /\ pending'.space = pending.space /\ pending'.page = pending.page
           /\ pending'.kind = pending.kind
           /\ ~pending'.mixed => ~pending.mixed /\ dem = pending.space
           /\ ~pending'.mixed /\ verdict = "kill" => pending'.tries = pending.tries
           /\ ~pending'.mixed => pending'.tries <= pending.tries + 1
           /\ ~pending'.mixed => (verdict = "none" => pending'.tries <= 1)
<1> DEFINE n == IF pending.tries < MaxTries /\ verdict # "kill" THEN pending.tries + 1 ELSE pending.tries
           m == pending.mixed \/ dem # pending.space
<1>1. pending \in Access /\ pending # NoAccess
  BY DEF SpacesInv, Types, Faults
<1>2. pending' = [pending EXCEPT !.tries = n, !.mixed = m]
  BY DEF Finish
<1>3. m \in BOOLEAN /\ n \in Nat /\ n <= pending.tries + 1 /\ (verdict = "kill" => n = pending.tries)
  BY <1>1 DEF Access
<1>4. ~pending.mixed => (verdict = "none" => pending.tries = 0)
  BY <1>1 DEF SpacesInv, Faulting, Tried
<1> HIDE DEF n
<1>5. /\ pending' \in Access /\ pending'.tries = n /\ pending'.mixed = m
      /\ pending'.space = pending.space /\ pending'.page = pending.page
      /\ pending'.kind = pending.kind
  BY <1>1, <1>2, <1>3 DEF Access
<1>6. pending' # NoAccess
  <2>1. pending.space # None
    BY <1>1 DEF SpacesInv, Faulting, Types, SpacesTypeOK, SpacesConstants
  <2>2. NoAccess.space = None
    BY DEF NoAccess
  <2>3. pending'.space = pending.space
    BY <1>5
  <2> QED BY <2>1, <2>2, <2>3
<1>7. ~pending'.mixed => ~pending.mixed /\ dem = pending.space
  BY <1>5
<1>8. pending.tries \in Nat
  BY <1>1 DEF Access
<1> HIDE DEF m
<1> QED BY <1>3, <1>4, <1>5, <1>6, <1>7, <1>8

LEMMA KillProcessKeeps ==
    ASSUME SpacesConstants, SpacesInv, KillProcess
    PROVE  SpacesInv'
<1>1. Faults /\ Finish("kill")
  BY DEF KillProcess
<1>2. pending' \in Access /\ verdict' = "kill"
  BY <1>1, FinishAccess DEF Finish
<1>3. Types'
  BY <1>2 DEF KillProcess, SpacesInv, Types, SpacesTypeOK, PolicyActions, frameVars
<1>4. Memory'
  BY MemoryUnchanged DEF KillProcess, SpacesInv, memoryVars, frameVars
<1>5. Loading'
  BY DEF KillProcess, SpacesInv, Loading
<1>6. pending # NoAccess /\ verdict # "panic" /\ ~Permitted(pending.space, pending.page, pending.kind)
  BY <1>1 DEF Faults
<1>7. ASSUME ~pending'.mixed PROVE Tried'
  <2>1. Tried /\ (Stuck => Stuck')
    BY <1>1, <1>6, <1>7, FinishAccess DEF SpacesInv, Faulting, Stuck, KillProcess, Present
  <2>2. CASE verdict = "none" \/ verdict = "kill"
    BY <1>1, <1>2, <1>7, <2>1, <2>2, FinishAccess DEF Tried
  <2>3. CASE verdict = "recover"
    BY <1>2, <1>6, <2>1, <2>3 DEF Tried
  <2> QED BY <1>6, <2>1, <2>2, <2>3 DEF Tried
<1>8. Faulting'
  BY <1>1, <1>2, <1>6, <1>7, FinishAccess DEF SpacesInv, Faulting, KillProcess
<1> QED BY <1>3, <1>4, <1>5, <1>8 DEF SpacesInv

\* The page came into the demand space only, or the fault is of another space.
LEMMA DemandPresentKeeps ==
    ASSUME SpacesConstants, SpacesInv, DemandPresent
    PROVE  SpacesInv'
<1>1. Faults /\ Finish("recover")
  BY DEF DemandPresent, Demandable, UserFault
<1>2. pending' \in Access /\ verdict' = "recover"
  BY <1>1, FinishAccess DEF Finish
<1>3. Types'
  BY <1>2 DEF DemandPresent, SpacesInv, Types, SpacesTypeOK, PolicyActions, frameVars
<1>4. Memory'
  BY MemoryUnchanged DEF DemandPresent, SpacesInv, memoryVars, frameVars
<1>5. Loading'
  BY DEF DemandPresent, SpacesInv, Loading
<1>6. pending'.mixed
  BY <1>1, FinishAccess DEF DemandPresent, Demandable, ErrorPresent
<1>7. Faulting'
  BY <1>1, <1>2, <1>6, FinishAccess DEF SpacesInv, Faulting, DemandPresent, Faults
<1> QED BY <1>3, <1>4, <1>5, <1>7 DEF SpacesInv

LEMMA StoredContent ==
    ASSUME NEW content \in [Frames -> Content], NEW f, NEW v \in Values
    PROVE  [content EXCEPT ![f][0] = v] \in [Frames -> Content]
BY DEF Content

\* Steps that change what is in a frame.
LEMMA DataKeeps ==
    ASSUME SpacesConstants, SpacesInv,
           \/ \E s \in Spaces, p \in Pages, v \in Values : Store(s, p, v)
           \/ \E s \in Spaces, p \in Pages, n \in 1 .. MaxCopy, v \in Values : OrynCopyToUser(s, p, n, v)
    PROVE  SpacesInv'
<1> USE DEF Store, OrynCopyToUser
<1>1. data' \in [Frames -> Content]
  <2>1. CASE \E s \in Spaces, p \in Pages, v \in Values : Store(s, p, v)
    <3>1. PICK s \in Spaces, p \in Pages, v \in Values : data' = [data EXCEPT ![table[s][p].frame][0] = v]
      BY <2>1
    <3>2. data \in [Frames -> Content]
      BY DEF SpacesInv, Types
    <3> QED BY <3>1, <3>2, StoredContent
  <2>2. CASE \E s \in Spaces, p \in Pages, n \in 1 .. MaxCopy, v \in Values : OrynCopyToUser(s, p, n, v)
    BY <2>2 DEF SpacesInv, Types, Content
  <2> QED BY <2>1, <2>2
<1>2. Types'
  BY <1>1 DEF SpacesInv, Types, SpacesTypeOK
<1>3. Memory'
  BY MemoryUnchanged DEF SpacesInv, memoryVars
<1> QED BY <1>2, <1>3, IdleKeeps

LEMMA RetryKeeps ==
    ASSUME SpacesConstants, SpacesInv, NEW v \in Values, Retry(v)
    PROVE  SpacesInv'
<1> USE DEF Retry
<1>1. data' \in [Frames -> Content]
  BY StoredContent DEF SpacesInv, Types
<1>2. NoAccess \in Access
  BY DEF NoAccess, Access, KernelPage
<1>3. Types'
  BY <1>1, <1>2 DEF SpacesInv, Types, SpacesTypeOK, PolicyActions
<1>4. Memory'
  BY MemoryUnchanged DEF SpacesInv, memoryVars
<1>5. Loading' /\ Faulting'
  BY DEF SpacesInv, Loading, Faulting
<1> QED BY <1>3, <1>4, <1>5 DEF SpacesInv

-----------------------------------------------------------------------------
(* Steps that map and unmap.                                               *)

\* Frames that are free or tables are mapped nowhere.
LEMMA Unmapped ==
    ASSUME SpacesConstants, SpacesInv, NEW f \in free \cup tables, NEW s \in Spaces, NEW p \in Pages
    PROVE  table[s][p].frame # f
<1>1. f \in Frames /\ f # 0
  BY DEF SpacesInv, Types, SpacesTypeOK, SpacesConstants
<1>2. CASE s \in live
  <2>1. Mappings(f) = {}
    BY <1>1 DEF SpacesInv, Memory, FrameOK, Owned
  <2> QED BY <1>2, <2>1, MappingsEmpty
<1>3. CASE s \notin live
  BY <1>1, <1>3 DEF SpacesInv, Memory, NoEntry
<1> QED BY <1>2, <1>3

\* Taking frames for page tables harms no frame.
LEMMA TakenForTables ==
    ASSUME SpacesInv, NEW used \in SUBSET free, NEW new \in SUBSET free,
           free' = free \ (used \cup new), tables' = tables \cup new
    PROVE  /\ tables' \cap free' = {} /\ tables' \subseteq Frames /\ free' \subseteq Frames
           /\ \A f : f \notin free /\ f \notin tables => f \notin free' /\ f \notin tables'
BY DEF SpacesInv, Memory, Types, SpacesTypeOK

LEMMA CreateProcessAddressSpaceKeeps ==
    ASSUME SpacesConstants, SpacesInv, NEW s \in Spaces, CreateProcessAddressSpace(s)
    PROVE  SpacesInv'
<1> DEFINE root == TableFrames(1, free)
<1>1. Idle /\ s \notin live /\ free' = free \ root /\ tables' = tables \cup root /\ live' = live \cup {s}
  BY DEF CreateProcessAddressSpace, Called
<1>2. UNCHANGED <<table, leaves, regions, refs, data, ctx, dem, pending, verdict, load>>
  BY DEF CreateProcessAddressSpace
<1>3. root \subseteq free
  BY TableFramesFree
<1> HIDE DEF root
<1>4. Types'
  BY <1>1, <1>2, <1>3, TakenForTables DEF SpacesInv, Types, SpacesTypeOK
<1>5. /\ tables' \cap free' = {}
      /\ \A f : f \notin free /\ f \notin tables => f \notin free' /\ f \notin tables'
  BY <1>1, <1>3, TakenForTables
<1>6. ASSUME NEW f \in Frames PROVE FrameOK(f)'
  <2>1. FrameOK(f) /\ live \subseteq Spaces /\ live' \subseteq Spaces /\ refs[f] \in Nat /\ refs'[f] = refs[f]
    BY <1>1, <1>2 DEF SpacesInv, Memory, Types, SpacesTypeOK
  <2>2. f # 0
    BY DEF SpacesConstants
  <2>3. \A t \in live', p \in Pages : table'[t][p].frame = f =>
            t \in live /\ table[t][p].frame = f /\ (table'[t][p].W => table[t][p].W)
    BY <1>1, <1>2, <2>2 DEF SpacesInv, Memory, NoEntry
  <2> QED BY <1>5, <2>1, <2>3, FrameKept
<1>7. Memory'
  BY <1>1, <1>2, <1>5, <1>6 DEF SpacesInv, Memory, Present
<1> QED BY <1>1, <1>2, <1>4, <1>7, IdleKeeps

LEMMA EntryTypes ==
    ASSUME Types
    PROVE  /\ table \in [Spaces -> AddressSpace] /\ leaves \in [Spaces -> SUBSET Pages]
           /\ [p \in Pages |-> NoEntry] \in AddressSpace
           /\ \A f \in Frames \cup {0}, w, x \in BOOLEAN :
                VmFlagsToEntryFlags(f, w, x) \in [frame : Frames \cup {0}, W : BOOLEAN, X : BOOLEAN, cow : BOOLEAN]
           /\ NoEntry \in [frame : Frames \cup {0}, W : BOOLEAN, X : BOOLEAN, cow : BOOLEAN]
           /\ \A s \in Spaces, p \in Pages :
                table[s][p] \in [frame : Frames \cup {0}, W : BOOLEAN, X : BOOLEAN, cow : BOOLEAN]
BY DEF Types, SpacesTypeOK, AddressSpace, NoEntry, VmFlagsToEntryFlags

\* One address space gets other entries.
LEMMA OneSpaceTypes ==
    ASSUME Types, NEW s \in Spaces, NEW new \in AddressSpace, table' = [table EXCEPT ![s] = new]
    PROVE  /\ table' \in [Spaces -> AddressSpace] /\ table'[s] = new
           /\ \A t \in Spaces : t # s => table'[t] = table[t]
BY DEF Types, SpacesTypeOK

LEMMA DestroySpaceKeeps ==
    ASSUME SpacesConstants, SpacesInv, NEW s \in Spaces, DestroySpace(s)
    PROVE  SpacesInv'
<1> DEFINE blank == [p \in Pages |-> NoEntry]
<1>1. Idle /\ s \in live /\ s \notin {ctx, dem} /\ live' = live \ {s} /\ table' = [table EXCEPT ![s] = blank]
      /\ leaves' = [leaves EXCEPT ![s] = {}] /\ regions' = [regions EXCEPT ![s] = <<>>]
  BY DEF DestroySpace, Called
<1>2. UNCHANGED <<free, refs, data, tables, ctx, dem, pending, verdict, load>>
  BY DEF DestroySpace, frameVars
<1>3. Types
  BY DEF SpacesInv
<1>4. blank \in AddressSpace /\ \A p \in Pages : blank[p] = NoEntry
  BY <1>3, EntryTypes
<1> HIDE DEF blank
<1>5. table' \in [Spaces -> AddressSpace] /\ table'[s] = blank /\ \A t \in Spaces : t # s => table'[t] = table[t]
  BY <1>1, <1>3, <1>4, OneSpaceTypes
<1>6. /\ regions' \in [Spaces -> Seq(Region)]
      /\ \A t \in Spaces : regions'[t] \in BoundedSeq(Region, MaxRegions)
  <2>1. regions \in [Spaces -> Seq(Region)] /\ MaxRegions \in Nat
        /\ \A t \in Spaces : regions[t] \in BoundedSeq(Region, MaxRegions)
    BY <1>3 DEF Types, SpacesTypeOK, SpacesConstants
  <2>2. <<>> \in BoundedSeq(Region, MaxRegions)
    <3>1. MaxRegions \in Nat /\ <<>> \in Seq(Region) /\ Len(<<>>) <= MaxRegions
      BY <2>1
    <3> QED BY <3>1, SeqBounded
  <2> QED BY <1>1, <2>1, <2>2
<1>7. Types'
  BY <1>1, <1>2, <1>3, <1>5, <1>6 DEF Types, SpacesTypeOK
<1>8. ASSUME NEW f \in Frames PROVE FrameOK(f)'
  <2>1. FrameOK(f) /\ live \subseteq Spaces /\ live' \subseteq Spaces /\ refs[f] \in Nat /\ refs'[f] = refs[f]
    BY <1>1, <1>2 DEF SpacesInv, Memory, Types, SpacesTypeOK
  <2>2. \A t \in live', p \in Pages : table'[t][p].frame = f =>
            t \in live /\ table[t][p].frame = f /\ (table'[t][p].W => table[t][p].W)
    BY <1>1, <1>5, <2>1
  <2> QED BY <1>2, <2>1, <2>2, FrameKept
<1>9. Memory'
  <2>1. \A t \in Spaces : t # s => leaves'[t] = leaves[t]
    BY <1>1, <1>3 DEF Types, SpacesTypeOK
  <2> QED BY <1>1, <1>2, <1>4, <1>5, <1>8, <2>1 DEF SpacesInv, Memory, Present
<1> QED BY <1>1, <1>2, <1>7, <1>9, IdleKeeps

LEMMA UnmapKeeps ==
    ASSUME SpacesConstants, SpacesInv, NEW s \in Spaces, NEW a \in Pages, NEW b \in Pages, Unmap(s, a, b)
    PROVE  SpacesInv'
<1> DEFINE new == [p \in Pages |-> IF p \in a .. b THEN NoEntry ELSE table[s][p]]
<1>1. Idle /\ s \in live /\ UNCHANGED <<live, leaves, regions, free, refs, data, tables, ctx, dem, pending, verdict, load>>
  BY DEF Unmap, Called, frameVars
<1>2. Types
  BY DEF SpacesInv
<1>3. table' = [table EXCEPT ![s] = new]
  BY <1>2 DEF Unmap, Types, SpacesTypeOK
<1>4. new \in AddressSpace /\ \A p \in Pages : new[p] \in {NoEntry, table[s][p]}
  <2>1. \A p \in Pages : new[p] \in {NoEntry, table[s][p]}
    OBVIOUS
  <2> QED BY <1>2, <2>1, EntryTypes DEF AddressSpace
<1> HIDE DEF new
<1>5. table' \in [Spaces -> AddressSpace] /\ table'[s] = new /\ \A t \in Spaces : t # s => table'[t] = table[t]
  BY <1>2, <1>3, <1>4, OneSpaceTypes
<1>6. Types'
  BY <1>1, <1>2, <1>5 DEF Types, SpacesTypeOK
<1>7. ASSUME NEW f \in Frames PROVE FrameOK(f)'
  <2>1. FrameOK(f) /\ live \subseteq Spaces /\ live' \subseteq Spaces /\ refs[f] \in Nat /\ refs'[f] = refs[f] /\ f # 0
    BY <1>1 DEF SpacesInv, Memory, Types, SpacesTypeOK, SpacesConstants
  <2>2. \A t \in live', p \in Pages : table'[t][p].frame = f =>
            t \in live /\ table[t][p].frame = f /\ (table'[t][p].W => table[t][p].W)
    BY <1>1, <1>4, <1>5, <2>1 DEF NoEntry
  <2> QED BY <1>1, <2>1, <2>2, FrameKept
<1>8. Memory'
  BY <1>1, <1>4, <1>5, <1>7 DEF SpacesInv, Memory, Present
<1> QED BY <1>1, <1>6, <1>8, IdleKeeps

LEMMA ProtectKeeps ==
    ASSUME SpacesConstants, SpacesInv, NEW s \in Spaces, NEW a \in Pages, NEW b \in Pages,
           NEW r \in Rights, Protect(s, a, b, r[1], r[2])
    PROVE  SpacesInv'
<1> DEFINE new == [p \in Pages |-> IF p \in a .. b THEN VmFlagsToEntryFlags(table[s][p].frame, r[1], r[2])
                                   ELSE table[s][p]]
<1>1. Idle /\ s \in live /\ UNCHANGED <<live, leaves, regions, free, refs, data, tables, ctx, dem, pending, verdict, load>>
  BY DEF Protect, Called, frameVars
<1>2. Types /\ r[1] \in BOOLEAN /\ r[2] \in BOOLEAN
  BY DEF SpacesInv, SpacesConstants
<1>3. table' = [table EXCEPT ![s] = new]
  BY <1>2 DEF Protect, Types, SpacesTypeOK
<1>4. \A p \in Pages : new[p].frame = table[s][p].frame
                       /\ (p \notin a .. b => new[p] = table[s][p])
  BY DEF VmFlagsToEntryFlags
<1>5. new \in AddressSpace
  BY <1>2, EntryTypes DEF AddressSpace
<1>6. /\ \A p \in a .. b : p \in Pages /\ Present(s, p)
      /\ \A p \in a .. b : Cardinality(Mappings(table[s][p].frame)) = 1
  BY DEF Protect, SpacesConstants
<1> HIDE DEF new
<1>7. table' \in [Spaces -> AddressSpace] /\ table'[s] = new /\ \A t \in Spaces : t # s => table'[t] = table[t]
  BY <1>2, <1>3, <1>5, OneSpaceTypes
<1>8. Types'
  BY <1>1, <1>2, <1>7 DEF Types, SpacesTypeOK
<1>9. ASSUME NEW f \in Frames PROVE FrameOK(f)'
  <2>1. FrameOK(f) /\ live \subseteq Spaces /\ live' = live /\ refs[f] \in Nat /\ refs'[f] = refs[f]
    BY <1>1 DEF SpacesInv, Memory, Types, SpacesTypeOK
  <2>2. \A t \in live', p \in Pages : table'[t][p].frame = table[t][p].frame
    BY <1>4, <1>7, <2>1
  <2>3. CASE \E p \in a .. b : table[s][p].frame = f
    <3>1. Cardinality(Mappings(f)) = 1
      BY <1>6, <2>3
    <3>2. IsFiniteSet(Mappings(f))
      BY <2>1, MappingsFinite
    <3>3. PICK m : Mappings(f) = {m}
      BY <3>1, <3>2, FS_Singleton
    <3>4. Owned(f)
      BY <2>1, <3>3 DEF FrameOK
    <3>5. f \notin free' /\ f \notin tables' /\ (f \in Tracked => refs'[f] \in Nat /\ refs'[f] >= 1)
      BY <1>1, <2>1, <3>1, <3>4 DEF Owned
    <3>6. \A t, u \in live', p, q \in Pages :
              table'[t][p].frame = f /\ table'[u][q].frame = f => <<t, p>> = <<u, q>>
      <4> SUFFICES ASSUME NEW t \in live, NEW u \in live, NEW p \in Pages, NEW q \in Pages,
                          table'[t][p].frame = f, table'[u][q].frame = f
                   PROVE  <<t, p>> = <<u, q>>
        BY <2>1
      <4>1. <<t, p>> \in Mappings(f) /\ <<u, q>> \in Mappings(f)
        BY <2>1, <2>2, MappingsOf
      <4> QED BY <3>3, <4>1
    <3> QED BY <3>5, <3>6, FrameAlone
  <2>4. CASE \A p \in a .. b : table[s][p].frame # f
    <3>1. \A t \in live', p \in Pages : table'[t][p].frame = f =>
              t \in live /\ table[t][p].frame = f /\ (table'[t][p].W => table[t][p].W)
      BY <1>4, <1>7, <2>1, <2>2, <2>4
    <3> QED BY <1>1, <2>1, <3>1, FrameKept
  <2> QED BY <2>3, <2>4
<1>10. Memory'
  <2>1. \A t \in Spaces, p \in Pages : table'[t][p].frame = table[t][p].frame
    BY <1>4, <1>7
  <2>2. ASSUME NEW t \in Spaces, NEW p \in Pages, Present(t, p)'
        PROVE  table'[t][p].frame \in Frames /\ p \in leaves'[t]
    <3>1. Present(t, p)
      BY <1>4, <1>6, <1>7, <2>2 DEF Present
    <3> QED BY <1>1, <2>1, <3>1 DEF SpacesInv, Memory
  <2>3. \A t \in Spaces \ live', p \in Pages : table'[t][p] = NoEntry
    BY <1>1, <1>7 DEF SpacesInv, Memory
  <2> QED BY <1>1, <1>9, <2>2, <2>3 DEF SpacesInv, Memory
<1> QED BY <1>1, <1>8, <1>10, IdleKeeps

\* A step of space s that maps frames it takes from the pool, each at one page.
LEMMA FreshFrames ==
    ASSUME SpacesConstants, SpacesInv, live' = live, NEW s \in Spaces,
           NEW used \in SUBSET free, NEW new \in SUBSET (free \ used),
           free' = free \ (used \cup new), tables' = tables \cup new,
           \A f \in Frames : refs'[f] = IF f \in used \cap Tracked THEN 1 ELSE refs[f],
           \A t \in Spaces, p \in Pages : \/ table'[t][p] = table[t][p]
                                          \/ t = s /\ table'[t][p].frame \in used,
           \A p, q \in Pages : table'[s][p].frame \in used /\ table'[s][q].frame = table'[s][p].frame => p = q
    PROVE  \A f \in Frames : FrameOK(f)'
<1> TAKE f \in Frames
<1>1. FrameOK(f) /\ live \subseteq Spaces /\ refs[f] \in Nat /\ tables \cap free = {}
  BY DEF SpacesInv, Memory, Types, SpacesTypeOK
<1>2. CASE f \in used
  <2>1. f \notin free' /\ f \notin tables'
    BY <1>1, <1>2
  <2>2. \A t \in live', p \in Pages : table'[t][p].frame = f => t = s
    BY <1>1, <1>2, Unmapped
  <2>3. \A t, u \in live', p, q \in Pages :
            table'[t][p].frame = f /\ table'[u][q].frame = f => <<t, p>> = <<u, q>>
    BY <1>2, <2>2
  <2>4. f \in Tracked => refs'[f] \in Nat /\ refs'[f] >= 1
    BY <1>2
  <2> QED BY <2>1, <2>3, <2>4, FrameAlone
<1>3. CASE f \notin used
  <2>1. \A t \in live', p \in Pages : table'[t][p].frame = f =>
            t \in live /\ table[t][p].frame = f /\ (table'[t][p].W => table[t][p].W)
    BY <1>1, <1>3
  <2>2. f \notin free /\ f \notin tables => f \notin free' /\ f \notin tables'
    BY <1>1
  <2>3. refs'[f] = refs[f] /\ live' \subseteq Spaces
    BY <1>1, <1>3
  <2> QED BY <1>1, <2>1, <2>2, <2>3, FrameKept
<1> QED BY <1>2, <1>3

LEMMA MapSegmentPageKeeps ==
    ASSUME SpacesConstants, SpacesInv, NEW f \in Frames, MapSegmentPage(f)
    PROVE  SpacesInv'
<1> DEFINE s == load.space
           p == load.next
           made == TablesMade(s, {p}, Cardinality(free \ {f}))
           ok == ~Present(s, p) /\ {p} \subseteq leaves[s] \cup made
           taken == IF Present(s, p) THEN {} ELSE TableFrames(Cardinality(made), free \ {f})
           e == VmFlagsToEntryFlags(f, load.W, load.X)
<1>1. load # NoLoad /\ f \in free
  BY AllocatableFree DEF MapSegmentPage
<1>2. /\ free' = free \ ({f} \cup taken) /\ tables' = tables \cup taken
      /\ refs' = IF f \in Tracked THEN [refs EXCEPT ![f] = 1] ELSE refs
      /\ data' = [data EXCEPT ![f] = [c \in Cells |-> 0]]
      /\ table' = IF ok THEN [table EXCEPT ![s][p] = e] ELSE table
      /\ leaves' = IF ok THEN [leaves EXCEPT ![s] = @ \cup made] ELSE leaves
      /\ load' = IF ok /\ p < load.last THEN [load EXCEPT !.next = p + 1] ELSE NoLoad
      /\ UNCHANGED <<live, regions, ctx, dem, pending, verdict, calls>>
  BY DEF MapSegmentPage
<1>3. Types /\ s \in live /\ s \in Spaces /\ p \in Pages /\ load.last \in Pages /\ p <= load.last
  BY <1>1 DEF SpacesInv, Loading, Types, SpacesTypeOK
<1>4. taken \in SUBSET (free \ {f}) /\ made \subseteq {p}
  BY TableFramesFree, TablesMadeFor
<1>5. ok => ~Present(s, p) /\ p \in leaves[s] \cup made
  OBVIOUS
<1>6. load.W \in BOOLEAN /\ load.X \in BOOLEAN
  BY <1>3 DEF Types, Load
<1>7. e.frame = f /\ e \in [frame : Frames \cup {0}, W : BOOLEAN, X : BOOLEAN, cow : BOOLEAN]
  BY <1>3, <1>6, EntryTypes DEF VmFlagsToEntryFlags
<1> HIDE DEF made, ok, taken, e
<1>8. /\ table' \in [Spaces -> AddressSpace]
      /\ \A t \in Spaces, q \in Pages : table'[t][q] = IF ok /\ t = s /\ q = p THEN e ELSE table[t][q]
  BY <1>2, <1>3, <1>7 DEF Types, SpacesTypeOK, AddressSpace
<1>9. /\ leaves' \in [Spaces -> SUBSET Pages]
      /\ \A t \in Spaces : leaves[t] \subseteq leaves'[t]
      /\ ok => p \in leaves'[s]
  BY <1>2, <1>3, <1>4, <1>5 DEF Types, SpacesTypeOK
<1>10. load' \in Load /\ Loading'
  <2>1. NoLoad \in Load
    BY DEF NoLoad, Load
  <2>2. CASE ok /\ p < load.last
    <3>1. p \in Nat /\ load.last \in Nat
      BY <1>3 DEF SpacesConstants
    <3>2. p + 1 \in p .. load.last /\ p + 1 <= load.last
      BY <2>2, <3>1
    <3>3. p + 1 \in Pages
      BY <1>3, <3>2 DEF SpacesConstants
    <3>4. load' = [load EXCEPT !.next = p + 1] /\ load \in Load
      BY <1>2, <1>3, <2>2 DEF Types
    <3>5. load' \in Load /\ load'.space = s /\ load'.next = p + 1 /\ load'.last = load.last
      BY <3>3, <3>4 DEF Load
    <3> QED BY <1>2, <1>3, <3>2, <3>3, <3>5 DEF Loading
  <2>3. CASE ~(ok /\ p < load.last)
    BY <1>2, <2>1, <2>3 DEF Loading
  <2> QED BY <2>2, <2>3
<1>11. free' \subseteq free /\ tables' \subseteq Frames /\ tables' \cap free' = {}
  BY <1>1, <1>2, <1>4 DEF SpacesInv, Memory, Types, SpacesTypeOK
<1>12. /\ refs' \in [Frames -> Nat]
       /\ \A g \in Frames : refs'[g] = IF g \in {f} \cap Tracked THEN 1 ELSE refs[g]
  BY <1>2, <1>3 DEF Types, SpacesTypeOK
<1>13. data' \in [Frames -> Content]
  BY <1>2, <1>3 DEF Types, Content
<1>14. Types'
  BY <1>2, <1>3, <1>8, <1>9, <1>10, <1>11, <1>12, <1>13 DEF Types, SpacesTypeOK
<1>15. \A g \in Frames : FrameOK(g)'
  <2>1. \A t \in Spaces, q \in Pages : \/ table'[t][q] = table[t][q]
                                       \/ t = s /\ table'[t][q].frame \in {f}
    BY <1>7, <1>8
  <2>2. \A q, r \in Pages : table'[s][q].frame \in {f} /\ table'[s][r].frame = table'[s][q].frame => q = r
    BY <1>1, <1>3, <1>8, Unmapped
  <2>3. {f} \in SUBSET free
    BY <1>1
  <2> QED BY <1>2, <1>3, <1>4, <1>12, <2>1, <2>2, <2>3, FreshFrames
<1>16. Memory'
  <2>1. \A t \in Spaces \ live', q \in Pages : table'[t][q] = NoEntry
    BY <1>2, <1>3, <1>8 DEF SpacesInv, Memory
  <2>2. \A t \in Spaces, q \in Pages : Present(t, q)' => table'[t][q].frame \in Frames /\ q \in leaves'[t]
    BY <1>7, <1>8, <1>9 DEF SpacesInv, Memory, Present
  <2> QED BY <1>11, <1>15, <2>1, <2>2 DEF Memory
<1>17. Faulting'
  BY <1>1, <1>2 DEF SpacesInv, Faulting
<1> QED BY <1>10, <1>14, <1>16, <1>17 DEF SpacesInv

LEMMA MapKeeps ==
    ASSUME SpacesConstants, SpacesInv, NEW s \in Spaces, NEW a \in Pages, NEW b \in Pages,
           NEW base \in Allocatable, NEW r \in Rights, Map(s, a, b, base, r[1], r[2])
    PROVE  SpacesInv'
<1> DEFINE used == base .. base + (b - a)
           made == TablesMade(s, a .. b, Cardinality(free \ used))
           done == a .. b \subseteq leaves[s] \cup made
           taken == TableFrames(Cardinality(made), free \ used)
           new == MapRange(s, a, b, done, base, r[1], r[2])
           f(p) == base + (p - a)
<1>1. Idle /\ s \in live /\ used \subseteq free /\ \A p \in a .. b : ~Present(s, p)
  BY DEF Map, Called
<1>2. /\ free' = free \ (used \cup taken) /\ tables' = tables \cup taken
      /\ refs' = [g \in Frames |-> IF g \in used \cap Tracked THEN 1 ELSE refs[g]]
      /\ data' = [g \in Frames |-> IF g \in used THEN [c \in Cells |-> 0] ELSE data[g]]
      /\ table' = [table EXCEPT ![s] = new]
      /\ leaves' = [leaves EXCEPT ![s] = @ \cup made]
      /\ UNCHANGED <<live, regions, ctx, dem, pending, verdict, load>>
  BY DEF Map
<1>3. Types /\ r[1] \in BOOLEAN /\ r[2] \in BOOLEAN /\ a .. b \subseteq Pages
      /\ free \subseteq Frames /\ Frames \subseteq Nat /\ Pages \subseteq Nat
  BY DEF SpacesInv, SpacesConstants, Types, SpacesTypeOK
<1>4. base \in Nat
  BY <1>3, AllocatableFree
<1>5. taken \in SUBSET (free \ used) /\ made \subseteq a .. b
  BY TableFramesFree, TablesMadeFor
<1>6. done => \A p \in a .. b : p \in leaves[s] \cup made
  OBVIOUS
<1>7. \A p \in a .. b : f(p) \in used
  BY <1>3, <1>4
<1>8. \A p, q \in a .. b : f(p) = f(q) => p = q
  BY <1>3, <1>4
<1>9. \A p \in Pages : new[p] = IF p \in a .. b /\ done THEN VmFlagsToEntryFlags(f(p), r[1], r[2]) ELSE table[s][p]
  BY DEF MapRange
<1>10. \A p \in Pages : /\ p \in a .. b /\ done => new[p].frame = f(p)
                        /\ ~(p \in a .. b /\ done) => new[p] = table[s][p]
  <2> TAKE p \in Pages
  <2>1. VmFlagsToEntryFlags(f(p), r[1], r[2]).frame = f(p)
    BY DEF VmFlagsToEntryFlags
  <2> HIDE DEF new, f, done
  <2> QED BY <1>9, <2>1
<1>11. new \in AddressSpace
  <2>1. \A p \in a .. b : f(p) \in Frames
    BY <1>1, <1>3, <1>7
  <2> HIDE DEF f, done
  <2>2. \A p \in a .. b : VmFlagsToEntryFlags(f(p), r[1], r[2])
                            \in [frame : Frames \cup {0}, W : BOOLEAN, X : BOOLEAN, cow : BOOLEAN]
    BY <1>3, <2>1, EntryTypes
  <2>3. \A p \in Pages : new[p] \in [frame : Frames \cup {0}, W : BOOLEAN, X : BOOLEAN, cow : BOOLEAN]
    <3> HIDE DEF new
    <3> QED BY <1>3, <1>9, <2>2, EntryTypes
  <2>4. DOMAIN new = Pages /\ new = [p \in Pages |-> new[p]]
    BY DEF MapRange
  <2> HIDE DEF new
  <2> QED BY <2>3, <2>4 DEF AddressSpace
<1> HIDE DEF used, made, done, taken, new, f
<1>12. table' \in [Spaces -> AddressSpace] /\ table'[s] = new /\ \A t \in Spaces : t # s => table'[t] = table[t]
  BY <1>2, <1>3, <1>11, OneSpaceTypes
<1>13. /\ leaves' \in [Spaces -> SUBSET Pages]
       /\ \A t \in Spaces : leaves[t] \subseteq leaves'[t]
       /\ done => \A p \in a .. b : p \in leaves'[s]
  BY <1>2, <1>3, <1>5, <1>6 DEF Types, SpacesTypeOK
<1>14. free' \subseteq free /\ tables' \subseteq Frames /\ tables' \cap free' = {}
  BY <1>1, <1>2, <1>5 DEF SpacesInv, Memory, Types, SpacesTypeOK
<1>15. /\ refs' \in [Frames -> Nat]
       /\ \A g \in Frames : refs'[g] = IF g \in used \cap Tracked THEN 1 ELSE refs[g]
  BY <1>2, <1>3 DEF Types, SpacesTypeOK
<1>16. Types'
  <2>1. data' \in [Frames -> Content]
    BY <1>2, <1>3 DEF Types, Content
  <2> QED BY <1>2, <1>3, <1>12, <1>13, <1>14, <1>15, <2>1 DEF Types, SpacesTypeOK
<1>17. \A g \in Frames : FrameOK(g)'
  <2>1. \A t \in Spaces, p \in Pages : \/ table'[t][p] = table[t][p]
                                       \/ t = s /\ table'[t][p].frame \in used
    BY <1>7, <1>10, <1>12
  <2>2. \A p \in Pages : table'[s][p].frame \in used => p \in a .. b /\ table'[s][p].frame = f(p)
    BY <1>1, <1>10, <1>12, Unmapped
  <2>3. \A p, q \in Pages : table'[s][p].frame \in used /\ table'[s][q].frame = table'[s][p].frame => p = q
    BY <1>8, <2>2
  <2> QED BY <1>1, <1>2, <1>5, <1>15, <2>1, <2>3, FreshFrames
<1>18. Memory'
  <2>1. \A t \in Spaces \ live', p \in Pages : table'[t][p] = NoEntry
    BY <1>1, <1>2, <1>12 DEF SpacesInv, Memory
  <2>2. \A t \in Spaces, p \in Pages : Present(t, p)' => table'[t][p].frame \in Frames /\ p \in leaves'[t]
    <3> SUFFICES ASSUME NEW t \in Spaces, NEW p \in Pages, Present(t, p)'
                 PROVE  table'[t][p].frame \in Frames /\ p \in leaves'[t]
      OBVIOUS
    <3>1. CASE t = s /\ p \in a .. b /\ done
      BY <1>1, <1>3, <1>7, <1>10, <1>12, <1>13, <3>1
    <3>2. CASE ~(t = s /\ p \in a .. b /\ done)
      BY <1>10, <1>12, <1>13, <3>2 DEF SpacesInv, Memory, Present
    <3> QED BY <3>1, <3>2
  <2> QED BY <1>14, <1>17, <2>1, <2>2 DEF Memory
<1> QED BY <1>1, <1>2, <1>16, <1>18, IdleKeeps

\* A fault is repaired: the page is there for every access but a fetch, or the
\* repair was made in a space that is not the faulting one.
LEMMA RepairedFault ==
    ASSUME SpacesConstants, SpacesInv, UserFault, Finish("recover"), ~Stuck, UNCHANGED <<live, load>>,
           dem = pending.space => table'[dem][pending.page] # NoEntry /\ table'[dem][pending.page].W
    PROVE  Faulting'
<1>1. Faults /\ pending.page # KernelPage /\ verdict' = "recover"
  BY DEF UserFault, Finish
<1>2. pending # NoAccess /\ verdict # "panic" /\ ~Permitted(pending.space, pending.page, pending.kind)
  BY <1>1 DEF Faults
<1>3. pending.page \in Pages
  BY <1>1 DEF SpacesInv, Types, Access
<1>4. ASSUME ~pending'.mixed PROVE Tried'
  <2>1. Tried /\ dem = pending.space /\ pending'.space = pending.space /\ pending'.page = pending.page
        /\ pending'.kind = pending.kind
    BY <1>1, <1>2, <1>4, FinishAccess DEF SpacesInv, Faulting
  <2>2. pending'.tries <= 1
    <3>1. CASE verdict = "none"
      BY <1>1, <1>4, <3>1, FinishAccess
    <3>2. CASE verdict = "kill"
      BY <1>1, <1>4, <2>1, <3>2, FinishAccess DEF Tried
    <3> QED BY <1>2, <2>1, <3>1, <3>2 DEF Tried
  <2>3. Present(pending.space, pending.page)' /\ table'[pending'.space][pending'.page].W /\ pending'.page \in Pages
    BY <1>3, <2>1 DEF Present
  <2>4. CASE pending.kind = "write"
    BY <1>1, <2>1, <2>2, <2>3, <2>4 DEF Tried, Permitted
  <2>5. CASE pending.kind # "write"
    BY <1>1, <2>1, <2>2, <2>3, <2>5 DEF Tried, Stuck
  <2> QED BY <2>4, <2>5
<1> QED BY <1>1, <1>2, <1>4, FinishAccess DEF SpacesInv, Faulting

LEMMA DemandAllocateKeeps ==
    ASSUME SpacesConstants, SpacesInv, NEW f \in Frames, DemandAllocate(f)
    PROVE  SpacesInv'
<1> DEFINE p == pending.page
           taken == TableFrames(Cardinality({p} \ leaves[dem]), free \ {f})
           e == VmFlagsToEntryFlags(f, TRUE, FALSE)
<1>1. f \in free /\ Demandable /\ ~Present(dem, p) /\ Finish("recover")
  BY AllocatableFree DEF DemandAllocate
<1>2. UserFault /\ Faults /\ dem # None /\ ~ErrorPresent /\ p # KernelPage
  BY <1>1 DEF Demandable, UserFault
<1>3. /\ free' = free \ ({f} \cup taken) /\ tables' = tables \cup taken
      /\ refs' = IF f \in Tracked THEN [refs EXCEPT ![f] = 1] ELSE refs
      /\ data' = [data EXCEPT ![f] = [c \in Cells |-> 0]]
      /\ table' = [table EXCEPT ![dem][p] = e]
      /\ leaves' = [leaves EXCEPT ![dem] = @ \cup {p}]
      /\ UNCHANGED <<live, regions, ctx, dem, load, calls>>
  BY DEF DemandAllocate
<1>4. Types /\ dem \in live /\ dem \in Spaces /\ p \in Pages
  BY <1>2 DEF SpacesInv, Types, SpacesTypeOK, Access
<1>5. taken \in SUBSET (free \ {f})
  BY TableFramesFree
<1>6. e.frame = f /\ e.W /\ e \in [frame : Frames \cup {0}, W : BOOLEAN, X : BOOLEAN, cow : BOOLEAN]
  BY <1>4, EntryTypes DEF VmFlagsToEntryFlags
<1>7. pending' \in Access /\ verdict' = "recover"
  BY <1>1, <1>2, FinishAccess DEF Finish
<1> HIDE DEF taken, e
<1>8. /\ table' \in [Spaces -> AddressSpace]
      /\ \A t \in Spaces, q \in Pages : table'[t][q] = IF t = dem /\ q = p THEN e ELSE table[t][q]
  BY <1>3, <1>4, <1>6 DEF Types, SpacesTypeOK, AddressSpace
<1>9. /\ leaves' \in [Spaces -> SUBSET Pages]
      /\ \A t \in Spaces : leaves[t] \subseteq leaves'[t]
      /\ p \in leaves'[dem]
  BY <1>3, <1>4 DEF Types, SpacesTypeOK
<1>10. free' \subseteq free /\ tables' \subseteq Frames /\ tables' \cap free' = {}
  BY <1>1, <1>3, <1>5 DEF SpacesInv, Memory, Types, SpacesTypeOK
<1>11. /\ refs' \in [Frames -> Nat]
       /\ \A g \in Frames : refs'[g] = IF g \in {f} \cap Tracked THEN 1 ELSE refs[g]
  BY <1>3, <1>4 DEF Types, SpacesTypeOK
<1>12. Types'
  <2>1. data' \in [Frames -> Content]
    BY <1>3, <1>4 DEF Types, Content
  <2> QED BY <1>3, <1>4, <1>7, <1>8, <1>9, <1>10, <1>11, <2>1 DEF Types, SpacesTypeOK, PolicyActions
<1>13. \A g \in Frames : FrameOK(g)'
  <2>1. \A t \in Spaces, q \in Pages : \/ table'[t][q] = table[t][q]
                                       \/ t = dem /\ table'[t][q].frame \in {f}
    BY <1>6, <1>8
  <2>2. \A q, r \in Pages : table'[dem][q].frame \in {f} /\ table'[dem][r].frame = table'[dem][q].frame => q = r
    BY <1>1, <1>4, <1>8, Unmapped
  <2>3. {f} \in SUBSET free
    BY <1>1
  <2> QED BY <1>3, <1>4, <1>5, <1>11, <2>1, <2>2, <2>3, FreshFrames
<1>14. Memory'
  <2>1. \A t \in Spaces \ live', q \in Pages : table'[t][q] = NoEntry
    BY <1>3, <1>4, <1>8 DEF SpacesInv, Memory
  <2>2. \A t \in Spaces, q \in Pages : Present(t, q)' => table'[t][q].frame \in Frames /\ q \in leaves'[t]
    BY <1>6, <1>8, <1>9 DEF SpacesInv, Memory, Present
  <2> QED BY <1>10, <1>13, <2>1, <2>2 DEF Memory
<1>15. Faulting'
  <2>1. table'[dem][p] # NoEntry /\ table'[dem][p].W
    <3>1. table'[dem][p] = e
      BY <1>3, <1>4, <1>8
    <3>2. e # NoEntry
      <4>1. NoEntry.frame = 0 /\ f # 0
        BY DEF NoEntry, SpacesConstants
      <4> QED BY <1>6, <4>1
    <3> QED BY <1>6, <3>1, <3>2
  <2>2. ~Stuck
    BY <1>2 DEF Stuck, ErrorPresent
  <2> QED BY <1>1, <1>2, <1>3, <2>1, <2>2, RepairedFault
<1>16. Loading'
  BY <1>3 DEF SpacesInv, Loading
<1> QED BY <1>12, <1>14, <1>15, <1>16 DEF SpacesInv

\* A frame that loses a mapping and a reference: the last reference frees it, and
\* then nothing maps it.
LEMMA MappingLost ==
    ASSUME SpacesConstants, live \subseteq Spaces, live' = live, NEW f, FrameOK(f),
           NEW s \in live, NEW p \in Pages, table[s][p].frame = f,
           \A t \in live, q \in Pages : IF t = s /\ q = p THEN table'[t][q].frame # f ELSE table'[t][q] = table[t][q],
           f \notin tables', f \in free' => f \in Tracked /\ refs[f] = 1,
           f \in Tracked => refs[f] \in Nat /\ (refs[f] > 0 => refs'[f] = refs[f] - 1)
    PROVE  FrameOK(f)'
<1> SUFFICES ASSUME Mappings(f)' # {} PROVE Owned(f)' /\ ReadOnlyIfShared(f)'
  BY DEF FrameOK
<1>1. <<s, p>> \in Mappings(f)
  BY MappingsOf
<1>2. Owned(f) /\ ReadOnlyIfShared(f)
  BY <1>1 DEF FrameOK
<1>3. Mappings(f)' = Mappings(f) \ {<<s, p>>}
  BY DEF Mappings
<1>4. IsFiniteSet(Mappings(f)) /\ Cardinality(Mappings(f)) \in Nat
  BY MappingsFinite
<1>5. IsFiniteSet(Mappings(f)') /\ Cardinality(Mappings(f)') = Cardinality(Mappings(f)) - 1
  BY <1>1, <1>3, <1>4, FS_RemoveElement
<1>6. Cardinality(Mappings(f)') \in Nat /\ Cardinality(Mappings(f)') # 0
  BY <1>5, FS_CardinalityType, FS_EmptySet
<1>7. f \in Tracked => refs[f] >= 2 /\ refs'[f] >= Cardinality(Mappings(f)')
  BY <1>2, <1>4, <1>5, <1>6 DEF Owned
<1>8. Owned(f)'
  BY <1>7 DEF Owned
<1>9. ReadOnlyIfShared(f)'
  BY <1>2 DEF ReadOnlyIfShared, MapsTo
<1> QED BY <1>8, <1>9

LEMMA ResolveCopyOnWriteKeeps ==
    ASSUME SpacesConstants, SpacesInv, NEW f \in Frames, ResolveCopyOnWrite(f)
    PROVE  SpacesInv'
<1> DEFINE p == pending.page
           e == Resolved(table[dem][p], f)
<1>1. f \in free /\ Resolvable /\ Finish("recover")
  BY AllocatableFree DEF ResolveCopyOnWrite
<1>2. UserFault /\ Faults /\ dem # None /\ p # KernelPage /\ pending.kind = "write" /\ table[dem][p].cow
  BY <1>1 DEF Resolvable, UserFault
<1>3. Types /\ dem \in live /\ dem \in Spaces /\ p \in Pages
  BY <1>2 DEF SpacesInv, Types, SpacesTypeOK, Access
<1>4. PICK old \in Frames : old = table[dem][p].frame
  BY <1>2, <1>3 DEF SpacesInv, Memory, Present, NoEntry
<1>5. /\ free' = (free \ {f}) \cup Released(old)
      /\ refs' = [g \in Frames |-> IF g = f /\ g \in Tracked THEN 1
                                   ELSE IF g = old /\ refs[g] > 0 THEN refs[g] - 1 ELSE refs[g]]
      /\ data' = [data EXCEPT ![f] = data[old]]
      /\ table' = [table EXCEPT ![dem][p] = e]
      /\ UNCHANGED <<live, leaves, regions, tables, ctx, dem, load, calls>>
  BY <1>4 DEF ResolveCopyOnWrite
<1>6. Present(dem, p) /\ old = table[dem][p].frame /\ p \in leaves[dem]
  BY <1>4, <1>2, <1>3 DEF SpacesInv, Memory, Present, NoEntry
<1>7. <<dem, p>> \in Mappings(old) /\ FrameOK(old) /\ Owned(old) /\ ReadOnlyIfShared(old)
  BY <1>3, <1>6, MappingsOf DEF SpacesInv, Memory, FrameOK
<1>8. old # f /\ old \notin free /\ old \notin tables
  BY <1>1, <1>7 DEF Owned
<1>9. e.frame = f /\ e.W /\ e \in [frame : Frames \cup {0}, W : BOOLEAN, X : BOOLEAN, cow : BOOLEAN]
  <2>1. table[dem][p] \in [frame : Frames \cup {0}, W : BOOLEAN, X : BOOLEAN, cow : BOOLEAN]
    BY <1>3, EntryTypes
  <2> QED BY <2>1 DEF Resolved
<1>10. pending' \in Access /\ verdict' = "recover"
  BY <1>1, <1>2, FinishAccess DEF Finish
<1>11. Released(old) \subseteq {old} /\ (old \in Tracked /\ refs[old] > 1 => Released(old) = {})
  BY DEF Released
<1>12. old \in Released(old) => old \in Tracked /\ refs[old] = 1
  BY DEF Released
<1> HIDE DEF e
<1>13. /\ table' \in [Spaces -> AddressSpace]
       /\ \A t \in Spaces, q \in Pages : table'[t][q] = IF t = dem /\ q = p THEN e ELSE table[t][q]
  BY <1>5, <1>3, <1>9 DEF Types, SpacesTypeOK, AddressSpace
<1>14. free' \subseteq Frames /\ tables' \cap free' = {}
  BY <1>1, <1>5, <1>3, <1>6, <1>8, <1>11 DEF SpacesInv, Memory, Types, SpacesTypeOK
<1>15. /\ refs' \in [Frames -> Nat]
       /\ f \in Tracked => refs'[f] = 1
       /\ refs[old] > 0 => refs'[old] = refs[old] - 1
       /\ \A g \in Frames \ {f, old} : refs'[g] = refs[g]
  BY <1>5, <1>3, <1>6, <1>8 DEF Types, SpacesTypeOK
<1>16. Types'
  <2>1. data' \in [Frames -> Content]
    BY <1>5, <1>3 DEF Types
  <2> QED BY <1>5, <1>3, <1>10, <1>13, <1>14, <1>15, <2>1 DEF Types, SpacesTypeOK, PolicyActions
<1>17. FrameOK(f)'
  <2>1. f \notin free' /\ f \notin tables'
    BY <1>1, <1>5, <1>8, <1>11 DEF SpacesInv, Memory
  <2>2. \A t \in live', q \in Pages : table'[t][q].frame = f => t = dem /\ q = p
    BY <1>1, <1>5, <1>3, <1>13, Unmapped DEF Types, SpacesTypeOK
  <2>3. \A t, u \in live', q, r \in Pages :
            table'[t][q].frame = f /\ table'[u][r].frame = f => <<t, q>> = <<u, r>>
    BY <2>2
  <2> QED BY <1>15, <2>1, <2>3, FrameAlone
<1>18. FrameOK(old)'
  <2>1. live \subseteq Spaces /\ live' = live /\ FrameOK(old) /\ refs[old] \in Nat
    BY <1>5, <1>3, <1>7 DEF Types, SpacesTypeOK
  <2>2. \A t \in live, q \in Pages : IF t = dem /\ q = p THEN table'[t][q].frame # old ELSE table'[t][q] = table[t][q]
    BY <1>3, <1>8, <1>9, <1>13 DEF Types, SpacesTypeOK
  <2>3. old \notin tables' /\ (old \in free' => old \in Tracked /\ refs[old] = 1)
    BY <1>5, <1>8, <1>12
  <2> QED BY <1>3, <1>6, <1>15, <2>1, <2>2, <2>3, MappingLost
<1>19. ASSUME NEW g \in Frames \ {f, old} PROVE FrameOK(g)'
  <2>1. FrameOK(g) /\ live \subseteq Spaces /\ live' = live /\ refs[g] \in Nat /\ refs'[g] = refs[g]
    BY <1>5, <1>3, <1>15 DEF SpacesInv, Memory, Types, SpacesTypeOK
  <2>2. \A t \in live', q \in Pages : table'[t][q].frame = g =>
            t \in live /\ table[t][q].frame = g /\ (table'[t][q].W => table[t][q].W)
    BY <1>9, <1>13, <2>1
  <2>3. g \notin free /\ g \notin tables => g \notin free' /\ g \notin tables'
    BY <1>5, <1>11
  <2> QED BY <2>1, <2>2, <2>3, FrameKept
<1>20. Memory'
  <2>1. \A t \in Spaces \ live', q \in Pages : table'[t][q] = NoEntry
    BY <1>5, <1>3, <1>13 DEF SpacesInv, Memory
  <2>2. \A t \in Spaces, q \in Pages : Present(t, q)' => table'[t][q].frame \in Frames /\ q \in leaves'[t]
    BY <1>5, <1>6, <1>9, <1>13 DEF SpacesInv, Memory, Present
  <2>3. \A g \in Frames : FrameOK(g)'
    BY <1>17, <1>18, <1>19
  <2> QED BY <1>14, <2>1, <2>2, <2>3 DEF Memory
<1>21. Faulting'
  <2>1. table'[dem][p] # NoEntry /\ table'[dem][p].W
    <3>1. table'[dem][p] = e
      BY <1>3, <1>13
    <3>2. e # NoEntry
      <4>1. NoEntry.frame = 0 /\ f # 0
        BY DEF NoEntry, SpacesConstants
      <4> QED BY <1>9, <4>1
    <3> QED BY <1>9, <3>1, <3>2
  <2>2. ~Stuck
    BY <1>2 DEF Stuck
  <2> QED BY <1>1, <1>2, <1>5, <2>1, <2>2, RepairedFault
<1>22. Loading'
  BY <1>5 DEF SpacesInv, Loading
<1> QED BY <1>16, <1>20, <1>21, <1>22 DEF SpacesInv

\* A frame that space c maps where space s does, both without the right to write.
LEMMA FrameShared ==
    ASSUME SpacesConstants, live \subseteq Spaces, NEW f, FrameOK(f),
           NEW s \in live, NEW c \in Spaces \ live, live' = live \cup {c},
           NEW D \in SUBSET Pages, D # {},
           \A p \in D : table[s][p].frame = f /\ ~table'[s][p].W /\ ~table'[c][p].W,
           \A p \in Pages : table'[c][p].frame = f <=> p \in D,
           \A t \in live, p \in Pages : table'[t][p].frame = f <=> table[t][p].frame = f,
           \A t \in live, p \in Pages : (t = s /\ p \in D) \/ table'[t][p].frame # f \/ table'[t][p] = table[t][p],
           f \notin free /\ f \notin tables => f \notin free' /\ f \notin tables',
           f \in Tracked => refs[f] \in Nat /\ (refs[f] > 0 => refs'[f] = refs[f] + Cardinality(D))
    PROVE  FrameOK(f)'
<1> DEFINE copies == {<<c, p>> : p \in D}
<1>1. PICK d \in D : TRUE
  OBVIOUS
<1>2. <<s, d>> \in Mappings(f)
  BY <1>1, MappingsOf
<1>3. Owned(f) /\ ReadOnlyIfShared(f)
  BY <1>2 DEF FrameOK
<1>4. Mappings(f)' = Mappings(f) \cup copies
  BY DEF Mappings
<1>5. IsFiniteSet(Mappings(f)) /\ Cardinality(Mappings(f)) \in Nat
  BY MappingsFinite
<1>6. Cardinality(Mappings(f)) # 0
  BY <1>2, <1>5, FS_EmptySet
<1>7. IsFiniteSet(D) /\ Cardinality(D) \in Nat
  BY FS_Subset, FS_CardinalityType DEF SpacesConstants
<1>8. IsFiniteSet(copies) /\ Cardinality(copies) <= Cardinality(D) /\ Cardinality(copies) \in Nat
  <2> DEFINE g == [p \in D |-> <<c, p>>]
  <2>1. g \in Surjection(D, copies)
    BY DEF Surjection
  <2> QED BY <1>7, <2>1, FS_Surjection, FS_CardinalityType
<1>9. copies \cap Mappings(f) = {}
  BY DEF Mappings
<1>10. Cardinality(Mappings(f)') <= Cardinality(Mappings(f)) + Cardinality(D)
       /\ Cardinality(Mappings(f)') \in Nat
  <2>1. IsFiniteSet(Mappings(f) \cup copies)
        /\ Cardinality(Mappings(f) \cup copies) = Cardinality(Mappings(f)) + Cardinality(copies) - Cardinality(Mappings(f) \cap copies)
    BY <1>5, <1>8, FS_Union
  <2>2. Cardinality(Mappings(f) \cap copies) = 0
    BY <1>9, FS_EmptySet
  <2>3. Cardinality(Mappings(f)') \in Nat
    BY <1>4, <2>1, FS_CardinalityType
  <2>4. Cardinality(Mappings(f)') = Cardinality(Mappings(f)) + Cardinality(copies)
    BY <1>4, <1>5, <1>8, <2>1, <2>2
  <2> HIDE DEF copies
  <2> QED BY <1>5, <1>7, <1>8, <2>3, <2>4
<1>11. f \in Tracked => refs'[f] >= Cardinality(Mappings(f)')
  <2> SUFFICES ASSUME f \in Tracked PROVE refs'[f] >= Cardinality(Mappings(f)')
    OBVIOUS
  <2>1. refs[f] >= Cardinality(Mappings(f))
    BY <1>3 DEF Owned
  <2>2. refs[f] \in Nat /\ refs[f] > 0
    BY <1>5, <1>6, <2>1
  <2>3. refs'[f] = refs[f] + Cardinality(D)
    BY <2>2
  <2> QED BY <1>5, <1>7, <1>10, <2>1, <2>2, <2>3
<1>12. Owned(f)'
  BY <1>3, <1>11 DEF Owned
<1>13. \A t \in live', p \in Pages : table'[t][p].frame = f => ~table'[t][p].W
  <2> SUFFICES ASSUME NEW t \in live', NEW p \in Pages, table'[t][p].frame = f PROVE ~table'[t][p].W
    OBVIOUS
  <2>1. CASE t = c
    BY <2>1
  <2>2. CASE t = s /\ p \in D
    BY <2>2
  <2>3. CASE t # c /\ ~(t = s /\ p \in D)
    <3>1. t \in live /\ table'[t][p] = table[t][p] /\ <<t, p>> # <<s, d>>
      BY <1>1, <2>3
    <3>2. MapsTo(t, p, f) /\ MapsTo(s, d, f)
      BY <1>1, <3>1 DEF MapsTo
    <3> QED BY <1>1, <1>3, <3>1, <3>2 DEF ReadOnlyIfShared
  <2> QED BY <2>1, <2>2, <2>3
<1>14. ReadOnlyIfShared(f)'
  BY <1>13 DEF ReadOnlyIfShared, MapsTo
<1> QED BY <1>12, <1>14 DEF FrameOK

LEMMA CopyOnWriteCloneKeeps ==
    ASSUME SpacesConstants, SpacesInv, NEW s \in Spaces, NEW c \in Spaces, CopyOnWriteClone(s, c)
    PROVE  SpacesInv'
<1> DEFINE k == Cardinality(free) - 1
           copied == {p \in leaves[s] : Cardinality({q \in leaves[s] : q < p}) < k}
           taken == TableFrames(1 + Cardinality(copied), free)
           parent(e) == Shared(e, TRUE)
           child(e) == Shared(e, FALSE)
<1>1. PICK sharing : sharing = {p \in copied : Present(s, p)}
  OBVIOUS
<1>2. PICK full \in BOOLEAN : full <=> copied = leaves[s]
  OBVIOUS
<1>3. Idle /\ s \in live /\ c \notin live /\ s # c
  BY DEF CopyOnWriteClone, Called
<1>4. /\ free' = free \ taken /\ tables' = tables \cup taken
      /\ refs' = Referenced(s, sharing)
      /\ table' = [table EXCEPT ![s] = [p \in Pages |-> IF p \in sharing THEN parent(@[p]) ELSE @[p]],
                                ![c] = [p \in Pages |-> IF p \in sharing /\ full THEN child(table[s][p]) ELSE NoEntry]]
      /\ UNCHANGED <<data, ctx, dem, pending, verdict, load>>
  BY <1>1, <1>2 DEF CopyOnWriteClone
<1>5. /\ full => /\ live' = live \cup {c}
                 /\ leaves' = [leaves EXCEPT ![c] = leaves[s]]
                 /\ regions' = [regions EXCEPT ![c] = regions[s]]
      /\ ~full => UNCHANGED <<live, leaves, regions>>
  BY <1>2 DEF CopyOnWriteClone
<1>6. Types /\ live \subseteq Spaces
  BY DEF SpacesInv, Types, SpacesTypeOK
<1>7. sharing \subseteq Pages /\ \A p \in sharing : p \in leaves[s] /\ Present(s, p)
  BY <1>1, <1>6 DEF Types, SpacesTypeOK
<1>8. taken \in SUBSET free
  BY TableFramesFree
<1>9. \A p \in sharing : \A e \in {parent(table[s][p]), child(table[s][p])} :
          /\ e.frame = table[s][p].frame /\ ~e.W
          /\ e \in [frame : Frames \cup {0}, W : BOOLEAN, X : BOOLEAN, cow : BOOLEAN]
  <2> SUFFICES ASSUME NEW p \in sharing
               PROVE  \A e \in {parent(table[s][p]), child(table[s][p])} :
                         /\ e.frame = table[s][p].frame /\ ~e.W
                         /\ e \in [frame : Frames \cup {0}, W : BOOLEAN, X : BOOLEAN, cow : BOOLEAN]
    OBVIOUS
  <2>1. table[s][p] \in [frame : Frames \cup {0}, W : BOOLEAN, X : BOOLEAN, cow : BOOLEAN]
        /\ table[s][p] # NoEntry
    BY <1>6, <1>7, EntryTypes DEF Present
  <2> QED BY <2>1 DEF Shared
<1> HIDE DEF parent, child, taken, copied
<1>10. /\ table' \in [Spaces -> AddressSpace]
       /\ \A t \in Spaces \ {s, c} : table'[t] = table[t]
       /\ \A p \in Pages : table'[s][p] = IF p \in sharing THEN parent(table[s][p]) ELSE table[s][p]
       /\ \A p \in Pages : table'[c][p] = IF p \in sharing /\ full THEN child(table[s][p]) ELSE NoEntry
  <2> DEFINE ns == [p \in Pages |-> IF p \in sharing THEN parent(table[s][p]) ELSE table[s][p]]
             nc == [p \in Pages |-> IF p \in sharing /\ full THEN child(table[s][p]) ELSE NoEntry]
  <2>1. ns \in AddressSpace /\ nc \in AddressSpace
    BY <1>6, <1>9, EntryTypes DEF AddressSpace
  <2>2. table' = [table EXCEPT ![s] = ns, ![c] = nc]
    BY <1>3, <1>4, <1>6 DEF Types, SpacesTypeOK
  <2>3. table \in [Spaces -> AddressSpace]
    BY <1>6, EntryTypes
  <2>4. (\A p \in Pages : ns[p] = IF p \in sharing THEN parent(table[s][p]) ELSE table[s][p])
        /\ \A p \in Pages : nc[p] = IF p \in sharing /\ full THEN child(table[s][p]) ELSE NoEntry
    OBVIOUS
  <2> HIDE DEF ns, nc
  <2>5. /\ table' \in [Spaces -> AddressSpace] /\ table'[s] = ns /\ table'[c] = nc
        /\ \A t \in Spaces \ {s, c} : table'[t] = table[t]
    BY <1>3, <2>1, <2>2, <2>3
  <2> QED BY <2>4, <2>5
<1>11. /\ leaves' \in [Spaces -> SUBSET Pages]
       /\ \A t \in Spaces \ {c} : leaves'[t] = leaves[t]
       /\ full => leaves'[c] = leaves[s]
  BY <1>5, <1>6 DEF Types, SpacesTypeOK
<1>12. /\ regions' \in [Spaces -> Seq(Region)]
       /\ \A t \in Spaces : regions'[t] \in BoundedSeq(Region, MaxRegions)
  BY <1>5, <1>6 DEF Types, SpacesTypeOK
<1>13. /\ tables' \cap free' = {} /\ tables' \subseteq Frames /\ free' \subseteq Frames
       /\ \A f : f \notin free /\ f \notin tables => f \notin free' /\ f \notin tables'
  <2>1. {} \in SUBSET free /\ free' = free \ ({} \cup taken)
    BY <1>4
  <2> QED BY <1>4, <1>8, <2>1, TakenForTables
<1>14. /\ refs' \in [Frames -> Nat]
       /\ \A f \in Frames : /\ refs'[f] >= refs[f]
                            /\ f \in Tracked /\ refs[f] > 0 =>
                                 refs'[f] = refs[f] + Cardinality({p \in sharing : table[s][p].frame = f})
  <2>1. \A f \in Frames : refs'[f] = IF f \in Tracked /\ refs[f] > 0
                                     THEN refs[f] + Cardinality({p \in sharing : table[s][p].frame = f})
                                     ELSE refs[f]
    BY <1>4 DEF Referenced
  <2>2. \A f \in Frames : Cardinality({p \in sharing : table[s][p].frame = f}) \in Nat
    <3> TAKE f \in Frames
    <3>1. {p \in sharing : table[s][p].frame = f} \in SUBSET Pages
      BY <1>7
    <3> QED BY <3>1, FS_Subset, FS_CardinalityType DEF SpacesConstants
  <2>3. refs' = [f \in Frames |-> refs'[f]] /\ refs \in [Frames -> Nat]
    BY <1>4, <1>6 DEF Referenced, Types, SpacesTypeOK
  <2>4. \A f \in Frames : refs'[f] \in Nat /\ refs'[f] >= refs[f]
    <3> TAKE f \in Frames
    <3> DEFINE n == Cardinality({p \in sharing : table[s][p].frame = f})
    <3>1. n \in Nat /\ refs[f] \in Nat /\ refs'[f] \in {refs[f] + n, refs[f]}
      BY <2>1, <2>2, <2>3
    <3> HIDE DEF n
    <3> QED BY <3>1
  <2>5. refs' \in [Frames -> Nat]
    BY <2>3, <2>4
  <2> QED BY <2>1, <2>4, <2>5
<1>15. live' \subseteq Spaces /\ live \subseteq live'
  BY <1>5, <1>6
<1>16. Types'
  BY <1>4, <1>6, <1>10, <1>11, <1>12, <1>13, <1>14, <1>15 DEF Types, SpacesTypeOK
<1>17. ASSUME NEW f \in Frames PROVE FrameOK(f)'
  <2>1. FrameOK(f) /\ refs[f] \in Nat /\ refs'[f] \in Nat /\ f # 0 /\ NoEntry.frame = 0
    BY <1>6, <1>14 DEF SpacesInv, Memory, Types, SpacesTypeOK, SpacesConstants, NoEntry
  <2>2. PICK D : D = {p \in sharing : table[s][p].frame = f}
    OBVIOUS
  <2>3. \A t \in live, p \in Pages : /\ table'[t][p].frame = table[t][p].frame
                                     /\ table'[t][p].W => table[t][p].W
    BY <1>3, <1>6, <1>9, <1>10
  <2>4. CASE ~full \/ D = {}
    <3>1. \A t \in live', p \in Pages : table'[t][p].frame = f =>
              t \in live /\ table[t][p].frame = f /\ (table'[t][p].W => table[t][p].W)
      BY <1>5, <1>9, <1>10, <2>1, <2>2, <2>3, <2>4
    <3> QED BY <1>6, <1>13, <1>14, <1>15, <2>1, <3>1, FrameKept
  <2>5. CASE full /\ D # {}
    <3>1. D \in SUBSET Pages
      BY <1>7, <2>2
    <3>2. \A p \in D : table[s][p].frame = f /\ ~table'[s][p].W /\ ~table'[c][p].W
      BY <1>7, <1>9, <1>10, <2>2, <2>5
    <3>3. \A p \in Pages : table'[c][p].frame = f <=> p \in D
      BY <1>9, <1>10, <2>1, <2>2, <2>5
    <3>4. \A t \in live, p \in Pages : (t = s /\ p \in D) \/ table'[t][p].frame # f \/ table'[t][p] = table[t][p]
      BY <1>3, <1>6, <1>9, <1>10, <2>2
    <3>5. live' = live \cup {c} /\ c \in Spaces \ live
      BY <1>3, <1>5, <2>5
    <3>6. f \in Tracked => refs[f] \in Nat /\ (refs[f] > 0 => refs'[f] = refs[f] + Cardinality(D))
      BY <1>14, <2>1, <2>2
    <3>7. f \notin free /\ f \notin tables => f \notin free' /\ f \notin tables'
      BY <1>13
    <3>8. \A t \in live, p \in Pages : table'[t][p].frame = f <=> table[t][p].frame = f
      BY <2>3
    <3>9. live \subseteq Spaces /\ FrameOK(f) /\ s \in live /\ c \in Spaces \ live /\ D # {} /\ live' = live \cup {c}
      BY <1>3, <1>6, <2>1, <2>5, <3>5
    <3> QED BY <3>1, <3>2, <3>3, <3>4, <3>6, <3>7, <3>8, <3>9, FrameShared
  <2> QED BY <2>4, <2>5
<1>18. Memory'
  <2>1. \A t \in Spaces \ live', p \in Pages : table'[t][p] = NoEntry
    BY <1>3, <1>5, <1>10, <1>15 DEF SpacesInv, Memory
  <2>2. \A t \in Spaces, p \in Pages : Present(t, p)' => table'[t][p].frame \in Frames /\ p \in leaves'[t]
    <3> SUFFICES ASSUME NEW t \in Spaces, NEW p \in Pages, table'[t][p] # NoEntry
                 PROVE  table'[t][p].frame \in Frames /\ p \in leaves'[t]
      BY DEF Present
    <3>1. CASE t = s
      BY <1>3, <1>7, <1>9, <1>10, <1>11, <3>1 DEF SpacesInv, Memory, Present
    <3>2. CASE t = c
      BY <1>3, <1>7, <1>9, <1>10, <1>11, <3>2 DEF SpacesInv, Memory, Present
    <3>3. CASE t \notin {s, c}
      BY <1>10, <1>11, <3>3 DEF SpacesInv, Memory, Present
    <3> QED BY <3>1, <3>2, <3>3
  <2> QED BY <1>13, <1>17, <2>1, <2>2 DEF Memory
<1> QED BY <1>3, <1>4, <1>16, <1>18, IdleKeeps

-----------------------------------------------------------------------------
(* The invariant of the specification.                                     *)

LEMMA InitKeeps ==
    ASSUME SpacesConstants, SpacesInit
    PROVE  SpacesInv
<1> USE DEF SpacesInit
<1>1. NoAccess \in Access /\ NoLoad \in Load
  BY DEF NoAccess, Access, KernelPage, NoLoad, Load
<1>2. tables \subseteq Frames /\ tables \cap free = {} /\ free \subseteq Frames
  BY TableFramesFree
<1>3. <<>> \in BoundedSeq(Region, MaxRegions)
  <2>1. MaxRegions \in Nat /\ <<>> \in Seq(Region) /\ Len(<<>>) <= MaxRegions
    BY DEF SpacesConstants
  <2> QED BY <2>1, SeqBounded
<1>4. live \subseteq Spaces
  BY DEF SpacesConstants
<1>5. table \in [Spaces -> AddressSpace] /\ leaves \in [Spaces -> SUBSET Pages]
      /\ refs \in [Frames -> Nat] /\ data \in [Frames -> Content]
  BY DEF AddressSpace, NoEntry, Content
<1>6. regions \in [Spaces -> Seq(Region)] /\ \A s \in Spaces : regions[s] \in BoundedSeq(Region, MaxRegions)
  BY <1>3
<1>7. Types
  BY <1>1, <1>2, <1>4, <1>5, <1>6 DEF Types, SpacesTypeOK, PolicyActions
<1>8. Memory
  <2>1. \A s \in Spaces, p \in Pages : table[s][p] = NoEntry
    OBVIOUS
  <2>2. ASSUME NEW f \in Frames PROVE FrameOK(f)
    <3>1. \A s \in live, p \in Pages : table[s][p].frame # f
      BY <1>4, <2>1 DEF NoEntry, SpacesConstants
    <3> QED BY <3>1, MappingsEmpty DEF FrameOK
  <2> QED BY <1>2, <2>1, <2>2 DEF Memory, Present
<1>9. Loading /\ Faulting
  BY DEF Loading, Faulting
<1> QED BY <1>7, <1>8, <1>9 DEF SpacesInv

LEMMA StutterKeeps ==
    ASSUME SpacesInv, UNCHANGED spacesVars
    PROVE  SpacesInv'
<1> USE DEF SpacesInv, spacesVars
<1>1. Types'
  BY DEF Types, SpacesTypeOK
<1>2. Memory'
  BY MemoryUnchanged DEF memoryVars
<1>3. Loading'
  BY DEF Loading
<1>4. Faulting'
  BY DEF Faulting, Tried, Stuck, Permitted, Present
<1> QED BY <1>1, <1>2, <1>3, <1>4

LEMMA StepKeeps ==
    ASSUME SpacesConstants, SpacesInv, SpacesNext
    PROVE  SpacesInv'
<1>1. CASE \E s \in Spaces : CreateProcessAddressSpace(s) \/ DestroySpace(s)
  BY <1>1, CreateProcessAddressSpaceKeeps, DestroySpaceKeeps
<1>2. CASE \E s \in Spaces \cup {None} : SetProcessContext(s) \/ SetDemandAllocator(s)
  BY <1>2, PolicyContextKeeps
<1>3. CASE \E s \in Spaces, a, b \in Pages, r \in Rights :
             ReserveMmapRegion(s, a, b, r[1], r[2]) \/ MapSegment(s, a, b, r[1], r[2]) \/ Protect(s, a, b, r[1], r[2])
  BY <1>3, ReserveKeeps, ProtectKeeps
<1>4. CASE \E f \in Frames : MapSegmentPage(f)
  BY <1>4, MapSegmentPageKeeps
<1>5. CASE MapSegmentFails
  BY <1>5, MapSegmentFailsKeeps
<1>6. CASE \E s \in Spaces, a, b \in Pages, base \in Allocatable, r \in Rights : Map(s, a, b, base, r[1], r[2])
  BY <1>6, MapKeeps
<1>7. CASE \E s \in Spaces, a, b \in Pages : Unmap(s, a, b)
  BY <1>7, UnmapKeeps
<1>8. CASE \E s, c \in Spaces : CopyOnWriteClone(s, c)
  BY <1>8, CopyOnWriteCloneKeeps
<1>9. CASE \E s \in Spaces, p \in Pages, v \in Values : Store(s, p, v)
  BY <1>9, DataKeeps
<1>10. CASE \E s \in Spaces, p \in Pages \cup {KernelPage}, kind \in Kinds : FaultingAccess(s, p, kind)
  BY <1>10, FaultingAccessKeeps
<1>11. CASE \E v \in Values : Retry(v)
  BY <1>11, RetryKeeps
<1>12. CASE \E f \in Frames : ResolveCopyOnWrite(f) \/ DemandAllocate(f)
  BY <1>12, ResolveCopyOnWriteKeeps, DemandAllocateKeeps
<1>13. CASE DemandPresent \/ KillProcess \/ PanicWithoutContext
  BY <1>13, DemandPresentKeeps, KillProcessKeeps, PanicWithoutContextKeeps
<1>14. CASE \E s \in Spaces, p \in Pages, n \in 1 .. MaxCopy, v \in Values : OrynCopyToUser(s, p, n, v)
  BY <1>14, DataKeeps
<1> QED BY <1>1, <1>2, <1>3, <1>4, <1>5, <1>6, <1>7, <1>8, <1>9, <1>10, <1>11, <1>12, <1>13, <1>14 DEF SpacesNext

\* In every state frames, references, write rights and tables agree, and a fault
\* the process's own allocator repairs is repaired once
\* (KernelVirtualMemoryApi.c, KernelVirtualMemoryCow.c, KernelPageFaultPolicy.c).
THEOREM SpacesAlwaysSound ==
    ASSUME SpacesConstants
    PROVE  SpacesSpec => []SpacesSound
<1>1. SpacesInit => SpacesInv
  BY InitKeeps
<1>2. SpacesInv /\ [SpacesNext]_spacesVars => SpacesInv'
  BY StepKeeps, StutterKeeps
<1>3. SpacesInv => SpacesSound
  BY SpacesInvSound
<1> QED BY <1>1, <1>2, <1>3, PTL DEF SpacesSpec

-----------------------------------------------------------------------------
(* What one process's step does to the memory of the others.               *)

\* No process but the one in space u finds a page it keeps changed.
Undisturbed(u) ==
    \A s \in live \cap live', p \in Pages :
        s # u /\ Present(s, p) /\ Present(s, p)' => Sees(s, p)' = Sees(s, p)

LEMMA UndisturbedObserver ==
    ASSUME NEW u, Undisturbed(u), NEW s \in live \cap live', NEW t \in live \cap live',
           NEW p \in Pages, NEW q \in Pages, s # t,
           Present(s, p), Present(s, p)', Sees(s, p) # Sees(s, p)', Present(t, q), Present(t, q)'
    PROVE  Sees(t, q) = Sees(t, q)'
<1>1. s = u
  BY DEF Undisturbed
<1> QED BY <1>1 DEF Undisturbed

FramesStay ==
    \A s \in live \cap live', p \in Pages :
        Present(s, p) /\ Present(s, p)' => table'[s][p].frame = table[s][p].frame

\* Only frames that were free get other contents.
LEMMA FreshData ==
    ASSUME SpacesConstants, SpacesInv, FramesStay, NEW used \in SUBSET free,
           \A f \in Frames \ used : data'[f] = data[f]
    PROVE  Undisturbed(None)
<1> SUFFICES ASSUME NEW s \in live \cap live', NEW p \in Pages, Present(s, p), Present(s, p)'
             PROVE  Sees(s, p)' = Sees(s, p)
  BY DEF Undisturbed
<1>1. s \in Spaces
  BY DEF SpacesInv, Types, SpacesTypeOK
<1>2. table[s][p].frame \in Frames /\ table[s][p].frame \notin used
  BY <1>1, Unmapped DEF SpacesInv, Memory
<1>3. table'[s][p].frame = table[s][p].frame
  BY DEF FramesStay
<1> QED BY <1>2, <1>3 DEF Sees

LEMMA SameData ==
    ASSUME SpacesConstants, SpacesInv, FramesStay, UNCHANGED data
    PROVE  Undisturbed(None)
BY DEF FramesStay, Undisturbed, Sees

\* A page its process may write is in a frame nobody else maps.
LEMMA OneFrameWritten ==
    ASSUME SpacesConstants, SpacesInv, UNCHANGED <<live, table>>,
           NEW s \in live, NEW p \in Pages, Permitted(s, p, "write"),
           \A f \in Frames : f # table[s][p].frame => data'[f] = data[f]
    PROVE  Undisturbed(s)
<1> DEFINE g == table[s][p].frame
<1>1. s \in Spaces /\ g \in Frames /\ table[s][p].W
  BY DEF SpacesInv, Memory, Types, SpacesTypeOK, Permitted
<1>2. ReadOnlyIfShared(g)
  BY <1>1, MappingsOf DEF SpacesInv, Memory, FrameOK
<1> SUFFICES ASSUME NEW t \in live, NEW q \in Pages, t # s, Present(t, q)
             PROVE  data'[table[t][q].frame] = data[table[t][q].frame]
  BY DEF Undisturbed, Sees, Present
<1>3. t \in Spaces /\ table[t][q].frame \in Frames
  BY DEF SpacesInv, Memory, Types, SpacesTypeOK
<1>4. table[t][q].frame # g
  BY <1>1, <1>2 DEF ReadOnlyIfShared, MapsTo
<1> QED BY <1>3, <1>4

LEMMA FirstCell == ASSUME NEW f \in Nat, NEW n \in Nat, n > 0 PROVE (f * n + (0 % n) + 0) \div n = f
<1>1. 0 % n = 0
  BY SMT
<1>2. (f * n) \div n = f
  BY SMT
<1> QED BY <1>1, <1>2

\* A copy of one cell is written where it is translated to.
LEMMA CopyKeepsOthers ==
    ASSUME SpacesConstants, SingleCopies, SpacesInv, NEW s \in Spaces, NEW p \in Pages,
           NEW n \in 1 .. MaxCopy, NEW v \in Values, OrynCopyToUser(s, p, n, v)
    PROVE  Undisturbed(s)
<1> DEFINE size == Cardinality(Cells)
           g == table[s][p].frame
<1>1. n = 1 /\ size \in Nat /\ size > 0
  <2>1. size \in Nat /\ size # 0
    BY FS_CardinalityType, FS_EmptySet DEF SingleCopies
  <2> QED BY <2>1 DEF SingleCopies
<1>2. p \in Nat
  BY DEF SpacesConstants
<1>3. Permitted(s, p, "write") /\ s \in live
  <2>1. \A q \in p .. p + ((1 - 1) \div size) : q \in Pages /\ Permitted(s, q, "write")
    BY <1>1 DEF OrynCopyToUser, UserRangeWritable
  <2>2. p \in p .. p + ((1 - 1) \div size)
    BY <1>1, <1>2
  <2> QED BY <2>1, <2>2 DEF OrynCopyToUser
<1>4. g \in Frames /\ g \in Nat
  BY <1>3 DEF SpacesInv, Memory, Permitted, SpacesConstants
<1>5. CopyTarget(s, p, 0)[1] = g
  <2>1. p + (0 \div size) = p
    BY <1>1, <1>2
  <2>2. CopyTarget(s, p, 0)[1] = (g * size + (0 % size) + 0) \div size
    BY <2>1 DEF CopyTarget
  <2> QED BY <1>1, <1>4, <2>2, FirstCell
<1>6. ASSUME NEW f \in Frames, f # g PROVE data'[f] = data[f]
  <2>1. data'[f] = [c \in Cells |-> IF <<f, c>> \in {CopyTarget(s, p, i) : i \in 0 .. n - 1} THEN v ELSE data[f][c]]
    BY DEF OrynCopyToUser
  <2>2. \A c \in Cells, i \in 0 .. n - 1 : <<f, c>> # CopyTarget(s, p, i)
    BY <1>1, <1>5, <1>6
  <2>3. data'[f] = [c \in Cells |-> data[f][c]]
    BY <2>1, <2>2
  <2>4. data[f] \in Content
    BY DEF SpacesInv, Types
  <2> QED BY <2>3, <2>4 DEF Content
<1>7. UNCHANGED <<live, table>>
  BY DEF OrynCopyToUser
<1> QED BY <1>3, <1>6, <1>7, OneFrameWritten

\* The steps that only copy, move or fill frames.
LEMMA StepUndisturbed ==
    ASSUME SpacesConstants, SingleCopies, SpacesInv, SpacesNext
    PROVE  \E u : Undisturbed(u)
<1> SUFFICES ASSUME ~ \E u : Undisturbed(u) PROVE FALSE
  OBVIOUS
<1>0. Types /\ live \subseteq Spaces
  BY DEF SpacesInv, Types, SpacesTypeOK
<1>1. ASSUME UNCHANGED data, UNCHANGED table PROVE FALSE
  BY <1>1, SameData DEF FramesStay
<1>2. ASSUME NEW s \in Spaces, DestroySpace(s) PROVE FALSE
  <2>1. FramesStay
    BY <1>0, <1>2 DEF FramesStay, DestroySpace, Types, SpacesTypeOK
  <2> QED BY <1>2, <2>1, SameData DEF DestroySpace, frameVars
<1>3. ASSUME NEW s \in Spaces, NEW a \in Pages, NEW b \in Pages, NEW r \in Rights, Protect(s, a, b, r[1], r[2])
      PROVE FALSE
  <2>1. FramesStay
    BY <1>0, <1>3 DEF FramesStay, Protect, VmFlagsToEntryFlags, Types, SpacesTypeOK
  <2> QED BY <1>3, <2>1, SameData DEF Protect, frameVars
<1>4. ASSUME NEW s \in Spaces, NEW a \in Pages, NEW b \in Pages, Unmap(s, a, b)
      PROVE FALSE
  <2>1. FramesStay
    BY <1>0, <1>4 DEF FramesStay, Unmap, Present, Types, SpacesTypeOK
  <2> QED BY <1>4, <2>1, SameData DEF Unmap, frameVars
<1>5. ASSUME NEW f \in Frames, MapSegmentPage(f) PROVE FALSE
  <2>1. load.space \in Spaces /\ load.next \in Pages /\ f \in free
    BY <1>0, <1>5, AllocatableFree DEF MapSegmentPage, SpacesInv, Loading
  <2>2. FramesStay
    BY <1>0, <1>5, <2>1 DEF FramesStay, MapSegmentPage, Present, Types, SpacesTypeOK, AddressSpace
  <2>3. \A g \in Frames \ {f} : data'[g] = data[g]
    BY <1>0, <1>5 DEF MapSegmentPage, Types
  <2> QED BY <2>1, <2>2, <2>3, FreshData
<1>6. ASSUME NEW s \in Spaces, NEW a \in Pages, NEW b \in Pages, NEW base \in Allocatable, NEW r \in Rights,
             Map(s, a, b, base, r[1], r[2])
      PROVE  FALSE
  <2> DEFINE used == base .. base + (b - a)
  <2>1. used \in SUBSET free /\ \A p \in a .. b : ~Present(s, p)
    BY <1>6 DEF Map
  <2>2. FramesStay
    BY <1>0, <1>6, <2>1 DEF FramesStay, Map, MapRange, Present, Types, SpacesTypeOK
  <2>3. \A g \in Frames \ used : data'[g] = data[g]
    BY <1>6 DEF Map
  <2> QED BY <2>1, <2>2, <2>3, FreshData
<1>7. ASSUME NEW s \in Spaces, NEW c \in Spaces, CopyOnWriteClone(s, c) PROVE FALSE
  <2>1. \E sharing, nc : table' = [table EXCEPT
            ![s] = [p \in Pages |-> IF p \in sharing THEN Shared(@[p], TRUE) ELSE @[p]], ![c] = nc]
    BY <1>7 DEF CopyOnWriteClone
  <2>2. PICK sharing : \A p \in Pages : table'[s][p] = IF p \in sharing THEN Shared(table[s][p], TRUE) ELSE table[s][p]
    BY <1>0, <1>7, <2>1 DEF CopyOnWriteClone, Types, SpacesTypeOK
  <2>3. \A t \in live \ {s} : table'[t] = table[t]
    BY <1>0, <1>7, <2>1 DEF CopyOnWriteClone, Types, SpacesTypeOK
  <2>4. \A p \in Pages : Shared(table[s][p], TRUE).frame = table[s][p].frame
    BY <1>0, EntryTypes DEF Shared
  <2>5. FramesStay
    BY <1>0, <2>2, <2>3, <2>4 DEF FramesStay
  <2> QED BY <1>7, <2>5, SameData DEF CopyOnWriteClone
<1>8. ASSUME NEW s \in Spaces, NEW p \in Pages, NEW v \in Values, Store(s, p, v) PROVE FALSE
  <2>1. \A f \in Frames : f # table[s][p].frame => data'[f] = data[f]
    BY <1>0, <1>8 DEF Store, Types
  <2> QED BY <1>8, <2>1, OneFrameWritten DEF Store
<1>9. ASSUME NEW v \in Values, Retry(v) PROVE FALSE
  <2>1. pending.space \in live /\ Permitted(pending.space, pending.page, pending.kind)
    BY <1>9 DEF Retry, SpacesInv, Faulting
  <2>2. CASE pending.kind = "write"
    <3>1. \A f \in Frames : f # table[pending.space][pending.page].frame => data'[f] = data[f]
      BY <1>0, <1>9 DEF Retry, Types
    <3> QED BY <1>9, <2>1, <2>2, <3>1, OneFrameWritten DEF Retry, Permitted
  <2>3. CASE pending.kind # "write"
    BY <1>1, <1>9, <2>3 DEF Retry
  <2> QED BY <2>2, <2>3
<1>10. ASSUME NEW f \in Frames, ResolveCopyOnWrite(f) PROVE FALSE
  <2> DEFINE p == pending.page
             old == table[dem][p].frame
  <2>1. dem \in Spaces /\ p \in Pages /\ f \in free
    BY <1>0, <1>10, AllocatableFree DEF ResolveCopyOnWrite, Resolvable, UserFault, Types, SpacesTypeOK, Access
  <2>2. \A t \in Spaces, q \in Pages : table'[t][q] = IF t = dem /\ q = p THEN Resolved(table[dem][p], f) ELSE table[t][q]
    BY <1>0, <1>10, <2>1 DEF ResolveCopyOnWrite, Types, SpacesTypeOK, AddressSpace
  <2>3. data'[f] = data[old] /\ \A g \in Frames \ {f} : data'[g] = data[g]
    BY <1>0, <1>10 DEF ResolveCopyOnWrite, Types
  <2>4. Resolved(table[dem][p], f).frame = f
    BY <1>0, <2>1, EntryTypes DEF Resolved
  <2>5. ASSUME NEW s \in live \cap live', NEW q \in Pages, Present(s, q)
        PROVE  data'[table'[s][q].frame] = data[table[s][q].frame]
    <3>1. s \in Spaces
      BY <1>0
    <3>2. CASE s = dem /\ q = p
      BY <2>1, <2>2, <2>3, <2>4, <3>1, <3>2
    <3>3. CASE ~(s = dem /\ q = p)
      <4>1. table'[s][q] = table[s][q]
        BY <2>2, <3>1, <3>3
      <4>2. table[s][q].frame \in Frames /\ table[s][q].frame # f
        BY <2>1, <2>5, <3>1, Unmapped DEF SpacesInv, Memory
      <4> QED BY <2>3, <4>1, <4>2
    <3> QED BY <3>2, <3>3
  <2>6. Undisturbed(None)
    BY <2>5 DEF Undisturbed, Sees
  <2> QED BY <2>6
<1>11. ASSUME NEW f \in Frames, DemandAllocate(f) PROVE FALSE
  <2>1. dem \in Spaces /\ f \in free /\ ~Present(dem, pending.page)
    BY <1>0, <1>11, AllocatableFree DEF DemandAllocate, Demandable, UserFault, Types, SpacesTypeOK
  <2>2. FramesStay
    BY <1>0, <1>11, <2>1 DEF FramesStay, DemandAllocate, Present, Types, SpacesTypeOK, AddressSpace
  <2>3. \A g \in Frames \ {f} : data'[g] = data[g]
    BY <1>0, <1>11 DEF DemandAllocate, Types
  <2> QED BY <2>1, <2>2, <2>3, FreshData
<1>12. ASSUME NEW s \in Spaces, NEW p \in Pages, NEW n \in 1 .. MaxCopy, NEW v \in Values, OrynCopyToUser(s, p, n, v)
       PROVE  FALSE
  BY <1>12, CopyKeepsOthers
<1>13. CASE \E s \in Spaces : CreateProcessAddressSpace(s) \/ DestroySpace(s)
  BY <1>1, <1>2, <1>13 DEF CreateProcessAddressSpace
<1>14. CASE \E s \in Spaces \cup {None} : SetProcessContext(s) \/ SetDemandAllocator(s)
  BY <1>1, <1>14 DEF SetProcessContext, SetDemandAllocator, frameVars
<1>15. CASE \E s \in Spaces, a, b \in Pages, r \in Rights :
             ReserveMmapRegion(s, a, b, r[1], r[2]) \/ MapSegment(s, a, b, r[1], r[2]) \/ Protect(s, a, b, r[1], r[2])
  BY <1>1, <1>3, <1>15 DEF ReserveMmapRegion, MapSegment, frameVars
<1>16. CASE MapSegmentFails \/ DemandPresent \/ KillProcess \/ PanicWithoutContext
  BY <1>1, <1>16 DEF MapSegmentFails, DemandPresent, KillProcess, PanicWithoutContext, frameVars
<1>17. CASE \E s \in Spaces, p \in Pages \cup {KernelPage}, kind \in Kinds : FaultingAccess(s, p, kind)
  BY <1>1, <1>17 DEF FaultingAccess, frameVars
<1> QED BY <1>4, <1>5, <1>6, <1>7, <1>8, <1>9, <1>10, <1>11, <1>12, <1>13, <1>14, <1>15, <1>16, <1>17
        DEF SpacesNext

\* A step is seen in one address space only, for any number of processes that
\* share pages: stores and repaired faults reach frames nobody else maps
\* (KernelVirtualMemoryCow.c, OrynVirtualMemoryResolveCopyOnWriteFault).
THEOREM OneObserverAlways ==
    ASSUME SpacesConstants, SingleCopies
    PROVE  SpacesSpec => OneObserver
<1> DEFINE A == \A s, t \in live \cap live' : \A p, q \in Pages :
                  (/\ s # t
                   /\ Present(s, p) /\ Present(s, p)' /\ Sees(s, p) # Sees(s, p)'
                   /\ Present(t, q) /\ Present(t, q)')
                  => Sees(t, q) = Sees(t, q)'
<1>1. SpacesInit => SpacesInv
  BY InitKeeps
<1>2. SpacesInv /\ [SpacesNext]_spacesVars => SpacesInv'
  BY StepKeeps, StutterKeeps
<1>3. SpacesInv /\ [SpacesNext]_spacesVars => [A]_spacesVars
  BY StepUndisturbed, UndisturbedObserver
<1> QED BY <1>1, <1>2, <1>3, PTL DEF SpacesSpec, OneObserver

-----------------------------------------------------------------------------
(* Processes and threads: the invariant.                                   *)

ProcessTypes ==
    /\ procs \in [DOMAIN procs -> Proc] /\ DOMAIN procs \subseteq ProcAddresses
    /\ threads \in [DOMAIN threads -> Thread] /\ DOMAIN threads \subseteq ThreadAddresses
    /\ nextId \in [proc : Nat \ {0}, thread : Nat]

\* Numbers are given out once and a parent's is older than its child's.
Numbered ==
    /\ \A p \in DOMAIN procs : /\ procs[p].id > 0 /\ procs[p].id < nextId.proc
                               /\ procs[p].ppid < nextId.proc
    /\ \A p, q \in DOMAIN procs : procs[p].id = procs[q].id => p = q

ThreadsOf(p) == {t \in DOMAIN threads : threads[t].owner = p}

\* The threads of a process are counted, and none has a destroyed owner.
Threaded ==
    /\ \A t \in DOMAIN threads : threads[t].owner \in DOMAIN procs
    /\ \A p \in DOMAIN procs : procs[p].threads = Cardinality(ThreadsOf(p))

Waited ==
    \A c \in DOMAIN procs :
        /\ procs[c].waited => procs[c].exited /\ procs[c].ppid # 0
        /\ procs[c].exited => procs[c].state = "zombie"

ChildrenOf(p) == {c \in DOMAIN procs : procs[c].ppid = procs[p].id}

\* L is all the children of p, once each, and the walk through them ends.
ChildList(L, p) ==
    /\ L \in Seq(DOMAIN procs)
    /\ Chained(L, p) /\ Reached(L, p) = Null
    /\ IsInjective(L) /\ Len(L) = procs[p].kids /\ Range(L) = ChildrenOf(p)

AllListed == \A p \in DOMAIN procs : \E L : ChildList(L, p)

\* The inductive invariant.
ProcessInv ==
    /\ ProcessTypes
    /\ Numbered
    /\ Threaded
    /\ Waited
    /\ AllListed
    /\ EventCountExact

\* Natural numbers are well ordered: a set of them has a least one.
LEMMA LeastNatural ==
    ASSUME NEW T, T \subseteq Nat, T # {}
    PROVE  \E n \in T : \A m \in T : n <= m
<1> DEFINE F == {1 .. n : n \in T}
<1>1. IsWellFoundedOn(StrictSubsetOrdering(Nat), FiniteSubsetsOf(Nat))
  BY FS_StrictSubsetOrderingWellFounded
<1>2. F \subseteq FiniteSubsetsOf(Nat) /\ F # {}
  <2>1. \A n \in T : IsFiniteSet(1 .. n) /\ 1 .. n \subseteq Nat
    BY FS_Interval
  <2> QED BY <2>1 DEF FiniteSubsetsOf
<1>3. PICK x \in F : \A y \in F : <<y, x>> \notin StrictSubsetOrdering(Nat)
  <2> HIDE DEF F
  <2> QED BY <1>1, <1>2, WFMin
<1>4. PICK n \in T : x = 1 .. n
  BY <1>3
<1>5. ASSUME NEW m \in T, m < n PROVE FALSE
  <2>1. 1 .. m \in F
    OBVIOUS
  <2>2. m \in Nat /\ n \in Nat /\ n \in 1 .. n /\ n \notin 1 .. m
    BY <1>5
  <2>3. 1 .. m \subseteq 1 .. n /\ 1 .. m # 1 .. n /\ 1 .. n \in SUBSET Nat /\ 1 .. m \in SUBSET Nat
    BY <1>5, <2>2
  <2>4. <<1 .. m, 1 .. n>> \in StrictSubsetOrdering(Nat)
    BY <2>3 DEF StrictSubsetOrdering
  <2> QED BY <1>3, <1>4, <2>1, <2>4
<1>6. \A m \in T : m \in Nat /\ n \in Nat
  OBVIOUS
<1> QED BY <1>5, <1>6

LEMMA MinLeast ==
    ASSUME NEW T, T \subseteq Nat, T # {}
    PROVE  Min(T) \in T /\ \A m \in T : Min(T) <= m
BY LeastNatural DEF Min

LEMMA FreshAddress ==
    ASSUME NEW used, NEW all, all \subseteq Nat, NEW a, a \in Fresh(used, all)
    PROVE  a \in all \ used
BY MinLeast DEF Fresh

-----------------------------------------------------------------------------
(* The list of children.                                                   *)

\* A list without repetition is no longer than there are addresses.
LEMMA ListShort ==
    ASSUME ProcessConstants, ProcessTypes, NEW L \in Seq(DOMAIN procs), IsInjective(L)
    PROVE  Cardinality(ProcAddresses) \in Nat /\ Len(L) <= Cardinality(ProcAddresses)
<1>1. L \in Injection(1 .. Len(L), ProcAddresses)
  BY DEF ProcessTypes, Injection, IsInjective
<1>2. Cardinality(1 .. Len(L)) <= Cardinality(ProcAddresses)
  BY <1>1, FS_Injection DEF ProcessConstants
<1>3. Cardinality(1 .. Len(L)) = Len(L)
  <2>1. PICK n \in Nat : n = Len(L)
    OBVIOUS
  <2>2. Cardinality(1 .. n) = n
    BY FS_Interval
  <2> QED BY <2>1, <2>2
<1> QED BY <1>2, <1>3, FS_CardinalityType DEF ProcessConstants

LEMMA ChainStep ==
    ASSUME NEW s \in Seq(DOMAIN procs), NEW p, Chained(s, p)
    PROVE  /\ s # <<>> => s[1] = procs[p].first
           /\ \A i, j \in DOMAIN s : j = i + 1 => s[j] = procs[s[i]].next
<1>1. \A i \in DOMAIN s : s[i] = IF i = 1 THEN procs[p].first ELSE procs[s[i - 1]].next
  BY DEF Chained
<1>2. s # <<>> => 1 \in DOMAIN s
  OBVIOUS
<1>3. \A i, j \in DOMAIN s : j = i + 1 => j # 1 /\ j - 1 = i
  OBVIOUS
<1> QED BY <1>1, <1>2, <1>3

\* Two walks along the same links meet the same structures.
LEMMA ChainsAgree ==
    ASSUME NEW s \in Seq(DOMAIN procs), NEW L \in Seq(DOMAIN procs), NEW p, Chained(s, p), Chained(L, p)
    PROVE  \A i \in Nat : i \in DOMAIN s /\ i \in DOMAIN L => s[i] = L[i]
<1> DEFINE T == {i \in Nat : i \in DOMAIN s /\ i \in DOMAIN L /\ s[i] # L[i]}
<1> SUFFICES ASSUME T # {} PROVE FALSE
  OBVIOUS
<1>1. PICK i \in T : \A j \in T : i <= j
  BY LeastNatural
<1>2. i \in Nat /\ i \in DOMAIN s /\ i \in DOMAIN L /\ s[i] # L[i]
  BY <1>1
<1>3. CASE i = 1
  BY <1>2, <1>3, ChainStep
<1>4. CASE i # 1
  <2>1. i - 1 \in Nat /\ i - 1 \in DOMAIN s /\ i - 1 \in DOMAIN L /\ i - 1 < i
    BY <1>2, <1>4
  <2>2. s[i - 1] = L[i - 1]
    BY <1>1, <2>1
  <2>3. i = (i - 1) + 1
    BY <1>2
  <2>4. s[i] = procs[s[i - 1]].next /\ L[i] = procs[L[i - 1]].next
    BY <1>2, <2>1, <2>3, ChainStep
  <2> QED BY <1>2, <2>2, <2>4
<1> QED BY <1>3, <1>4

LEMMA ListedIs ==
    ASSUME ProcessConstants, ProcessTypes, NEW p \in DOMAIN procs, NEW L, ChildList(L, p)
    PROVE  Listed(p) = L
<1> DEFINE N == Cardinality(ProcAddresses)
           Walk(s) == Chained(s, p) /\ (Reached(s, p) \notin DOMAIN procs \/ Len(s) = N)
<1>1. L \in Seq(DOMAIN procs) /\ Chained(L, p) /\ Reached(L, p) = Null /\ IsInjective(L)
  BY DEF ChildList
<1>2. Null \notin DOMAIN procs
  BY DEF ProcessTypes, ProcessConstants
<1>3. N \in Nat /\ Len(L) <= N
  BY <1>1, ListShort
<1>4. L \in BoundedSeq(DOMAIN procs, N) /\ Walk(L)
  BY <1>1, <1>2, <1>3, SeqBounded
<1>5. ASSUME NEW s \in BoundedSeq(DOMAIN procs, N), Walk(s) PROVE s = L
  <2>1. s \in Seq(DOMAIN procs) /\ Len(s) <= N
    BY <1>3, SeqBounded
  <2>2. \A i \in Nat : i \in DOMAIN s /\ i \in DOMAIN L => s[i] = L[i]
    BY <1>1, <1>5, <2>1, ChainsAgree
  <2>3. CASE Len(s) < Len(L)
    <3>1. Reached(s, p) = L[Len(s) + 1]
      <4>1. CASE s = <<>>
        BY <1>1, <2>1, <2>3, <4>1, ChainStep DEF Reached
      <4>2. CASE s # <<>>
        <5>1. Len(s) \in DOMAIN s /\ Len(s) \in DOMAIN L /\ Len(s) + 1 \in DOMAIN L /\ Len(s) \in Nat
          BY <1>1, <2>1, <2>3, <4>2
        <5>2. s[Len(s)] = L[Len(s)]
          BY <2>2, <5>1
        <5>3. L[Len(s) + 1] = procs[L[Len(s)]].next
          BY <1>1, <5>1, ChainStep
        <5> QED BY <4>2, <5>2, <5>3 DEF Reached
      <4> QED BY <4>1, <4>2
    <3>2. L[Len(s) + 1] \in DOMAIN procs
      BY <1>1, <2>1, <2>3
    <3> QED BY <1>1, <1>3, <1>5, <2>1, <2>3, <3>1, <3>2
  <2>4. CASE Len(s) > Len(L)
    <3>1. Reached(L, p) = s[Len(L) + 1]
      <4>1. CASE L = <<>>
        <5>1. s # <<>> /\ Len(L) + 1 = 1
          BY <2>1, <2>4, <4>1
        <5> QED BY <1>5, <2>1, <4>1, <5>1, ChainStep DEF Reached
      <4>2. CASE L # <<>>
        <5>1. Len(L) \in DOMAIN s /\ Len(L) \in DOMAIN L /\ Len(L) + 1 \in DOMAIN s /\ Len(L) \in Nat
          BY <1>1, <2>1, <2>4, <4>2
        <5>2. s[Len(L)] = L[Len(L)]
          BY <2>2, <5>1
        <5>3. s[Len(L) + 1] = procs[s[Len(L)]].next
          BY <1>5, <2>1, <5>1, ChainStep
        <5> QED BY <4>2, <5>2, <5>3 DEF Reached
      <4> QED BY <4>1, <4>2
    <3>2. s[Len(L) + 1] \in DOMAIN procs
      BY <1>1, <2>1, <2>4
    <3> QED BY <1>1, <1>2, <3>1, <3>2
  <2>5. CASE Len(s) = Len(L)
    BY <1>1, <2>1, <2>2, <2>5
  <2> QED BY <1>1, <2>1, <2>3, <2>4, <2>5
<1>6. Listed(p) = CHOOSE s \in BoundedSeq(DOMAIN procs, N) : Walk(s)
  BY DEF Listed
<1> HIDE DEF Walk, N
<1> QED BY <1>4, <1>5, <1>6

\* What a process's list depends on.
LEMMA ListKept ==
    ASSUME ProcessTypes, NEW p \in DOMAIN procs, NEW L, ChildList(L, p), p \in DOMAIN procs',
           procs'[p].first = procs[p].first, procs'[p].kids = procs[p].kids,
           ChildrenOf(p)' = ChildrenOf(p),
           \A c \in ChildrenOf(p) : c \in DOMAIN procs' /\ procs'[c].next = procs[c].next
    PROVE  ChildList(L, p)'
<1>1. /\ L \in Seq(DOMAIN procs) /\ Chained(L, p) /\ Reached(L, p) = Null
      /\ IsInjective(L) /\ Len(L) = procs[p].kids /\ Range(L) = ChildrenOf(p)
  BY DEF ChildList
<1>2. \A i \in DOMAIN L : L[i] \in DOMAIN procs' /\ procs'[L[i]].next = procs[L[i]].next
  BY <1>1 DEF Range
<1>3. L \in Seq(DOMAIN procs')
  BY <1>1, <1>2
<1>4. Chained(L, p)'
  <2>1. \A i \in DOMAIN L : L[i] = IF i = 1 THEN procs[p].first ELSE procs[L[i - 1]].next
    BY <1>1 DEF Chained
  <2>2. \A i \in DOMAIN L : i # 1 => i - 1 \in DOMAIN L
    BY <1>1
  <2> QED BY <1>2, <2>1, <2>2 DEF Chained
<1>5. Reached(L, p)' = Null
  <2>1. L # <<>> => Len(L) \in DOMAIN L
    BY <1>1
  <2> QED BY <1>1, <1>2, <2>1 DEF Reached
<1> QED BY <1>1, <1>3, <1>4, <1>5 DEF ChildList

\* A step that keeps the processes, their numbers and their links.
LEMMA LinksKept ==
    ASSUME ProcessTypes, Numbered, AllListed, DOMAIN procs' = DOMAIN procs, nextId'.proc = nextId.proc,
           \A p \in DOMAIN procs : /\ procs'[p].id = procs[p].id /\ procs'[p].ppid = procs[p].ppid
                                   /\ procs'[p].first = procs[p].first /\ procs'[p].next = procs[p].next
                                   /\ procs'[p].kids = procs[p].kids
    PROVE  Numbered' /\ AllListed'
<1>1. Numbered'
  BY DEF Numbered
<1>2. ASSUME NEW p \in DOMAIN procs' PROVE \E L : ChildList(L, p)'
  <2>1. PICK L : ChildList(L, p)
    BY DEF AllListed
  <2>2. ChildrenOf(p)' = ChildrenOf(p)
    BY DEF ChildrenOf
  <2>3. ChildrenOf(p) \subseteq DOMAIN procs
    BY DEF ChildrenOf
  <2>4. ChildList(L, p)'
    BY <2>1, <2>2, <2>3, ListKept
  <2> QED BY <2>4
<1> QED BY <1>1, <1>2 DEF AllListed

\* A step that changes no process and keeps the threads and their owners.
LEMMA OnlyThreads ==
    ASSUME ProcessInv, UNCHANGED <<procs, nextId>>, threads' \in [DOMAIN threads -> Thread],
           \A t \in DOMAIN threads : /\ threads'[t].owner = threads[t].owner
                                     /\ threads'[t].events.pending = Cardinality(UsedSlots(threads'[t].events))
    PROVE  ProcessInv'
<1> USE DEF ProcessInv
<1>1. ProcessTypes'
  BY DEF ProcessTypes
<1>2. Numbered' /\ AllListed'
  BY LinksKept
<1>3. Threaded'
  <2>1. \A p \in DOMAIN procs : ThreadsOf(p)' = ThreadsOf(p)
    BY DEF ThreadsOf
  <2> QED BY <2>1 DEF Threaded
<1>4. Waited'
  BY DEF Waited
<1>5. EventCountExact'
  BY DEF EventCountExact, UsedSlots, UnusedSlots
<1> QED BY <1>1, <1>2, <1>3, <1>4, <1>5

\* A step that changes one process, but not its number, its links or its threads.
LEMMA OneProcess ==
    ASSUME ProcessInv, UNCHANGED <<threads, nextId>>, NEW p \in DOMAIN procs, NEW new \in Proc,
           procs' = [procs EXCEPT ![p] = new],
           new.id = procs[p].id, new.ppid = procs[p].ppid, new.first = procs[p].first,
           new.next = procs[p].next, new.kids = procs[p].kids, new.threads = procs[p].threads,
           new.waited => new.exited /\ new.ppid # 0, new.exited => new.state = "zombie",
           new.events.pending = Cardinality(UsedSlots(new.events))
    PROVE  ProcessInv'
<1> USE DEF ProcessInv
<1>1. /\ DOMAIN procs' = DOMAIN procs /\ procs' \in [DOMAIN procs -> Proc]
      /\ procs'[p] = new /\ \A q \in DOMAIN procs : q # p => procs'[q] = procs[q]
  BY DEF ProcessTypes
<1>2. ProcessTypes'
  BY <1>1 DEF ProcessTypes
<1>3. Numbered' /\ AllListed'
  BY <1>1, LinksKept
<1>4. Threaded'
  BY <1>1 DEF Threaded, ThreadsOf
<1>5. Waited'
  BY <1>1 DEF Waited
<1>6. EventCountExact'
  <2>1. \A q \in DOMAIN procs' : procs'[q].events.pending = Cardinality(UsedSlots(procs'[q].events))
    BY <1>1 DEF EventCountExact
  <2>2. \A t \in DOMAIN threads' : threads'[t].events.pending = Cardinality(UsedSlots(threads'[t].events))
    BY DEF EventCountExact
  <2> QED BY <2>1, <2>2 DEF EventCountExact
<1> QED BY <1>2, <1>3, <1>4, <1>5, <1>6

-----------------------------------------------------------------------------
(* Processes: the steps.                                                   *)

LEMMA EventQueued ==
    ASSUME ProcessConstants, NEW q \in EventQueue, q.pending = Cardinality(UsedSlots(q)),
           Accepts(q), NEW e \in Events
    PROVE  Queued(q, e) \in EventQueue /\ Queued(q, e).pending = Cardinality(UsedSlots(Queued(q, e)))
<1> DEFINE i == Min(UnusedSlots(q))
           new == [q.slots EXCEPT ![i] = e]
<1>1. UnusedSlots(q) \subseteq Nat /\ UnusedSlots(q) # {}
  BY DEF UnusedSlots, Accepts
<1>2. i \in UnusedSlots(q)
  BY <1>1, MinLeast
<1> HIDE DEF i
<1>3. i \in 1 .. EventLimit /\ q.slots[i] = 0
  BY <1>2 DEF UnusedSlots
<1>4. q.slots \in [1 .. EventLimit -> Events \cup {0}] /\ q.pending \in 0 .. EventLimit /\ EventLimit \in Nat
      /\ q.pending < EventLimit
  BY DEF EventQueue, ProcessConstants, Accepts
<1>5. e # 0
  BY DEF ProcessConstants
<1>6. new \in [1 .. EventLimit -> Events \cup {0}]
  BY <1>3, <1>4
<1>7. \A j \in 1 .. EventLimit : new[j] = 0 <=> q.slots[j] = 0 /\ j # i
  BY <1>3, <1>4, <1>5
<1> HIDE DEF new
<1>8. Queued(q, e) = [slots |-> new, pending |-> q.pending + 1]
  BY DEF Queued, new, i
<1>9. UsedSlots(Queued(q, e)) = UsedSlots(q) \cup {i} /\ i \notin UsedSlots(q)
  BY <1>3, <1>7, <1>8 DEF UsedSlots, UnusedSlots
<1>10. IsFiniteSet(UsedSlots(q))
  <2>1. IsFiniteSet(1 .. EventLimit)
    BY <1>4, FS_Interval
  <2> QED BY <2>1, FS_Subset DEF UsedSlots
<1>11. Cardinality(UsedSlots(q) \cup {i}) = Cardinality(UsedSlots(q)) + 1
  BY <1>9, <1>10, FS_AddElement
<1>12. Queued(q, e).pending = Cardinality(UsedSlots(Queued(q, e)))
  BY <1>8, <1>9, <1>11
<1>13. Queued(q, e) \in EventQueue
  BY <1>4, <1>6, <1>8 DEF EventQueue
<1> QED BY <1>12, <1>13

LEMMA EventReceived ==
    ASSUME ProcessConstants, NEW q \in EventQueue, q.pending = Cardinality(UsedSlots(q)),
           UsedSlots(q) # {}
    PROVE  Received(q) \in EventQueue /\ Received(q).pending = Cardinality(UsedSlots(Received(q)))
<1> DEFINE i == Min(UsedSlots(q))
           new == [q.slots EXCEPT ![i] = 0]
<1>1. UsedSlots(q) \subseteq Nat
  BY DEF UsedSlots
<1>2. i \in UsedSlots(q)
  BY <1>1, MinLeast
<1> HIDE DEF i
<1>3. i \in 1 .. EventLimit
  BY <1>2 DEF UsedSlots
<1>4. q.slots \in [1 .. EventLimit -> Events \cup {0}] /\ q.pending \in 0 .. EventLimit /\ EventLimit \in Nat
  BY DEF EventQueue, ProcessConstants
<1>6. new \in [1 .. EventLimit -> Events \cup {0}]
  BY <1>3, <1>4
<1>7. \A j \in 1 .. EventLimit : new[j] = 0 <=> q.slots[j] = 0 \/ j = i
  BY <1>3, <1>4
<1> HIDE DEF new
<1>8. Received(q) = [slots |-> new, pending |-> q.pending - 1]
  BY DEF Received, new, i
<1>9. UsedSlots(Received(q)) = UsedSlots(q) \ {i}
  BY <1>3, <1>7, <1>8 DEF UsedSlots, UnusedSlots
<1>10. IsFiniteSet(UsedSlots(q))
  <2>1. IsFiniteSet(1 .. EventLimit)
    BY <1>4, FS_Interval
  <2> QED BY <2>1, FS_Subset DEF UsedSlots
<1>11. Cardinality(UsedSlots(q) \ {i}) = Cardinality(UsedSlots(q)) - 1 /\ Cardinality(UsedSlots(q) \ {i}) \in Nat
  BY <1>2, <1>10, FS_RemoveElement, FS_CardinalityType
<1>12. Received(q).pending = Cardinality(UsedSlots(Received(q)))
  <2>1. Received(q).pending = q.pending - 1
    BY <1>8
  <2>2. Cardinality(UsedSlots(Received(q))) = Cardinality(UsedSlots(q)) - 1
    BY <1>9, <1>11
  <2> QED BY <2>1, <2>2
<1>13. Received(q) \in EventQueue
  BY <1>4, <1>6, <1>8, <1>11 DEF EventQueue
<1> QED BY <1>12, <1>13

LEMMA FieldChanges ==
    ASSUME ProcessConstants, ProcessInv, NEW p \in DOMAIN procs,
           \/ UserProcessFromProcess(p)
           \/ \E s \in Statuses : ProcessExit(p, s)
           \/ \E e \in Events : ProcessSendEvent(p, e)
    PROVE  ProcessInv'
<1> USE DEF ProcessInv
<1>1. procs[p] \in Proc /\ (procs[p].waited => procs[p].exited /\ procs[p].ppid # 0)
      /\ (procs[p].exited => procs[p].state = "zombie")
      /\ procs[p].events.pending = Cardinality(UsedSlots(procs[p].events))
  BY DEF ProcessTypes, Waited, EventCountExact
<1>2. CASE UserProcessFromProcess(p)
  <2> DEFINE new == [procs[p] EXCEPT !.user = TRUE]
  <2>1. procs' = [procs EXCEPT ![p] = new] /\ UNCHANGED <<threads, nextId>>
    BY <1>2 DEF UserProcessFromProcess
  <2>2. new \in Proc /\ new.id = procs[p].id /\ new.ppid = procs[p].ppid /\ new.first = procs[p].first
        /\ new.next = procs[p].next /\ new.kids = procs[p].kids /\ new.threads = procs[p].threads
        /\ new.waited = procs[p].waited /\ new.exited = procs[p].exited /\ new.state = procs[p].state
        /\ new.events = procs[p].events
    BY <1>1 DEF Proc
  <2> HIDE DEF new
  <2> QED BY <1>1, <2>1, <2>2, OneProcess
<1>3. ASSUME NEW s \in Statuses, ProcessExit(p, s) PROVE ProcessInv'
  <2> DEFINE new == [procs[p] EXCEPT !.status = s, !.exited = TRUE, !.state = "zombie"]
  <2>1. procs' = [procs EXCEPT ![p] = new] /\ UNCHANGED <<threads, nextId>>
    BY <1>3 DEF ProcessExit, ProcessTypes
  <2>2. new \in Proc /\ new.id = procs[p].id /\ new.ppid = procs[p].ppid /\ new.first = procs[p].first
        /\ new.next = procs[p].next /\ new.kids = procs[p].kids /\ new.threads = procs[p].threads
        /\ new.waited = procs[p].waited /\ new.exited /\ new.state = "zombie"
        /\ new.events = procs[p].events
    BY <1>1 DEF Proc
  <2> HIDE DEF new
  <2> QED BY <1>1, <2>1, <2>2, OneProcess
<1>4. ASSUME NEW e \in Events, ProcessSendEvent(p, e) PROVE ProcessInv'
  <2>1. Accepts(procs[p].events) /\ procs[p].events \in EventQueue
    BY <1>1, <1>4 DEF ProcessSendEvent, Proc
  <2>2. PICK q : q = Queued(procs[p].events, e)
    OBVIOUS
  <2>3. q \in EventQueue /\ q.pending = Cardinality(UsedSlots(q))
    BY <1>1, <2>1, <2>2, EventQueued
  <2> DEFINE new == [procs[p] EXCEPT !.events = q]
  <2>4. procs' = [procs EXCEPT ![p] = new] /\ UNCHANGED <<threads, nextId>>
    BY <1>4, <2>2 DEF ProcessSendEvent
  <2>5. new \in Proc /\ new.id = procs[p].id /\ new.ppid = procs[p].ppid /\ new.first = procs[p].first
        /\ new.next = procs[p].next /\ new.kids = procs[p].kids /\ new.threads = procs[p].threads
        /\ new.waited = procs[p].waited /\ new.exited = procs[p].exited /\ new.state = procs[p].state
        /\ new.events = q
    BY <1>1, <2>3 DEF Proc
  <2> HIDE DEF new
  <2> QED BY <1>1, <2>3, <2>4, <2>5, OneProcess
<1> QED BY <1>2, <1>3, <1>4

\* Whoever is waited for is in the list, and so a child.
LEMMA ProcessWaitKeeps ==
    ASSUME ProcessConstants, ProcessInv, NEW p \in DOMAIN procs, NEW id, ProcessWait(p, id)
    PROVE  ProcessInv'
<1> USE DEF ProcessInv
<1>1. PICK L : ChildList(L, p)
  BY DEF AllListed
<1>2. Listed(p) = L
  BY <1>1, ListedIs
<1>3. PICK i : i = Min(Matching(p, id))
  OBVIOUS
<1>4. i \in Matching(p, id)
  <2>1. Matching(p, id) \subseteq Nat /\ Matching(p, id) # {}
    BY <1>1, <1>2 DEF Matching, ProcessWait, ChildList
  <2> QED BY <1>3, <2>1, MinLeast
<1>5. PICK c : c = L[i]
  OBVIOUS
<1>6. c \in ChildrenOf(p) /\ procs[c].exited
  BY <1>1, <1>2, <1>4, <1>5 DEF Matching, ChildList, Range
<1>7. c \in DOMAIN procs /\ procs[c].ppid # 0 /\ procs[c] \in Proc
  BY <1>6 DEF ChildrenOf, Numbered, ProcessTypes
<1> DEFINE new == [procs[c] EXCEPT !.waited = TRUE]
<1>8. procs' = [procs EXCEPT ![c] = new] /\ UNCHANGED <<threads, nextId>>
  BY <1>2, <1>3, <1>5 DEF ProcessWait
<1>9. new \in Proc /\ new.id = procs[c].id /\ new.ppid = procs[c].ppid /\ new.first = procs[c].first
      /\ new.next = procs[c].next /\ new.kids = procs[c].kids /\ new.threads = procs[c].threads
      /\ new.exited = procs[c].exited /\ new.state = procs[c].state
      /\ new.events = procs[c].events
  BY <1>7 DEF Proc
<1>10. procs[c].state = "zombie" /\ procs[c].events.pending = Cardinality(UsedSlots(procs[c].events))
  BY <1>6, <1>7 DEF Waited, EventCountExact
<1> HIDE DEF new
<1> QED BY <1>6, <1>7, <1>8, <1>9, <1>10, OneProcess

LEMMA ThreadFieldChanges ==
    ASSUME ProcessConstants, ProcessInv, NEW t \in DOMAIN threads,
           \/ ThreadExit(t) \/ ThreadStop(t) \/ ThreadReceiveEvent(t)
           \/ \E e \in Events : ThreadSendEvent(t, e)
           \/ \E u \in DOMAIN threads : ContextSwitch(t, u)
    PROVE  ProcessInv'
<1> USE DEF ProcessInv
<1>1. UNCHANGED <<procs, nextId>>
  BY DEF ThreadExit, ThreadStop, ThreadReceiveEvent, ThreadSendEvent, ContextSwitch
<1>2. threads \in [DOMAIN threads -> Thread] /\ threads[t] \in Thread
      /\ \A u \in DOMAIN threads : threads[u].events.pending = Cardinality(UsedSlots(threads[u].events))
  BY DEF ProcessTypes, EventCountExact
<1>3. ASSUME NEW new \in Thread, threads' = [threads EXCEPT ![t] = new], new.owner = threads[t].owner,
             new.events.pending = Cardinality(UsedSlots(new.events))
      PROVE  ProcessInv'
  BY <1>1, <1>2, <1>3, OnlyThreads
<1>4. CASE ThreadExit(t)
  <2> DEFINE new == [threads[t] EXCEPT !.state = "zombie", !.ready = FALSE]
  <2>1. threads' = [threads EXCEPT ![t] = new]
    BY <1>2, <1>4 DEF ThreadExit
  <2>2. new \in Thread /\ new.owner = threads[t].owner /\ new.events = threads[t].events
    BY <1>2 DEF Thread
  <2> HIDE DEF new
  <2> QED BY <1>2, <1>3, <2>1, <2>2
<1>5. CASE ThreadStop(t)
  <2> DEFINE new == [threads[t] EXCEPT !.state = "stopped", !.ready = FALSE]
  <2>1. threads' = [threads EXCEPT ![t] = new]
    BY <1>2, <1>5 DEF ThreadStop
  <2>2. new \in Thread /\ new.owner = threads[t].owner /\ new.events = threads[t].events
    BY <1>2 DEF Thread
  <2> HIDE DEF new
  <2> QED BY <1>2, <1>3, <2>1, <2>2
<1>6. ASSUME NEW q \in EventQueue, q.pending = Cardinality(UsedSlots(q)),
             threads' = [threads EXCEPT ![t] = [threads[t] EXCEPT !.events = q]]
      PROVE  ProcessInv'
  <2> DEFINE new == [threads[t] EXCEPT !.events = q]
  <2>1. new \in Thread /\ new.owner = threads[t].owner /\ new.events = q
    BY <1>2 DEF Thread
  <2>2. threads' = [threads EXCEPT ![t] = new]
    BY <1>6
  <2> HIDE DEF new
  <2> QED BY <1>3, <1>6, <2>1, <2>2
<1>7. threads[t].events \in EventQueue
  BY <1>2 DEF Thread
<1>8. CASE ThreadReceiveEvent(t)
  <2>1. UsedSlots(threads[t].events) # {} /\ threads' = [threads EXCEPT ![t].events = Received(@)]
    BY <1>8 DEF ThreadReceiveEvent
  <2>2. PICK q : q = Received(threads[t].events)
    OBVIOUS
  <2>3. q \in EventQueue /\ q.pending = Cardinality(UsedSlots(q))
    BY <1>2, <1>7, <2>1, <2>2, EventReceived
  <2>4. threads' = [threads EXCEPT ![t] = [threads[t] EXCEPT !.events = q]]
    BY <2>1, <2>2
  <2> QED BY <1>6, <2>3, <2>4
<1>9. ASSUME NEW e \in Events, ThreadSendEvent(t, e) PROVE ProcessInv'
  <2>1. Accepts(threads[t].events) /\ threads' = [threads EXCEPT ![t].events = Queued(@, e)]
    BY <1>9 DEF ThreadSendEvent
  <2>2. PICK q : q = Queued(threads[t].events, e)
    OBVIOUS
  <2>3. q \in EventQueue /\ q.pending = Cardinality(UsedSlots(q))
    BY <1>2, <1>7, <2>1, <2>2, EventQueued
  <2>4. threads' = [threads EXCEPT ![t] = [threads[t] EXCEPT !.events = q]]
    BY <2>1, <2>2
  <2> QED BY <1>6, <2>3, <2>4
<1>10. ASSUME NEW u \in DOMAIN threads, ContextSwitch(t, u) PROVE ProcessInv'
  <2> DEFINE new == [threads[t] EXCEPT !.cr3 = threads[u].cr3]
  <2>1. threads' = [threads EXCEPT ![t] = new]
    BY <1>2, <1>10 DEF ContextSwitch
  <2>2. threads[u] \in Thread
    BY <1>2
  <2>3. new \in Thread /\ new.owner = threads[t].owner /\ new.events = threads[t].events
    BY <1>2, <2>2 DEF Thread
  <2> HIDE DEF new
  <2> QED BY <1>2, <1>3, <2>1, <2>3
<1> QED BY <1>4, <1>5, <1>8, <1>9, <1>10

LEMMA ThreadsFinite ==
    ASSUME ProcessConstants, DOMAIN threads \subseteq ThreadAddresses, NEW p
    PROVE  IsFiniteSet(ThreadsOf(p)) /\ Cardinality(ThreadsOf(p)) \in Nat
<1>1. ThreadsOf(p) \in SUBSET ThreadAddresses
  BY DEF ThreadsOf
<1> QED BY <1>1, FS_Subset, FS_CardinalityType DEF ProcessConstants

LEMMA NoEventsEmpty ==
    ASSUME ProcessConstants
    PROVE  NoEvents \in EventQueue /\ NoEvents.pending = Cardinality(UsedSlots(NoEvents))
<1>1. UsedSlots(NoEvents) = {}
  BY DEF UsedSlots, UnusedSlots, NoEvents
<1>2. NoEvents \in EventQueue /\ NoEvents.pending = 0
  BY DEF NoEvents, EventQueue, ProcessConstants
<1> QED BY <1>1, <1>2, FS_EmptySet

\* A step that changes the threads of one process and their count.
LEMMA OneOwner ==
    ASSUME ProcessInv, NEW o \in DOMAIN procs, NEW n \in Nat,
           procs' = [procs EXCEPT ![o] = [procs[o] EXCEPT !.threads = n]],
           nextId' \in [proc : Nat \ {0}, thread : Nat], nextId'.proc = nextId.proc,
           threads' \in [DOMAIN threads' -> Thread], DOMAIN threads' \subseteq ThreadAddresses,
           \A t \in DOMAIN threads' : /\ threads'[t].owner \in DOMAIN procs
                                      /\ threads'[t].events.pending = Cardinality(UsedSlots(threads'[t].events)),
           n = Cardinality(ThreadsOf(o)'),
           \A p \in DOMAIN procs : p # o => ThreadsOf(p)' = ThreadsOf(p)
    PROVE  ProcessInv'
<1> USE DEF ProcessInv
<1> DEFINE new == [procs[o] EXCEPT !.threads = n]
<1>1. procs[o] \in Proc /\ procs \in [DOMAIN procs -> Proc]
  BY DEF ProcessTypes
<1>2. new \in Proc /\ new.id = procs[o].id /\ new.ppid = procs[o].ppid /\ new.first = procs[o].first
      /\ new.next = procs[o].next /\ new.kids = procs[o].kids /\ new.threads = n
      /\ new.waited = procs[o].waited /\ new.exited = procs[o].exited /\ new.state = procs[o].state
      /\ new.events = procs[o].events
  BY <1>1 DEF Proc
<1>3. procs' = [procs EXCEPT ![o] = new]
  OBVIOUS
<1> HIDE DEF new
<1>4. /\ DOMAIN procs' = DOMAIN procs /\ procs' \in [DOMAIN procs -> Proc]
      /\ procs'[o] = new /\ \A q \in DOMAIN procs : q # o => procs'[q] = procs[q]
  BY <1>1, <1>2, <1>3
<1>5. ProcessTypes'
  BY <1>4 DEF ProcessTypes
<1>6. Numbered' /\ AllListed'
  BY <1>2, <1>4, LinksKept
<1>7. Threaded'
  BY <1>2, <1>4 DEF Threaded
<1>8. Waited'
  BY <1>2, <1>4 DEF Waited
<1>9. EventCountExact'
  <2>1. \A q \in DOMAIN procs' : procs'[q].events.pending = Cardinality(UsedSlots(procs'[q].events))
    BY <1>2, <1>4 DEF EventCountExact
  <2> QED BY <2>1 DEF EventCountExact
<1> QED BY <1>5, <1>6, <1>7, <1>8, <1>9

LEMMA ThreadCreateKeeps ==
    ASSUME ProcessConstants, ProcessInv, NEW t \in ThreadAddresses, NEW p \in DOMAIN procs,
           NEW user \in BOOLEAN, ThreadCreate(t, p, user)
    PROVE  ProcessInv'
<1> USE DEF ProcessInv
<1> DEFINE new == [id |-> nextId.thread, owner |-> p, state |-> "ready", ready |-> TRUE,
                   user |-> user, cr3 |-> procs[p].id, events |-> NoEvents]
<1>1. t \notin DOMAIN threads
  BY FreshAddress DEF ThreadCreate, ProcessConstants
<1>2. procs[p] \in Proc /\ procs[p].threads \in Nat /\ procs[p].id \in Nat /\ p \in ProcAddresses
      /\ nextId \in [proc : Nat \ {0}, thread : Nat] /\ threads \in [DOMAIN threads -> Thread]
      /\ DOMAIN threads \subseteq ThreadAddresses
  BY DEF ProcessTypes, Proc
<1>3. new \in Thread /\ new.owner = p /\ new.events = NoEvents
  BY <1>2, NoEventsEmpty DEF Thread
<1>4. threads' = Extended(threads, t, new)
  BY DEF ThreadCreate
<1> HIDE DEF new
<1>5. /\ DOMAIN threads' = DOMAIN threads \cup {t} /\ threads' \in [DOMAIN threads' -> Thread]
      /\ threads'[t] = new /\ \A u \in DOMAIN threads : threads'[u] = threads[u]
  BY <1>1, <1>2, <1>3, <1>4 DEF Extended
<1>6. \A u \in DOMAIN threads' : /\ threads'[u].owner \in DOMAIN procs
                                 /\ threads'[u].events.pending = Cardinality(UsedSlots(threads'[u].events))
  BY <1>3, <1>5, NoEventsEmpty DEF Threaded, EventCountExact
<1>7. ThreadsOf(p)' = ThreadsOf(p) \cup {t} /\ t \notin ThreadsOf(p)
  BY <1>1, <1>3, <1>5 DEF ThreadsOf
<1>8. \A q \in DOMAIN procs : q # p => ThreadsOf(q)' = ThreadsOf(q)
  BY <1>1, <1>3, <1>5 DEF ThreadsOf
<1>9. procs[p].threads + 1 = Cardinality(ThreadsOf(p)')
  <2>1. Cardinality(ThreadsOf(p) \cup {t}) = Cardinality(ThreadsOf(p)) + 1
    BY <1>2, <1>7, ThreadsFinite, FS_AddElement
  <2> QED BY <1>7, <2>1 DEF Threaded
<1>10. procs' = [procs EXCEPT ![p] = [procs[p] EXCEPT !.threads = procs[p].threads + 1]]
       /\ nextId' \in [proc : Nat \ {0}, thread : Nat] /\ nextId'.proc = nextId.proc
  BY <1>2 DEF ThreadCreate
<1>11. DOMAIN threads' \subseteq ThreadAddresses /\ procs[p].threads + 1 \in Nat
  BY <1>2, <1>5
<1> QED BY <1>5, <1>6, <1>8, <1>9, <1>10, <1>11, OneOwner

LEMMA ThreadDestroyKeeps ==
    ASSUME ProcessConstants, ProcessInv, NEW t \in DOMAIN threads, ThreadDestroy(t)
    PROVE  ProcessInv'
<1> USE DEF ProcessInv
<1>1. PICK o : o = threads[t].owner
  OBVIOUS
<1>2. o \in DOMAIN procs /\ procs[o].threads = Cardinality(ThreadsOf(o)) /\ t \in ThreadsOf(o)
  BY <1>1 DEF Threaded, ThreadsOf
<1>3. threads \in [DOMAIN threads -> Thread] /\ DOMAIN threads \subseteq ThreadAddresses
      /\ nextId \in [proc : Nat \ {0}, thread : Nat]
  BY DEF ProcessTypes
<1>4. threads' = [u \in DOMAIN threads \ {t} |-> threads[u]] /\ nextId' = nextId
  BY DEF ThreadDestroy, Restrict
<1>5. ThreadsOf(o)' = ThreadsOf(o) \ {t} /\ \A q \in DOMAIN procs : q # o => ThreadsOf(q)' = ThreadsOf(q)
  BY <1>1, <1>4 DEF ThreadsOf
<1>6. /\ IsFiniteSet(ThreadsOf(o)) /\ Cardinality(ThreadsOf(o)) \in Nat /\ Cardinality(ThreadsOf(o)) # 0
      /\ Cardinality(ThreadsOf(o) \ {t}) = Cardinality(ThreadsOf(o)) - 1
  BY <1>2, <1>3, ThreadsFinite, FS_RemoveElement, FS_EmptySet
<1>7. PICK n \in Nat : n = procs[o].threads - 1 /\ n = Cardinality(ThreadsOf(o)')
  BY <1>2, <1>5, <1>6
<1>8. procs' = [procs EXCEPT ![o] = [procs[o] EXCEPT !.threads = n]]
  BY <1>1, <1>2, <1>6, <1>7 DEF ThreadDestroy
<1>9. /\ threads' \in [DOMAIN threads' -> Thread] /\ DOMAIN threads' \subseteq ThreadAddresses
      /\ \A u \in DOMAIN threads' : /\ threads'[u].owner \in DOMAIN procs
                                    /\ threads'[u].events.pending = Cardinality(UsedSlots(threads'[u].events))
  BY <1>3, <1>4 DEF Threaded, EventCountExact
<1> QED BY <1>2, <1>3, <1>4, <1>5, <1>7, <1>8, <1>9, OneOwner

LEMMA NewProcessType ==
    ASSUME ProcessConstants, NEW id \in Nat, NEW ppid \in Nat, NEW state \in {"created", "ready"}, NEW user \in BOOLEAN
    PROVE  /\ NewProcess(id, ppid, state, user) \in Proc
           /\ NewProcess(id, ppid, state, user).id = id /\ NewProcess(id, ppid, state, user).ppid = ppid
           /\ NewProcess(id, ppid, state, user).threads = 0
           /\ ~NewProcess(id, ppid, state, user).waited /\ ~NewProcess(id, ppid, state, user).exited
           /\ NewProcess(id, ppid, state, user).first = Null /\ NewProcess(id, ppid, state, user).kids = 0
           /\ NewProcess(id, ppid, state, user).events = NoEvents
BY NoEventsEmpty DEF NewProcess, Proc, Null

\* A step that makes process a, whose number is new, and changes at most the list
\* of one other.
LEMMA ProcessMade ==
    ASSUME ProcessConstants, ProcessInv, NEW a \in ProcAddresses \ DOMAIN procs, NEW new \in Proc,
           UNCHANGED threads, nextId' = [nextId EXCEPT !.proc = @ + 1],
           procs' \in [DOMAIN procs \cup {a} -> Proc], procs'[a] = new,
           new.id = nextId.proc, new.ppid < nextId.proc, new.threads = 0, ~new.waited, ~new.exited,
           new.first = Null, new.kids = 0, new.events = NoEvents,
           \A p \in DOMAIN procs : /\ procs'[p].id = procs[p].id /\ procs'[p].ppid = procs[p].ppid
                                   /\ procs'[p].next = procs[p].next /\ procs'[p].threads = procs[p].threads
                                   /\ procs'[p].waited = procs[p].waited /\ procs'[p].exited = procs[p].exited
                                   /\ procs'[p].state = procs[p].state /\ procs'[p].events = procs[p].events,
           \A p \in DOMAIN procs : \/ /\ procs'[p].first = procs[p].first /\ procs'[p].kids = procs[p].kids
                                      /\ new.ppid # procs[p].id
                                   \/ \E L : ChildList(L, p)'
    PROVE  ProcessInv'
<1> USE DEF ProcessInv
<1>1. DOMAIN procs' = DOMAIN procs \cup {a} /\ a \notin DOMAIN procs /\ nextId.proc \in Nat \ {0}
      /\ nextId' \in [proc : Nat \ {0}, thread : Nat] /\ nextId'.proc = nextId.proc + 1
  BY DEF ProcessTypes
<1>2. ProcessTypes'
  BY <1>1 DEF ProcessTypes
<1>3. \A p \in DOMAIN procs : procs[p].id \in Nat /\ procs[p].ppid \in Nat /\ procs[p].id < nextId.proc
                              /\ procs[p].ppid < nextId.proc /\ procs[p].id > 0
  BY DEF ProcessTypes, Proc, Numbered
<1>4. new.ppid \in Nat
  BY DEF Proc
<1>5. Numbered'
  <2>1. \A p \in DOMAIN procs' : /\ procs'[p].id > 0 /\ procs'[p].id < nextId'.proc
                                 /\ procs'[p].ppid < nextId'.proc
    BY <1>1, <1>3, <1>4
  <2>2. \A p, q \in DOMAIN procs' : procs'[p].id = procs'[q].id => p = q
    BY <1>1, <1>3 DEF Numbered
  <2> QED BY <2>1, <2>2 DEF Numbered
<1>6. Threaded'
  <2>1. \A p : ThreadsOf(p)' = ThreadsOf(p)
    BY DEF ThreadsOf
  <2>2. ThreadsOf(a) = {} /\ Cardinality({}) = 0
    BY <1>1, FS_EmptySet DEF ThreadsOf, Threaded
  <2> QED BY <1>1, <2>1, <2>2 DEF Threaded
<1>7. Waited'
  BY <1>1 DEF Waited
<1>8. EventCountExact'
  <2>1. \A q \in DOMAIN procs' : procs'[q].events.pending = Cardinality(UsedSlots(procs'[q].events))
    BY <1>1, NoEventsEmpty DEF EventCountExact
  <2> QED BY <2>1 DEF EventCountExact
<1>9. ASSUME NEW p \in DOMAIN procs' PROVE \E L : ChildList(L, p)'
  <2>1. CASE p = a
    <3>1. ChildrenOf(p)' = {}
      BY <1>1, <1>3, <1>4, <2>1 DEF ChildrenOf
    <3>2. ChildList(<<>>, p)'
      BY <2>1, <3>1 DEF ChildList, Chained, Reached, IsInjective, Range
    <3> QED BY <3>2
  <2>2. CASE p \in DOMAIN procs /\ procs'[p].first = procs[p].first /\ procs'[p].kids = procs[p].kids
             /\ new.ppid # procs[p].id
    <3>1. PICK L : ChildList(L, p)
      BY <2>2 DEF AllListed
    <3>2. ChildrenOf(p)' = ChildrenOf(p) /\ ChildrenOf(p) \subseteq DOMAIN procs
      BY <1>1, <2>2 DEF ChildrenOf
    <3>3. ChildList(L, p)'
      BY <1>1, <2>2, <3>1, <3>2, ListKept
    <3> QED BY <3>3
  <2> QED BY <1>1, <2>1, <2>2
<1>10. AllListed'
  BY <1>9 DEF AllListed
<1> QED BY <1>2, <1>5, <1>6, <1>7, <1>8, <1>10


LEMMA ProcessCreateKeeps ==
    ASSUME ProcessConstants, ProcessInv, NEW a \in ProcAddresses, ProcessCreate(a, 0)
    PROVE  ProcessInv'
<1> USE DEF ProcessInv
<1> DEFINE new == NewProcess(nextId.proc, 0, "ready", FALSE)
<1>1. a \in ProcAddresses \ DOMAIN procs
  BY FreshAddress DEF ProcessCreate, ProcessConstants
<1>2. nextId.proc \in Nat \ {0} /\ procs \in [DOMAIN procs -> Proc]
  BY DEF ProcessTypes
<1>3. /\ new \in Proc /\ new.id = nextId.proc /\ new.ppid = 0 /\ new.threads = 0 /\ ~new.waited
      /\ ~new.exited /\ new.first = Null /\ new.kids = 0 /\ new.events = NoEvents
  BY <1>2, NoEventsEmpty DEF NewProcess, Proc, Null
<1>4. procs' = Extended(procs, a, new) /\ UNCHANGED threads /\ nextId' = [nextId EXCEPT !.proc = @ + 1]
  BY DEF ProcessCreate
<1> HIDE DEF new
<1>5. /\ procs' \in [DOMAIN procs \cup {a} -> Proc] /\ procs'[a] = new
      /\ \A p \in DOMAIN procs : procs'[p] = procs[p]
  BY <1>1, <1>2, <1>3, <1>4 DEF Extended
<1>6. \A p \in DOMAIN procs : procs[p].id # 0
  BY DEF Numbered
<1>7. new.ppid < nextId.proc
  BY <1>2, <1>3
<1> QED BY <1>1, <1>3, <1>4, <1>5, <1>6, <1>7, ProcessMade

\* A child is linked in front of the others.
LEMMA ChildLinked ==
    ASSUME ProcessTypes, NEW p \in DOMAIN procs, NEW a, a \notin DOMAIN procs, NEW L, ChildList(L, p),
           DOMAIN procs' = DOMAIN procs \cup {a},
           procs'[a].ppid = procs[p].id, procs'[a].next = procs[p].first,
           procs'[p].first = a, procs'[p].kids = procs[p].kids + 1,
           \A q \in DOMAIN procs : /\ procs'[q].id = procs[q].id /\ procs'[q].ppid = procs[q].ppid
                                   /\ procs'[q].next = procs[q].next
    PROVE  ChildList(<<a>> \o L, p)'
<1> DEFINE M == <<a>> \o L
<1>1. /\ L \in Seq(DOMAIN procs) /\ Chained(L, p) /\ Reached(L, p) = Null
      /\ IsInjective(L) /\ Len(L) = procs[p].kids /\ Range(L) = ChildrenOf(p)
  BY DEF ChildList
<1>2. /\ M \in Seq(DOMAIN procs') /\ Len(M) = Len(L) + 1 /\ M[1] = a /\ DOMAIN M = 1 .. Len(L) + 1
      /\ \A j \in DOMAIN M : j # 1 => j - 1 \in DOMAIN L /\ M[j] = L[j - 1]
      /\ \A i \in DOMAIN L : i + 1 \in DOMAIN M /\ M[i + 1] = L[i] /\ i \in Nat \ {0}
  BY <1>1
<1> HIDE DEF M
<1>3. \A i \in DOMAIN L : L[i] \in DOMAIN procs /\ L[i] # a /\ procs'[L[i]].next = procs[L[i]].next
  BY <1>1
<1>4. Chained(M, p)'
  <2> SUFFICES ASSUME NEW j \in DOMAIN M
               PROVE  M[j] = IF j = 1 THEN procs'[p].first ELSE procs'[M[j - 1]].next
    BY DEF Chained
  <2>1. CASE j = 1
    BY <1>2, <2>1
  <2>2. CASE j = 2
    <3>1. 1 \in DOMAIN L /\ M[j] = L[1] /\ M[j - 1] = a /\ L # <<>>
      BY <1>2, <2>2
    <3>2. L[1] = procs[p].first
      BY <1>1, <3>1, ChainStep
    <3> QED BY <2>2, <3>1, <3>2
  <2>3. CASE j # 1 /\ j # 2
    <3>1. j \in Nat /\ j - 1 \in DOMAIN L /\ j - 2 \in DOMAIN L /\ j - 1 = (j - 2) + 1
      BY <1>1, <1>2, <2>3
    <3>2. M[j] = L[j - 1] /\ M[j - 1] = L[j - 2]
      <4>1. (j - 2) + 1 = j - 1
        BY <3>1
      <4> QED BY <1>2, <2>3, <3>1, <4>1
    <3>3. L[j - 1] = procs[L[j - 2]].next
      BY <1>1, <3>1, ChainStep
    <3> QED BY <1>3, <2>3, <3>1, <3>2, <3>3
  <2> QED BY <2>1, <2>2, <2>3
<1>5. Reached(M, p)' = Null
  <2>1. M # <<>>
    BY <1>1, <1>2
  <2>2. CASE L = <<>>
    BY <1>1, <1>2, <2>1, <2>2 DEF Reached
  <2>3. CASE L # <<>>
    <3>1. Len(L) \in DOMAIN L /\ M[Len(M)] = L[Len(L)]
      BY <1>1, <1>2, <2>3
    <3> QED BY <1>1, <1>3, <2>1, <2>3, <3>1 DEF Reached
  <2> QED BY <2>2, <2>3
<1>6. IsInjective(M)
  <2> SUFFICES ASSUME NEW i \in DOMAIN M, NEW j \in DOMAIN M, M[i] = M[j] PROVE i = j
    BY DEF IsInjective
  <2>1. i = 1 <=> j = 1
    BY <1>2, <1>3
  <2>2. CASE i # 1
    <3>1. i - 1 = j - 1
      BY <1>1, <1>2, <2>1, <2>2 DEF IsInjective
    <3> QED BY <1>1, <1>2, <3>1
  <2> QED BY <2>1, <2>2
<1>7. Range(M) = Range(L) \cup {a}
  <2>1. \A j \in DOMAIN M : M[j] \in Range(L) \cup {a}
    BY <1>2 DEF Range
  <2>2. 1 \in DOMAIN M
    BY <1>1, <1>2
  <2>3. \A i \in DOMAIN L : L[i] \in Range(M)
    BY <1>2 DEF Range
  <2>4. a \in Range(M)
    BY <1>2, <2>2 DEF Range
  <2>5. Range(M) \subseteq Range(L) \cup {a}
    BY <2>1 DEF Range
  <2>6. Range(L) \subseteq Range(M)
    BY <2>3 DEF Range
  <2> QED BY <2>4, <2>5, <2>6
<1>8. ChildrenOf(p)' = ChildrenOf(p) \cup {a}
  BY DEF ChildrenOf
<1>9. Len(M) = procs'[p].kids
  BY <1>1, <1>2
<1> QED BY <1>1, <1>2, <1>4, <1>5, <1>6, <1>7, <1>8, <1>9 DEF ChildList, M

LEMMA CreateCopyOnWriteChildKeeps ==
    ASSUME ProcessConstants, ProcessInv, NEW a \in ProcAddresses, NEW p \in DOMAIN procs,
           CreateCopyOnWriteChild(p, a)
    PROVE  ProcessInv'
<1> USE DEF ProcessInv
<1> DEFINE n0 == NewProcess(nextId.proc, procs[p].id, "created", procs[p].user)
           new == [n0 EXCEPT !.parent = p, !.next = procs[p].first]
           par == [procs[p] EXCEPT !.first = a, !.kids = @ + 1]
<1>1. a \in ProcAddresses \ DOMAIN procs
  BY FreshAddress DEF CreateCopyOnWriteChild, ProcessConstants
<1>2. /\ nextId.proc \in Nat \ {0} /\ procs \in [DOMAIN procs -> Proc] /\ p \in ProcAddresses
      /\ procs[p] \in Proc /\ procs[p].id \in Nat /\ procs[p].user \in BOOLEAN
      /\ procs[p].first \in ProcAddresses \cup {Null} /\ procs[p].id < nextId.proc
  BY DEF ProcessTypes, Proc, Numbered
<1>3. /\ n0 \in Proc /\ n0.id = nextId.proc /\ n0.ppid = procs[p].id /\ n0.threads = 0 /\ ~n0.waited
      /\ ~n0.exited /\ n0.first = Null /\ n0.kids = 0 /\ n0.events = NoEvents
  BY <1>2, NewProcessType
<1>4. procs' = LinkParentChild(Extended(procs, a, n0), p, a)
      /\ UNCHANGED threads /\ nextId' = [nextId EXCEPT !.proc = @ + 1]
  BY DEF CreateCopyOnWriteChild
<1> HIDE DEF n0
<1>5. /\ new \in Proc /\ new.id = nextId.proc /\ new.ppid = procs[p].id /\ new.threads = 0 /\ ~new.waited
      /\ ~new.exited /\ new.first = Null /\ new.kids = 0 /\ new.events = NoEvents
      /\ new.next = procs[p].first
  BY <1>2, <1>3 DEF Proc
<1>6. /\ par \in Proc /\ par.first = a /\ par.kids = procs[p].kids + 1 /\ par.id = procs[p].id
      /\ par.ppid = procs[p].ppid /\ par.next = procs[p].next /\ par.threads = procs[p].threads
      /\ par.waited = procs[p].waited /\ par.exited = procs[p].exited
      /\ par.state = procs[p].state /\ par.events = procs[p].events
  <2>1. procs[p].kids \in Nat /\ procs[p].kids + 1 \in Nat
    BY <1>2 DEF Proc
  <2>2. PICK n \in Nat : n = procs[p].kids + 1
    BY <2>1
  <2>3. par = [procs[p] EXCEPT !.first = a, !.kids = n]
    BY <2>2
  <2> HIDE DEF par
  <2> QED BY <1>1, <1>2, <2>2, <2>3 DEF Proc
<1>7. procs' = [q \in DOMAIN procs \cup {a} |-> IF q = p THEN par ELSE IF q = a THEN new ELSE procs[q]]
  <2>1. PICK f : f = Extended(procs, a, n0)
    OBVIOUS
  <2>2. /\ f = [q \in DOMAIN procs \cup {a} |-> IF q = a THEN n0 ELSE procs[q]]
        /\ f[a] = n0 /\ f[p] = procs[p]
    BY <1>1, <2>1 DEF Extended
  <2>3. procs' = [f EXCEPT ![a] = [@ EXCEPT !.parent = p, !.next = f[p].first],
                           ![p] = [@ EXCEPT !.first = a, !.kids = f[p].kids + 1]]
    BY <1>4, <2>1 DEF LinkParentChild
  <2>4. a # p
    BY <1>1
  <2>5. /\ DOMAIN procs' = DOMAIN f
        /\ \A q \in DOMAIN f : q # a /\ q # p => procs'[q] = f[q]
    BY <2>2, <2>3
  <2>6. procs'[a] = [f[a] EXCEPT !.parent = p, !.next = f[p].first]
    BY <2>2, <2>3, <2>4
  <2>7. procs'[p] = [f[p] EXCEPT !.first = a, !.kids = f[p].kids + 1]
    BY <2>2, <2>3, <2>4
  <2>8. procs'[a] = new /\ procs'[p] = par
    BY <2>2, <2>6, <2>7
  <2> HIDE DEF new, par
  <2>9. procs' = [q \in DOMAIN procs' |-> procs'[q]]
    BY <2>3
  <2> QED BY <1>1, <2>2, <2>5, <2>8, <2>9
<1> HIDE DEF new, par
<1>8. /\ procs' \in [DOMAIN procs \cup {a} -> Proc] /\ procs'[a] = new /\ procs'[p] = par
      /\ DOMAIN procs' = DOMAIN procs \cup {a}
      /\ \A q \in DOMAIN procs : q # p => procs'[q] = procs[q]
  BY <1>1, <1>2, <1>5, <1>6, <1>7
<1>9. \A q \in DOMAIN procs : /\ procs'[q].id = procs[q].id /\ procs'[q].ppid = procs[q].ppid
                              /\ procs'[q].next = procs[q].next /\ procs'[q].threads = procs[q].threads
                              /\ procs'[q].waited = procs[q].waited /\ procs'[q].exited = procs[q].exited
                              /\ procs'[q].state = procs[q].state /\ procs'[q].events = procs[q].events
  BY <1>6, <1>8
<1>10. \A q \in DOMAIN procs : q # p => /\ procs'[q].first = procs[q].first /\ procs'[q].kids = procs[q].kids
                                        /\ new.ppid # procs[q].id
  BY <1>5, <1>8 DEF Numbered
<1>11. PICK L : ChildList(L, p)
  BY DEF AllListed
<1>12. ChildList(<<a>> \o L, p)'
  <2>1. procs'[a].ppid = procs[p].id /\ procs'[a].next = procs[p].first /\ procs'[p].first = a
        /\ procs'[p].kids = procs[p].kids + 1
    BY <1>5, <1>6, <1>8
  <2> QED BY <1>1, <1>8, <1>9, <1>11, <2>1, ChildLinked
<1>13. \A q \in DOMAIN procs : \/ /\ procs'[q].first = procs[q].first /\ procs'[q].kids = procs[q].kids
                                  /\ new.ppid # procs[q].id
                               \/ \E M : ChildList(M, q)'
  BY <1>10, <1>12
<1>14. new.ppid < nextId.proc
  BY <1>2, <1>5
<1> QED BY <1>1, <1>4, <1>5, <1>8, <1>9, <1>13, <1>14, ProcessMade


LEMMA ProcessDestroyKeeps ==
    ASSUME ProcessConstants, ProcessInv, NEW p \in DOMAIN procs, ProcessDestroy(p)
    PROVE  ProcessInv'
<1> USE DEF ProcessInv
<1>1. /\ procs' = [q \in DOMAIN procs \ {p} |-> procs[q]] /\ UNCHANGED <<threads, nextId>>
      /\ \A t \in DOMAIN threads : threads[t].owner # p
      /\ \A q \in DOMAIN procs : p \notin Range(Listed(q))
  BY DEF ProcessDestroy, ProcessConstants, Restrict
<1>2. DOMAIN procs' = DOMAIN procs \ {p} /\ \A q \in DOMAIN procs' : procs'[q] = procs[q]
  BY <1>1
<1>3. ProcessTypes'
  BY <1>1, <1>2 DEF ProcessTypes
<1>4. Numbered'
  BY <1>1, <1>2 DEF Numbered
<1>5. Threaded'
  BY <1>1, <1>2 DEF Threaded, ThreadsOf
<1>6. Waited'
  BY <1>2 DEF Waited
<1>7. EventCountExact'
  BY <1>1, <1>2 DEF EventCountExact, UsedSlots, UnusedSlots
<1>8. ASSUME NEW q \in DOMAIN procs' PROVE \E L : ChildList(L, q)'
  <2>1. PICK L : ChildList(L, q)
    BY <1>2 DEF AllListed
  <2>2. Listed(q) = L /\ Range(L) = ChildrenOf(q)
    BY <1>2, <2>1, ListedIs DEF ChildList
  <2>3. p \notin ChildrenOf(q)
    BY <1>1, <1>2, <2>2
  <2>4. ChildrenOf(q)' = ChildrenOf(q) /\ ChildrenOf(q) \subseteq DOMAIN procs'
    BY <1>2, <2>3 DEF ChildrenOf
  <2>5. ChildList(L, q)'
    BY <1>2, <2>1, <2>4, ListKept
  <2> QED BY <2>5
<1>9. AllListed'
  BY <1>8 DEF AllListed
<1> QED BY <1>3, <1>4, <1>5, <1>6, <1>7, <1>9

LEMMA ProcessInitInv == ASSUME ProcessInit PROVE ProcessInv
<1>1. DOMAIN procs = {} /\ DOMAIN threads = {} /\ nextId = [proc |-> 1, thread |-> 1]
  BY DEF ProcessInit
<1>2. procs = [p \in {} |-> procs[p]] /\ threads = [t \in {} |-> threads[t]]
  BY DEF ProcessInit
<1>3. ProcessTypes
  BY <1>1, <1>2 DEF ProcessTypes
<1> QED BY <1>1, <1>3 DEF ProcessInv, Numbered, Threaded, Waited, AllListed, EventCountExact

LEMMA ProcessStutterKeeps == ASSUME ProcessInv, UNCHANGED processVars PROVE ProcessInv'
<1>1. UNCHANGED <<procs, threads, nextId>>
  BY DEF processVars
<1>2. ProcessTypes' /\ Numbered' /\ Waited' /\ EventCountExact'
  BY <1>1 DEF ProcessInv, ProcessTypes, Numbered, Waited, EventCountExact, UsedSlots, UnusedSlots
<1>3. Threaded'
  BY <1>1 DEF ProcessInv, Threaded, ThreadsOf
<1>4. AllListed'
  BY <1>1, LinksKept DEF ProcessInv
<1> QED BY <1>2, <1>3, <1>4 DEF ProcessInv

LEMMA ProcessStepKeeps ==
    ASSUME ProcessConstants, ProcessInv, ProcessNext
    PROVE  ProcessInv'
<1>1. ASSUME NEW a \in ProcAddresses, NEW q \in DOMAIN procs, CreateCopyOnWriteChild(q, a) PROVE ProcessInv'
  BY <1>1, CreateCopyOnWriteChildKeeps
<1>2. ASSUME NEW a \in ProcAddresses, ProcessCreate(a, 0) PROVE ProcessInv'
  BY <1>2, ProcessCreateKeeps
<1>3. ASSUME NEW p \in DOMAIN procs,
             \/ UserProcessFromProcess(p)
             \/ \E s \in Statuses : ProcessExit(p, s)
             \/ \E e \in Events : ProcessSendEvent(p, e)
      PROVE  ProcessInv'
  BY <1>3, FieldChanges
<1>4. ASSUME NEW p \in DOMAIN procs, ProcessDestroy(p) PROVE ProcessInv'
  BY <1>4, ProcessDestroyKeeps
<1>5. ASSUME NEW p \in DOMAIN procs, NEW id \in 0 .. MaxIds, ProcessWait(p, id) PROVE ProcessInv'
  BY <1>5, ProcessWaitKeeps
<1>6. ASSUME NEW t \in ThreadAddresses, NEW p \in DOMAIN procs, NEW user \in BOOLEAN, ThreadCreate(t, p, user)
      PROVE  ProcessInv'
  BY <1>6, ThreadCreateKeeps
<1>7. ASSUME NEW t \in DOMAIN threads, ThreadDestroy(t) PROVE ProcessInv'
  BY <1>7, ThreadDestroyKeeps
<1>8. ASSUME NEW t \in DOMAIN threads,
             \/ ThreadExit(t) \/ ThreadStop(t) \/ ThreadReceiveEvent(t)
             \/ \E e \in Events : ThreadSendEvent(t, e)
             \/ \E u \in DOMAIN threads : ContextSwitch(t, u)
      PROVE  ProcessInv'
  BY <1>8, ThreadFieldChanges
<1>9. Call
  BY DEF ProcessNext
<1> QED BY <1>1, <1>2, <1>3, <1>4, <1>5, <1>6, <1>7, <1>8, <1>9 DEF Call

LEMMA ProcessInvSound == ASSUME ProcessConstants, ProcessInv PROVE ProcessesSound
<1> USE DEF ProcessInv
<1>1. ProcessTypeOK
  BY DEF ProcessTypes, ProcessTypeOK
<1>2. ThreadCountExact
  BY DEF Threaded, ThreadsOf, ThreadCountExact
<1>3. ASSUME NEW p \in DOMAIN procs
      PROVE  /\ IsInjective(Listed(p)) /\ Len(Listed(p)) = procs[p].kids
             /\ Range(Listed(p)) = {c \in DOMAIN procs : procs[c].ppid = procs[p].id}
  <2>1. PICK L : ChildList(L, p)
    BY DEF AllListed
  <2>2. Listed(p) = L
    BY <2>1, ListedIs
  <2> QED BY <2>1, <2>2 DEF ChildList, ChildrenOf
<1>4. ChildrenExact
  BY <1>3 DEF ChildrenExact
<1>5. WaitReportsExited
  BY DEF Waited, WaitReportsExited
<1> QED BY <1>1, <1>2, <1>4, <1>5 DEF ProcessesSound

\* In every order of creations, copy-on-write children, exits, waits, events and
\* destructions the counters and the list of children agree with the structures
\* (KernelProcess.c, KernelProcessLifecycle.c, KernelProcessEvents.c).
THEOREM ProcessesAlwaysSound ==
    ASSUME ProcessConstants
    PROVE  ProcessSpec => []ProcessesSound
<1>1. ProcessInit => ProcessInv
  BY ProcessInitInv
<1>2. ProcessInv /\ [ProcessNext]_processVars => ProcessInv'
  BY ProcessStepKeeps, ProcessStutterKeeps
<1>3. ProcessInv => ProcessesSound
  BY ProcessInvSound
<1> QED BY <1>1, <1>2, <1>3, PTL DEF ProcessSpec
=============================================================================
