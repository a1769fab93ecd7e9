----------------------------- MODULE VirtualMemory -----------------------------
(***************************************************************************)
(* Process address spaces: mapping, protection, mmap-style regions, ELF    *)
(* segments, copy-on-write clones, copies from and to user memory and the  *)
(* page-fault policy that repairs a fault or gives it up.  The four levels *)
(* of page tables are a root and one leaf table per group of pages; what a *)
(* walk finds and what it has to allocate are kept, the indices are not.   *)
(* Frames are data pages and page tables of one pool; a frame the record   *)
(* array has no room for (not Tracked) has no reference count.             *)
(***************************************************************************)
EXTENDS Integers, Sequences, FiniteSets, SequencesExt

CONSTANTS
    Spaces,          \* address spaces, positive numbers
    Pages,           \* pages of the user range, positive numbers
    Frames,          \* physical pages below the early direct-map limit
    Tracked,         \* the frames that have an ownership record
    Cells,           \* the cells of a page, 0 .. n
    MaxRegions,      \* ORYN_VIRTUAL_MAX_MMAP_REGIONS
    MaxCopy,         \* the most cells one user copy moves
    ProtectShared,   \* whether callers change the protection of shared pages
    Values,          \* what a program or the kernel stores, not 0
    Kinds,           \* the kinds of access that fault: read, write, fetch
    Rights,          \* the pairs (writable, executable) callers ask for
    MaxCalls,        \* bound: calls of the management operations
    MaxTries         \* bound: repeated faults of an instruction that are counted

None == 0
KernelPage == 0      \* any address that is not in the user range
NoEntry == [frame |-> 0, W |-> FALSE, X |-> FALSE, cow |-> FALSE]
NoAccess == [space |-> None, page |-> 0, kind |-> "none", tries |-> 0, mixed |-> FALSE]

VARIABLES
    live,     \* address spaces that are initialized
    table,    \* the leaf entry of each page of each space
    leaves,   \* the leaf tables a space has: the pages they are for
    regions,  \* the regions of a space, in slot order
    free,     \* free frames
    refs,     \* ReferenceCount of the frames that have a record
    data,     \* what is in a frame
    tables,   \* frames that are page tables
    ctx,      \* gFaultProcessAddressSpace
    dem,      \* gDemandAddressSpace
    pending,  \* the instruction that faults, if one does
    verdict,  \* the action of the policy for its last fault
    load,     \* the pages of a segment that are still to be mapped
    calls     \* management calls made so far

spacesVars == <<live, table, leaves, regions, free, refs, data, tables, ctx, dem,
                pending, verdict, load, calls>>
frameVars == <<free, refs, data, tables>>

NoLoad == [space |-> None, next |-> 1, last |-> 0, W |-> FALSE, X |-> FALSE]

AddressSpace == [Pages -> [frame : Frames \cup {0}, W : BOOLEAN, X : BOOLEAN, cow : BOOLEAN]]

Region == [first : Pages, last : Pages, W : BOOLEAN, X : BOOLEAN]

PolicyActions == {"none", "recover", "kill", "panic"}

Present(s, p) == table[s][p] # NoEntry

\* The entries that map frame f.
Mappings(f) == {m \in live \X Pages : table[m[1]][m[2]].frame = f}

\* OrynVirtualMemoryFlagsRespectWriteXorExecute.
WriteXorExecute(w, x) == ~(w /\ x)

VmFlagsToEntryFlags(f, w, x) == [frame |-> f, W |-> w, X |-> x, cow |-> FALSE]

\* Frames with a record are alike and so are frames without one: an allocation
\* takes the least free frame of either kind.
Allocatable == {f \in free : \A g \in free : (g \in Tracked <=> f \in Tracked) => f <= g}

\* The k frames k page tables take; page tables are never given back.
TableFrames(k, avail) ==
    {f \in avail : Cardinality({g \in avail : g < f}) < k}

\* VmTable under VmWalk with create: the leaf tables that walking to the pages in
\* order adds when k frames are free.
TablesMade(s, pages, k) ==
    LET missing == pages \ leaves[s]
    IN  {p \in missing : Cardinality({q \in missing : q < p}) < k}

\* The first process has its address space.
SpacesInit ==
    /\ live = {1} /\ table = [s \in Spaces |-> [p \in Pages |-> NoEntry]]
    /\ leaves = [s \in Spaces |-> {}] /\ regions = [s \in Spaces |-> <<>>]
    /\ tables = TableFrames(1, Frames) /\ free = Frames \ tables /\ refs = [f \in Frames |-> 0]
    /\ data = [f \in Frames |-> [c \in Cells |-> 0]]
    /\ ctx = None /\ dem = None /\ pending = NoAccess /\ verdict = "none"
    /\ load = NoLoad /\ calls = 0

\* The kernel runs one operation at a time: nothing else happens while a segment
\* is loaded or a faulting instruction is handled, and nothing after a panic.
Idle == load = NoLoad /\ pending = NoAccess /\ verdict # "panic"

\* A management call, one of at most MaxCalls.
Called == Idle /\ calls < MaxCalls /\ calls' = calls + 1

CreateProcessAddressSpace(s) ==
    /\ Called /\ s \notin live /\ free # {}
    /\ LET root == TableFrames(1, free) IN free' = free \ root /\ tables' = tables \cup root
    /\ live' = live \cup {s}
    /\ UNCHANGED <<table, leaves, regions, refs, data, ctx, dem, pending, verdict, load>>

\* SetProcessContext with no valid space forgets the demand allocator as well;
\* with one it leaves the allocator of whoever was there.
SetProcessContext(s) ==
    /\ Idle /\ s \in live \cup {None}
    /\ ctx' = s /\ dem' = IF s = None THEN None ELSE dem
    /\ UNCHANGED <<live, table, leaves, regions, frameVars, pending, verdict, load, calls>>

SetDemandAllocator(s) ==
    /\ Idle /\ s \in live \cup {None}
    /\ dem' = s
    /\ UNCHANGED <<live, table, leaves, regions, frameVars, ctx, pending, verdict, load, calls>>

\* OrynKernelProcessDestroy frees the address-space structure: pages, page tables
\* and reference counts stay as they are.  Callers take it off the policy first.
DestroySpace(s) ==
    /\ Called /\ s \in live /\ s \notin {ctx, dem}
    /\ live' = live \ {s}
    /\ table' = [table EXCEPT ![s] = [p \in Pages |-> NoEntry]]
    /\ leaves' = [leaves EXCEPT ![s] = {}]
    /\ regions' = [regions EXCEPT ![s] = <<>>]
    /\ UNCHANGED <<frameVars, ctx, dem, pending, verdict, load>>

Reserve(s, a, b, w, x) ==
    /\ Called /\ s \in live /\ a <= b
    /\ WriteXorExecute(w, x)
    /\ Len(regions[s]) < MaxRegions
    /\ regions' = [regions EXCEPT ![s] = Append(@, [first |-> a, last |-> b, W |-> w, X |-> x])]

ReserveMmapRegion(s, a, b, w, x) ==
    /\ Reserve(s, a, b, w, x)
    /\ UNCHANGED <<live, table, leaves, frameVars, ctx, dem, pending, verdict, load>>

\* UserExecMapSegment reserves the region and then maps page after page.
MapSegment(s, a, b, w, x) ==
    /\ Reserve(s, a, b, w, x)
    /\ load' = [space |-> s, next |-> a, last |-> b, W |-> w, X |-> x]
    /\ UNCHANGED <<live, table, leaves, frameVars, ctx, dem, pending, verdict>>

\* Page load.next of the segment gets a frame; when the page is
\* mapped already or a table cannot be made the frame is kept and the load ends.
MapSegmentPage(f) ==
    LET s == load.space  p == load.next
        made == TablesMade(s, {p}, Cardinality(free \ {f}))
        ok == ~Present(s, p) /\ {p} \subseteq leaves[s] \cup made
        new == IF Present(s, p) THEN {} ELSE TableFrames(Cardinality(made), free \ {f})
    IN  /\ load # NoLoad /\ f \in Allocatable
        /\ free' = free \ ({f} \cup new) /\ tables' = tables \cup new
        /\ refs' = IF f \in Tracked THEN [refs EXCEPT ![f] = 1] ELSE refs
        /\ data' = [data EXCEPT ![f] = [c \in Cells |-> 0]]
        /\ table' = IF ok THEN [table EXCEPT ![s][p] = VmFlagsToEntryFlags(f, load.W, load.X)] ELSE table
        /\ leaves' = IF ok THEN [leaves EXCEPT ![s] = @ \cup made] ELSE leaves
        /\ load' = IF ok /\ p < load.last THEN [load EXCEPT !.next = p + 1] ELSE NoLoad
        /\ UNCHANGED <<live, regions, ctx, dem, pending, verdict, calls>>

MapSegmentFails ==
    /\ load # NoLoad /\ free = {}
    /\ load' = NoLoad
    /\ UNCHANGED <<live, table, leaves, regions, frameVars, ctx, dem, pending, verdict, calls>>

\* The entries after OrynVirtualMemoryMap: all pages are mapped, or the ones
\* mapped so far are unmapped again.
MapRange(s, a, b, done, base, w, x) ==
    [p \in Pages |-> IF p \in a .. b /\ done THEN VmFlagsToEntryFlags(base + (p - a), w, x) ELSE table[s][p]]

\* OrynVirtualMemoryMap of contiguous frames the caller has allocated; they stay
\* the caller's when it fails.
Map(s, a, b, base, w, x) ==
    LET used == base .. base + (b - a)
        made == TablesMade(s, a .. b, Cardinality(free \ used))
        done == a .. b \subseteq leaves[s] \cup made
        new == TableFrames(Cardinality(made), free \ used)
    IN  /\ Called /\ s \in live /\ a <= b /\ used \subseteq free
        /\ \A p \in a .. b : ~Present(s, p)
        /\ WriteXorExecute(w, x)
        /\ free' = free \ (used \cup new) /\ tables' = tables \cup new
        /\ refs' = [f \in Frames |-> IF f \in used \cap Tracked THEN 1 ELSE refs[f]]
        /\ data' = [f \in Frames |-> IF f \in used THEN [c \in Cells |-> 0] ELSE data[f]]
        /\ table' = [table EXCEPT ![s] = MapRange(s, a, b, done, base, w, x)]
        /\ leaves' = [leaves EXCEPT ![s] = @ \cup made]
        /\ UNCHANGED <<live, regions, ctx, dem, pending, verdict, load>>

\* Unmapping gives no frame back.
Unmap(s, a, b) ==
    /\ Called /\ s \in live /\ a <= b
    /\ \A p \in a .. b : Present(s, p)
    /\ table' = [table EXCEPT ![s] = [p \in Pages |-> IF p \in a .. b THEN NoEntry ELSE @[p]]]
    /\ UNCHANGED <<live, leaves, regions, frameVars, ctx, dem, pending, verdict, load>>

\* The new flags replace all the old ones, the copy-on-write mark included.
Protect(s, a, b, w, x) ==
    /\ Called /\ s \in live /\ a <= b
    /\ \A p \in a .. b : Present(s, p)
    /\ WriteXorExecute(w, x)
    /\ ProtectShared \/ \A p \in a .. b : Cardinality(Mappings(table[s][p].frame)) = 1
    /\ table' = [table EXCEPT ![s] = [p \in Pages |-> IF p \in a .. b
                     THEN VmFlagsToEntryFlags(@[p].frame, w, x) ELSE @[p]]]
    /\ UNCHANGED <<live, leaves, regions, frameVars, ctx, dem, pending, verdict, load>>

\* Mutant of Shared: the parent keeps its right to write.
SharedChildOnly(e, parent) ==
    IF e = NoEntry THEN e ELSE [e EXCEPT !.W = parent /\ @, !.cow = TRUE]

\* CowCopyLeaf: parent and child get the same entry, marked and not writable.
Shared(e, parent) ==
    IF e = NoEntry THEN e ELSE [e EXCEPT !.W = FALSE, !.cow = TRUE]

\* Mutant of Referenced: no reference is added for the child.
ReferencedOnce(s, sharing) == refs

\* OrynPhysicalMemoryAddPageReference for every page shared; without a record it
\* fails and the failure is ignored.
Referenced(s, sharing) ==
    [f \in Frames |-> IF f \in Tracked /\ refs[f] > 0
                      THEN refs[f] + Cardinality({p \in sharing : table[s][p].frame = f})
                      ELSE refs[f]]

\* CreateCopyOnWriteClone from space s to space c, under CreateCopyOnWriteChild:
\* when a table of the child cannot be made the child's structure is freed, the
\* pages copied so far stay marked in the parent and stay referenced.
CopyOnWriteClone(s, c) ==
    LET k == Cardinality(free) - 1
        copied == {p \in leaves[s] : Cardinality({q \in leaves[s] : q < p}) < k}
        sharing == {p \in copied : Present(s, p)}
        new == TableFrames(1 + Cardinality(copied), free)
    IN  /\ Called /\ s \in live /\ c \notin live /\ free # {}
        /\ free' = free \ new /\ tables' = tables \cup new
        /\ refs' = Referenced(s, sharing)
        /\ table' = [table EXCEPT
                       ![s] = [p \in Pages |-> IF p \in sharing THEN Shared(@[p], TRUE) ELSE @[p]],
                       ![c] = [p \in Pages |-> IF p \in sharing /\ copied = leaves[s]
                                               THEN Shared(table[s][p], FALSE) ELSE NoEntry]]
        /\ IF copied = leaves[s]
           THEN /\ live' = live \cup {c}
                /\ leaves' = [leaves EXCEPT ![c] = leaves[s]]
                /\ regions' = [regions EXCEPT ![c] = regions[s]]
           ELSE UNCHANGED <<live, leaves, regions>>
        /\ UNCHANGED <<data, ctx, dem, pending, verdict, load>>

Permitted(s, p, kind) ==
    /\ p \in Pages /\ Present(s, p)
    /\ kind = "write" => table[s][p].W
    /\ kind = "fetch" => table[s][p].X

\* A store of the program in space s, and an instruction of the process whose
\* context is set that faults.
Store(s, p, v) ==
    /\ Idle /\ s \in live /\ Permitted(s, p, "write")
    /\ data' = [data EXCEPT ![table[s][p].frame][0] = v]
    /\ UNCHANGED <<live, table, leaves, regions, free, refs, tables, ctx, dem, pending, verdict, load, calls>>

FaultingAccess(s, p, kind) ==
    /\ Idle /\ s \in live /\ ctx = s /\ ~Permitted(s, p, kind)
    /\ pending' = [NoAccess EXCEPT !.space = s, !.page = p, !.kind = kind]
    /\ UNCHANGED <<live, table, leaves, regions, frameVars, ctx, dem, verdict, load, calls>>

\* The instruction is executed again and succeeds.
Retry(v) ==
    LET s == pending.space p == pending.page IN
    /\ pending # NoAccess /\ verdict # "panic" /\ Permitted(s, p, pending.kind)
    /\ data' = IF pending.kind = "write" THEN [data EXCEPT ![table[s][p].frame][0] = v] ELSE data
    /\ pending' = NoAccess /\ verdict' = "none"
    /\ UNCHANGED <<live, table, leaves, regions, free, refs, tables, ctx, dem, load, calls>>

\* FinishAction.  The dispatcher returns to the instruction unless the action is
\* a panic: a process that is to be killed faults again.
Finish(action) ==
    /\ verdict' = action
    /\ pending' = [pending EXCEPT !.tries = IF @ < MaxTries /\ verdict # "kill" THEN @ + 1 ELSE @,
                                  !.mixed = @ \/ dem # pending.space]

Faults == pending # NoAccess /\ verdict # "panic" /\ ~Permitted(pending.space, pending.page, pending.kind)

UserFault ==
    Faults /\ pending.page # KernelPage

\* The present bit of the error code.
ErrorPresent == Present(pending.space, pending.page)

\* TryCopyOnWriteRecover has something to resolve in the demand space.
Resolvable ==
    /\ UserFault /\ dem # None /\ ErrorPresent /\ pending.kind = "write"
    /\ table[dem][pending.page].cow /\ free # {}

\* The entry becomes writable whatever the page was before it was shared.
Resolved(e, f) == [e EXCEPT !.frame = f, !.W = TRUE, !.cow = FALSE]

\* The frames OrynPhysicalMemoryReleasePageReference puts back.
Released(f) == IF f \in Tracked /\ refs[f] = 1 THEN {f} ELSE {}

\* OrynVirtualMemoryResolveCopyOnWriteFault.
ResolveCopyOnWrite(f) ==
    LET p == pending.page  old == table[dem][p].frame IN
    /\ Resolvable /\ f \in Allocatable
    /\ free' = (free \ {f}) \cup Released(old)
    /\ refs' = [g \in Frames |-> IF g = f /\ g \in Tracked THEN 1
                                 ELSE IF g = old /\ refs[g] > 0 THEN refs[g] - 1 ELSE refs[g]]
    /\ data' = [data EXCEPT ![f] = data[old]]
    /\ table' = [table EXCEPT ![dem][p] = Resolved(@, f)]
    /\ Finish("recover")
    /\ UNCHANGED <<live, leaves, regions, tables, ctx, dem, load, calls>>

\* FindAnonymousRegion: the first region of the demand space that has the page.
RegionSlots == {i \in DOMAIN regions[dem] : pending.page \in regions[dem][i].first .. regions[dem][i].last}

\* TryDemandRecover is called for a page in a region.
Demandable ==
    UserFault /\ dem # None /\ ~ErrorPresent /\ RegionSlots # {}

\* The policy asks for a writable page: in an executable region the map refuses,
\* and it fails when there is no frame for the page and its table.
DemandMaps ==
    LET r == regions[dem][CHOOSE i \in RegionSlots : \A j \in RegionSlots : i <= j] IN
    /\ WriteXorExecute(TRUE, r.X)
    /\ Cardinality(free) > Cardinality({pending.page} \ leaves[dem])

\* OrynVirtualMemoryDemandAllocateUserPage with a page there already, and with a
\* page to make; a page that cannot be mapped is freed again.
DemandPresent ==
    /\ Demandable /\ Present(dem, pending.page)
    /\ Finish("recover")
    /\ UNCHANGED <<live, table, leaves, regions, frameVars, ctx, dem, load, calls>>

DemandAllocate(f) ==
    LET p == pending.page
        new == TableFrames(Cardinality({p} \ leaves[dem]), free \ {f})
    IN  /\ Demandable /\ ~Present(dem, p) /\ DemandMaps /\ f \in Allocatable
        /\ free' = free \ ({f} \cup new) /\ tables' = tables \cup new
        /\ refs' = IF f \in Tracked THEN [refs EXCEPT ![f] = 1] ELSE refs
        /\ data' = [data EXCEPT ![f] = [c \in Cells |-> 0]]
        /\ table' = [table EXCEPT ![dem][p] = VmFlagsToEntryFlags(f, TRUE, FALSE)]
        /\ leaves' = [leaves EXCEPT ![dem] = @ \cup {p}]
        /\ Finish("recover")
        /\ UNCHANGED <<live, regions, ctx, dem, load, calls>>

\* HandleUserFault gives up: the policy says kill, or panic without a context
\* (as for a fault of the kernel, a reserved bit or a frame that is missing).
KillProcess ==
    /\ Faults
    /\ pending.page # KernelPage =>
          ~Resolvable /\ (Demandable => ~Present(dem, pending.page) /\ ~DemandMaps)
    /\ Finish("kill")
    /\ UNCHANGED <<live, table, leaves, regions, frameVars, ctx, dem, load, calls>>

PanicWithoutContext ==
    /\ Idle /\ live # {} /\ ctx = None
    /\ verdict' = "panic"
    /\ UNCHANGED <<live, table, leaves, regions, frameVars, ctx, dem, pending, load, calls>>

\* Cell i of a copy to page p lands i cells after the cell it is translated to.
CopyTarget(s, p, i) ==
    LET n == Cardinality(Cells)
        cell == table[s][p + (i \div n)].frame * n + (i % n) + i
    IN  <<cell \div n, cell % n>>

\* OrynVirtualMemoryIsUserRangeMapped for writing: a copy-on-write page is not.
UserRangeWritable(s, p, n) ==
    \A q \in p .. p + ((n - 1) \div Cardinality(Cells)) : q \in Pages /\ Permitted(s, q, "write")

OrynCopyToUser(s, p, n, v) ==
    LET hit == {CopyTarget(s, p, i) : i \in 0 .. n - 1} IN
    /\ Idle /\ s \in live /\ UserRangeWritable(s, p, n)
    /\ data' = [f \in Frames |-> [c \in Cells |-> IF <<f, c>> \in hit THEN v ELSE data[f][c]]]
    /\ UNCHANGED <<live, table, leaves, regions, free, refs, tables, ctx, dem, pending, verdict, load, calls>>

SpacesNext ==
    \/ \E s \in Spaces : CreateProcessAddressSpace(s) \/ DestroySpace(s)
    \/ \E s \in Spaces \cup {None} : SetProcessContext(s) \/ SetDemandAllocator(s)
    \/ \E s \in Spaces, a, b \in Pages, r \in Rights :
          ReserveMmapRegion(s, a, b, r[1], r[2]) \/ MapSegment(s, a, b, r[1], r[2]) \/ Protect(s, a, b, r[1], r[2])
    \/ \E f \in Frames : MapSegmentPage(f)
    \/ MapSegmentFails
    \/ \E s \in Spaces, a, b \in Pages, base \in Allocatable, r \in Rights : Map(s, a, b, base, r[1], r[2])
    \/ \E s \in Spaces, a, b \in Pages : Unmap(s, a, b)
    \/ \E s, c \in Spaces : CopyOnWriteClone(s, c)
    \/ \E s \in Spaces, p \in Pages, v \in Values : Store(s, p, v)
    \/ \E s \in Spaces, p \in Pages \cup {KernelPage}, kind \in Kinds : FaultingAccess(s, p, kind)
    \/ \E v \in Values : Retry(v)
    \/ \E f \in Frames : ResolveCopyOnWrite(f) \/ DemandAllocate(f)
    \/ DemandPresent \/ KillProcess \/ PanicWithoutContext
    \/ \E s \in Spaces, p \in Pages, n \in 1 .. MaxCopy, v \in Values : OrynCopyToUser(s, p, n, v)

\* What the proofs use of the constants: pages and frames are positive numbers, the
\* pages of a range are all there, and callers leave shared pages protected as
\* they are.
SpacesConstants ==
    /\ IsFiniteSet(Spaces) /\ Spaces \subseteq Nat \ {None} /\ 1 \in Spaces
    /\ IsFiniteSet(Pages) /\ Pages \subseteq Nat \ {KernelPage}
    /\ \A a, b \in Pages : a .. b \subseteq Pages
    /\ Frames \subseteq Nat \ {0}
    /\ Rights \subseteq BOOLEAN \X BOOLEAN
    /\ {MaxRegions, MaxTries} \subseteq Nat
    /\ ~ProtectShared

\* A copy to user memory moves one cell: a longer one writes behind the cells that
\* were checked.
SingleCopies == MaxCopy \in {0, 1} /\ IsFiniteSet(Cells) /\ 0 \in Cells

\* The processor executes the instruction again as long as it is returned to.
SpacesSpec == SpacesInit /\ [][SpacesNext]_spacesVars /\ WF_spacesVars(SpacesNext)

SpacesTypeOK ==
    /\ live \subseteq Spaces /\ table \in [Spaces -> AddressSpace]
    /\ leaves \in [Spaces -> SUBSET Pages] /\ \A s \in Spaces : regions[s] \in BoundedSeq(Region, MaxRegions)
    /\ free \subseteq Frames /\ refs \in [Frames -> Nat] /\ tables \subseteq Frames
    /\ ctx \in live \cup {None} /\ dem \in live \cup {None} /\ verdict \in PolicyActions

\* A frame that is mapped is not free, and a frame that has a record counts at
\* least the entries that map it: neither a failed clone, a failed map nor a
\* resolved fault ever leaves a process with a page that can be handed out again.
RefsCoverMappings ==
    \A f \in Frames :
        Mappings(f) # {} => f \notin free /\ (f \in Tracked => refs[f] >= Cardinality(Mappings(f)))

\* No process writes to a frame that another entry maps: copy-on-write pages stay
\* read-only in the parent and in every clone until they are private.
SharedIsReadOnly ==
    \A f \in Frames : Cardinality(Mappings(f)) > 1 =>
        \A m \in Mappings(f) : ~table[m[1]][m[2]].W

\* A page-table frame is never in the pool and never mapped into a process, and a
\* page is present only where its space has the table for it.
TablesPrivate ==
    /\ \A f \in tables : f \notin free /\ Mappings(f) = {}
    /\ \A s \in live, p \in Pages : Present(s, p) => p \in leaves[s]

\* When the demand allocator is the faulting process's own, a fault the policy
\* recovers is repaired: the instruction is not recovered a second time.
RecoveredOnce ==
    verdict = "recover" /\ ~pending.mixed => pending.tries <= 1

Sees(s, p) == data[table[s][p].frame]

\* What a step changes in the memory of one process stays out of every other:
\* stores, resolved faults, clones and loads are seen by one address space only.
OneObserver ==
    [][\A s, t \in live \cap live' : \A p, q \in Pages :
         (/\ s # t
          /\ Present(s, p) /\ Present(s, p)' /\ Sees(s, p) # Sees(s, p)'
          /\ Present(t, q) /\ Present(t, q)')
         => Sees(t, q) = Sees(t, q)']_spacesVars

\* What the address spaces map is theirs: frames, references, write rights and
\* tables agree after every map, clone, fault, load and destruction, the failed
\* ones included (KernelVirtualMemoryApi.c, KernelVirtualMemoryCow.c).
SpacesSound ==
    /\ SpacesTypeOK
    /\ RefsCoverMappings
    /\ SharedIsReadOnly
    /\ TablesPrivate
    /\ RecoveredOnce

=============================================================================
