------------------------------- MODULE BootPaging -------------------------------
(***************************************************************************)
(* The kernel's first page tables: the ranges OrynVirtualMemoryInit maps,  *)
(* one after another, before it switches CR3, the proof of the higher-half *)
(* map, guard pages taken out afterwards, and process roots that share the *)
(* kernel half.  An address is a number of cells, PageCells of them a page;*)
(* pages from HighBase on are the higher half.                             *)
(***************************************************************************)
EXTENDS Integers, Sequences, FiniteSets, SequencesExt, TLC

CONSTANTS
    Boots,        \* the boot information records that are tried
    Budgets,      \* the page-table frames there are at boot
    PageCells,    \* ORYN_VIRTUAL_PAGE_SIZE
    TableSpan,    \* the pages one leaf table maps
    LowCells,     \* ORYN_LOW_IDENTITY_BYTES
    HalfWindow,   \* half of ORYN_EARLY_STACK_BYTES
    HighBase,     \* ORYN_VIRTUAL_KERNEL_BASE, as a page number
    GuardPages    \* pages the heap asks to be guard pages

VARIABLES
    boot,    \* the boot information the loader left
    paging,  \* OrynKernelVirtualMemory
    entries, \* the leaf entries of the new tables: page to physical page
    pageTables, \* leaf tables that exist, and the frames left for others
    stage    \* the range that is mapped next

bootPagingVars == <<boot, paging, entries, pageTables, stage>>

Stages == <<"low", "stack", "vga", "kernel", "kernelVirtual", "bootInfo", "memoryMap", "font", "framebuffer">>

AlignDown(a) == a \div PageCells
AlignUp(a) == (a + PageCells - 1) \div PageCells

\* The pages of a range: none when it is empty.
PagesOf(start, cells) == IF cells = 0 THEN {} ELSE AlignDown(start) .. AlignUp(start + cells) - 1

\* IsInsideKernelVirtualRange.
InsideKernel(start, cells) ==
    /\ boot.hasVirtual /\ boot.virtSize # 0 /\ cells # 0
    /\ start >= boot.virtBase /\ start + cells <= boot.virtBase + boot.virtSize

\* MapVirtualRangeToPhysical and MapRange: what each page of a range maps to.
ToPhysical(v, p, cells) ==
    [pg \in PagesOf(v, cells) |-> AlignDown(AlignDown(p) * PageCells + (v % PageCells)) + (pg - AlignDown(v))]

Identity(start, cells) == [pg \in PagesOf(start, cells) |-> pg]

KernelOrIdentity(start, cells) ==
    IF InsideKernel(start, cells)
    THEN ToPhysical(start, boot.physBase + (start - boot.virtBase), cells)
    ELSE Identity(start, cells)

StackStart == IF boot.rsp > HalfWindow THEN boot.rsp - HalfWindow ELSE 0

\* The window around the stack pointer, aligned outwards.
StackWindow ==
    LET a == AlignDown(StackStart) * PageCells
    IN  KernelOrIdentity(a, AlignUp(boot.rsp + HalfWindow) * PageCells - a)

KernelVirtualRange == ToPhysical(boot.virtBase, boot.physBase, boot.virtSize)

\* Mutant of BootInfoRange: boot information that is in the kernel is mapped to itself.
BootInfoRangeIdentity == Identity(boot.info, boot.infoCells)

BootInfoRange == KernelOrIdentity(boot.info, boot.infoCells)

\* What each of the nine Map...Range functions maps, a missing flag maps nothing.
RangeOf(s) ==
    CASE s = "low" -> Identity(0, LowCells)
      [] s = "stack" -> StackWindow
      [] s = "vga" -> Identity(boot.vga, 1)
      [] s = "kernel" -> IF boot.hasRange THEN Identity(boot.physBase, boot.size) ELSE <<>>
      [] s = "kernelVirtual" -> IF boot.hasVirtual THEN KernelVirtualRange ELSE <<>>
      [] s = "bootInfo" -> BootInfoRange
      [] s = "memoryMap" -> IF boot.hasMap THEN Identity(boot.map, boot.mapCells) ELSE <<>>
      [] s = "font" -> IF boot.hasFont THEN Identity(boot.font, boot.fontCells) ELSE <<>>
      [] s = "framebuffer" -> IF boot.fbUsable THEN Identity(boot.fb, boot.fbCells) ELSE <<>>

BootPagingInit ==
    /\ boot \in Boots /\ entries = <<>> /\ stage = 1
    /\ \E n \in Budgets : pageTables = [made |-> {}, left |-> n]
    /\ paging = [active |-> FALSE, ready |-> FALSE, failed |-> FALSE, kernelStart |-> 0, kernelEnd |-> 0,
                 virtStart |-> 0, virtEnd |-> 0, guards |-> {}]

\* GetOrCreateNextTable: the leaf tables the pages still lack.
Missing(range) == {pg \div TableSpan : pg \in DOMAIN range} \ pageTables.made

\* AllocateTable succeeds for all the tables of a range.
Enough(range) == Cardinality(Missing(range)) <= pageTables.left

\* One of the ranges of OrynVirtualMemoryInit is mapped; later ones write over
\* earlier ones.
MapStage ==
    /\ stage \in DOMAIN Stages /\ ~paging.failed
    /\ Stages[stage] = "kernelVirtual" => boot.hasVirtual
    /\ LET r == RangeOf(Stages[stage]) IN
         /\ Enough(r)
         /\ entries' = r @@ entries
         /\ pageTables' = [made |-> pageTables.made \cup Missing(r), left |-> pageTables.left - Cardinality(Missing(r))]
    /\ paging' = CASE Stages[stage] = "kernel" /\ boot.hasRange ->
                        [paging EXCEPT !.kernelStart = AlignDown(boot.physBase), !.kernelEnd = AlignUp(boot.physBase + boot.size)]
                   [] Stages[stage] = "kernelVirtual" ->
                        [paging EXCEPT !.virtStart = AlignDown(boot.virtBase), !.virtEnd = AlignUp(boot.virtBase + boot.virtSize)]
                   [] OTHER -> paging
    /\ stage' = stage + 1
    /\ UNCHANGED boot

\* No frame for a table, or no virtual layout: the firmware's tables stay.
MapStageFails ==
    /\ stage \in DOMAIN Stages /\ ~paging.failed
    /\ \/ ~Enough(RangeOf(Stages[stage]))
       \/ Stages[stage] = "kernelVirtual" /\ ~boot.hasVirtual
    /\ paging' = [paging EXCEPT !.failed = TRUE]
    /\ UNCHANGED <<boot, entries, pageTables, stage>>

\* OrynVirtualMemoryWriteCr3 and what follows it.
SwitchCr3 ==
    /\ stage = Len(Stages) + 1 /\ ~paging.failed /\ ~paging.active
    /\ paging' = [paging EXCEPT !.active = TRUE]
    /\ stage' = stage + 1
    /\ UNCHANGED <<boot, entries, pageTables>>

\* ValidateEveryHigherHalfPage.
EveryPageProved ==
    /\ paging.virtEnd > paging.virtStart
    /\ \A pg \in paging.virtStart .. paging.virtEnd - 1 :
          pg \in DOMAIN entries /\ entries[pg] = paging.kernelStart + (pg - paging.virtStart)

\* OrynVirtualMemoryValidateHigherHalfKernelMap; after the switch a failure is
\* only reported.
Validates ==
    /\ paging.virtStart >= HighBase
    /\ AlignDown(boot.entryVirt) \in paging.virtStart .. paging.virtEnd - 1
    /\ AlignDown(boot.entryPhys) \in paging.kernelStart .. paging.kernelEnd - 1
    /\ paging.kernelEnd > paging.kernelStart
    /\ paging.kernelEnd - paging.kernelStart = paging.virtEnd - paging.virtStart
    /\ EveryPageProved

ValidateHigherHalf ==
    /\ paging.active /\ ~paging.ready /\ ~paging.failed
    /\ paging' = IF Validates THEN [paging EXCEPT !.ready = TRUE] ELSE [paging EXCEPT !.failed = TRUE]
    /\ UNCHANGED <<boot, entries, pageTables, stage>>

\* The heap's guard pages lose their entry when there is a table for them.
UnmapGuardPage(pg) ==
    /\ paging.ready /\ pg \div TableSpan \in pageTables.made /\ pg \notin paging.guards
    /\ entries' = [q \in DOMAIN entries \ {pg} |-> entries[q]]
    /\ paging' = [paging EXCEPT !.guards = @ \cup {pg}]
    /\ UNCHANGED <<boot, pageTables, stage>>

BootPagingNext ==
    \/ MapStage \/ MapStageFails \/ SwitchCr3 \/ ValidateHigherHalf
    \/ \E pg \in GuardPages : UnmapGuardPage(pg)

BootPagingSpec == BootPagingInit /\ [][BootPagingNext]_bootPagingVars

BootPagingTypeOK ==
    /\ boot \in Boots /\ stage \in 1 .. Len(Stages) + 2 /\ pageTables.left \in Nat
    /\ \A pg \in DOMAIN entries : pg \in Nat /\ entries[pg] \in Nat
    /\ {paging.active, paging.ready, paging.failed} \subseteq BOOLEAN

\* What an address meant under the loader's tables.
Before(a) == IF InsideKernel(a, 1) THEN AlignDown(boot.physBase + (a - boot.virtBase)) ELSE AlignDown(a)

\* The instruction after the CR3 write finds everything where it was: the stack,
\* every page of the kernel, the boot information and the memory map, unless the
\* heap has since made a page a guard page.
SwitchIsSafe ==
    paging.active =>
        \A a \in {boot.rsp, boot.entryVirt, boot.info, boot.info + boot.infoCells - 1}
                   \cup (IF boot.hasMap THEN {boot.map} ELSE {}) :
            AlignDown(a) \in paging.guards \/
                (AlignDown(a) \in DOMAIN entries /\ entries[AlignDown(a)] = Before(a))

\* A kernel with both ranges, of equal size and with its entry in them.
Consistent ==
    /\ boot.hasRange /\ AlignDown(boot.virtBase) >= HighBase
    /\ Cardinality(PagesOf(boot.physBase, boot.size)) = Cardinality(PagesOf(boot.virtBase, boot.virtSize))

\* After the switch the higher-half proof succeeds for the consistent layouts and
\* for no other: no range mapped before or after the kernel hides a page of it,
\* and a kernel whose windows differ in size is not called ready.
ReadyIsExact ==
    paging.active /\ (paging.ready \/ paging.failed) => (paging.ready <=> Consistent)

\* A guard page has no entry and stays without one.
GuardsUnmapped == paging.guards \cap DOMAIN entries = {}

\* Every page that is mapped has its leaf table and tables are never made twice:
\* the frames used are the tables made.
TablesAccounted ==
    /\ {pg \div TableSpan : pg \in DOMAIN entries} \subseteq pageTables.made
    /\ pageTables.left + Cardinality(pageTables.made) \in Budgets

\* The kernel's own page tables are complete when they are switched to, proved
\* only for the layouts they fit, and built of the frames that are counted
\* (KernelVirtualMemory.c, KernelVirtualMemoryGuard.c).
BootPagingSound ==
    /\ BootPagingTypeOK
    /\ SwitchIsSafe
    /\ ReadyIsExact
    /\ GuardsUnmapped
    /\ TablesAccounted

=============================================================================
