-------------------------------- MODULE MCMemory --------------------------------
(***************************************************************************)
(* Memory and processes: one behaviour exercises one of the four           *)
(* components, chosen at the start, while the others stay as they are.     *)
(* SpacesSound, OneObserver and ProcessesSound are those of the modules    *)
(* this one extends.                                                       *)
(***************************************************************************)
EXTENDS VirtualMemory, Process

CONSTANTS
    HeapPages, PageUnits, HeaderUnits, MinSplit, MaxSpan, SlabSizes, Requests, ObjectSize,
    MaxGuards, MaxLive,
    Boots, Budgets, PageCells, TableSpan, LowCells, HalfWindow, HighBase, GuardPages,
    Parts    \* the components that are exercised

VARIABLES
    part,
    heap, owned,
    boot, paging, entries, pageTables, stage

HP == INSTANCE Heap
BP == INSTANCE BootPaging

ASSUME SpacesAssumption == SpacesConstants /\ SingleCopies

ASSUME ProcessAssumption == ProcessConstants

heapVars == <<heap, owned>>
bootPagingVars == <<boot, paging, entries, pageTables, stage>>
vars == <<part, spacesVars, heapVars, processVars, bootPagingVars>>

MCRights == {<<TRUE, FALSE>>, <<FALSE, TRUE>>, <<TRUE, TRUE>>}
MCSlabs == <<1>>

\* Kernels of two pages, aligned or not, the boot information in the kernel or
\* below it, the stack inside and outside the low range, flags present or not.
MCBoots ==
    {[hasRange |-> f # "range", hasVirtual |-> f # "virtual", hasMap |-> f # "map", hasFont |-> f # "font",
      fbUsable |-> f # "fb", physBase |-> 8 + off, size |-> sz, virtBase |-> 40 + off, virtSize |-> 4,
      entryPhys |-> 9, entryVirt |-> 41, rsp |-> sp, vga |-> 2, info |-> i, infoCells |-> 2,
      map |-> 16, mapCells |-> 3, font |-> 20, fontCells |-> 1, fb |-> fb, fbCells |-> 3] :
        f \in {"none", "range", "virtual", "map", "font", "fb"}, off \in {0, 1}, sz \in {4, 6},
        sp \in {3, 13}, i \in {2, 41}, fb \in {9, 24}}

Init ==
    /\ part \in Parts
    /\ SpacesInit /\ ProcessInit
    /\ IF part = "heap" THEN HP!HeapInit
       ELSE heap = (CHOOSE h \in HP!Primed(HP!EmptyHeap) : TRUE) /\ owned = <<>>
    /\ IF part = "boot" THEN BP!BootPagingInit
       ELSE /\ boot = CHOOSE b \in Boots : TRUE
            /\ entries = <<>> /\ stage = 1 /\ pageTables = [made |-> {}, left |-> CHOOSE n \in Budgets : TRUE]
            /\ paging = [active |-> FALSE, ready |-> FALSE, failed |-> FALSE, kernelStart |-> 0,
                         kernelEnd |-> 0, virtStart |-> 0, virtEnd |-> 0, guards |-> {}]

Next ==
    /\ UNCHANGED part
    /\ \/ part = "vm" /\ SpacesNext /\ UNCHANGED <<heapVars, processVars, bootPagingVars>>
       \/ part = "heap" /\ HP!HeapNext /\ UNCHANGED <<spacesVars, processVars, bootPagingVars>>
       \/ part = "process" /\ ProcessNext /\ UNCHANGED <<spacesVars, heapVars, bootPagingVars>>
       \/ part = "boot" /\ BP!BootPagingNext /\ UNCHANGED <<spacesVars, heapVars, processVars>>

Spec == Init /\ [][Next]_vars

-----------------------------------------------------------------------------
\* The heap gives each byte to one caller and its books agree (Heap!HeapSound).
HeapSound == part = "heap" => HP!HeapSound

\* The kernel's own page tables are complete when they are switched to (BootPaging!BootPagingSound).
BootPagingSound == part = "boot" => BP!BootPagingSound
=============================================================================
