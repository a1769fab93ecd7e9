-------------------------- MODULE MCPhysicalMemory --------------------------
(***************************************************************************)
(* Instance of PhysicalMemory for TLC.  The map has a page below the       *)
(* allocation floor, a gap, three adjacent pages and one page more than    *)
(* the free array can hold; there is one ownership record fewer than there *)
(* are tracked pages, so the record table overflows.                       *)
(***************************************************************************)
EXTENDS PhysicalMemory

MCMemoryMap == <<1, 3, 5, 6, 4, 9>>
MCConstraints ==
    {[MinAddress |-> 0, MaxExclusiveAddress |-> 0, Alignment |-> 0,
      PageCount |-> 2, DmaSafe |-> TRUE, Owner |-> "Dma"],
     [MinAddress |-> 4, MaxExclusiveAddress |-> 0, Alignment |-> 2,
      PageCount |-> 0, DmaSafe |-> FALSE, Owner |-> "Free"]}
MCRanges == {[first |-> 4, end |-> 6]}
MCLimits == {5}
MCWatermarks == {0, 2}
=============================================================================
