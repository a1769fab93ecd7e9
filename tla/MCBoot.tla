------------------------------- MODULE MCBoot -------------------------------
(***************************************************************************)
(* The way from the firmware to KernelMain: one behaviour exercises the    *)
(* loader (up to the kernel's validation of the record) or the start of    *)
(* the kernel's modules. HandoffSound is that of Loader, StartupSound and  *)
(* PanicHalts are those of Startup.                                        *)
(***************************************************************************)
EXTENDS Startup, KernelModules, Loader

CONSTANTS
    Parts    \* the components that are exercised

VARIABLES part

vars == <<part, loaderVars, startupVars>>

\* Everything, everything without one item, only the kernel range.
MCSelections ==
    LET All == {"range", "map", "framebuffer", "rsdp", "tables", "nvram", "runtime", "firmware"}
    IN  {All, {"range"}} \cup {All \ {i} : i \in All}

MCFirmwares ==
    {[tables |-> t, services |-> v, graphics |-> g, commandLine |-> IF v = {} THEN 0 ELSE 1] :
        t \in {<<>>, <<"acpi20", "acpi10">>, <<"acpi10", "other", "acpi20">>},
        v \in {{}, {"GetVariable"}}, g \in {"none", "blt", "linear"}}

Segment(o, f, m, p, v) == [offset |-> o, filesz |-> f, memsz |-> m, paddr |-> p, vaddr |-> v]

\* Two segments with zero fill, one that starts inside a page, one whose
\* requested pages are not free, and the images the loader must turn away: a segment outside the file,
\* windows of different sizes, an entry outside the segments.
MCImages ==
    {[elf |-> TRUE, size |-> 5, segments |-> <<Segment(1, 2, 3, 4, 64), Segment(3, 2, 2, 8, 68)>>, entry |-> 65],
     [elf |-> TRUE, size |-> 4, segments |-> <<Segment(1, 2, 3, 5, 65)>>, entry |-> 66],
     [elf |-> TRUE, size |-> 6, segments |-> <<Segment(1, 2, 2, 12, 64), Segment(3, 2, 3, 17, 69)>>, entry |-> 70],
     [elf |-> TRUE, size |-> 2, segments |-> <<Segment(1, 2, 3, 4, 64)>>, entry |-> 65],
     [elf |-> TRUE, size |-> 5, segments |-> <<Segment(1, 2, 2, 4, 64), Segment(3, 2, 2, 8, 72)>>, entry |-> 65],
     [elf |-> TRUE, size |-> 5, segments |-> <<Segment(1, 2, 2, 4, 64)>>, entry |-> 70],
     [elf |-> FALSE, size |-> 5, segments |-> <<Segment(1, 2, 2, 4, 64)>>, entry |-> 65]}

\* Firmwares keep page 0 to themselves.
MCFirmwareMap == <<[type |-> "bootservices", start |-> 0, pages |-> 1],
                   [type |-> "conventional", start |-> 1, pages |-> 2],
                   [type |-> "runtime", start |-> 3, pages |-> 1],
                   [type |-> "conventional", start |-> 4, pages |-> 8]>>

VmTokens == {"VmPic", "VmApic", "VmSmp", "VmHpet"}
InfoTokens == {"Framebuffer", "Rsdp", "MemoryMap", "KernelRange"}
MCProfiles == {VmTokens, {}, VmTokens \ {"VmPic"}, VmTokens \ {"VmHpet"}}
MCFlagSets == {InfoTokens, {}, InfoTokens \ {"MemoryMap"}, InfoTokens \ {"Framebuffer"}}
MCManifest == KernelManifest
MCBuilds == {1 .. 24, (1 .. 24) \ {18}}

\* The table the build generates is one the proofs about Startup apply to.
ASSUME StartupAssumption == StartupConstants

ASSUME LoaderAssumption == LoaderConstants

Init ==
    /\ part \in Parts
    /\ IF part = "loader" THEN LoaderInit
       ELSE LoaderInit /\ <<want, firmware, image>> =
                <<CHOOSE x \in Selections : TRUE, CHOOSE x \in Firmwares : TRUE, CHOOSE x \in Images : TRUE>>
    /\ IF part = "startup" THEN StartupInit
       ELSE StartupInit /\ <<profile, bootFlags, build>> =
                <<CHOOSE x \in Profiles : TRUE, CHOOSE x \in FlagSets : TRUE, CHOOSE x \in Builds : TRUE>>

Next ==
    /\ UNCHANGED part
    /\ \/ part = "loader" /\ LoaderNext /\ UNCHANGED startupVars
       \/ part = "startup" /\ StartupNext /\ UNCHANGED loaderVars

\* The loader and the panic path are straight-line code on the only running
\* CPU; nothing pre-empts them.
Spec == /\ Init /\ [][Next]_vars
        /\ WF_vars(part = "loader" /\ LoaderStep /\ UNCHANGED <<part, startupVars>>)
        /\ WF_vars(part = "startup" /\ (RunCallbacks \/ PanicReport) /\ UNCHANGED <<part, loaderVars>>)

-----------------------------------------------------------------------------
\* The loader comes to an end, in the kernel or back in the firmware, however
\* often the firmware changes the map (Loader!LoaderFinishes, BootX64Handoff.c:194).
LoaderEnds == part = "loader" => LoaderFinishes
=============================================================================
