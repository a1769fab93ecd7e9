------------------------------ MODULE BootInfo ------------------------------
(***************************************************************************)
(* The record the loader hands to the kernel, its checksum, the kernel's   *)
(* validation of it and the memory map the kernel builds from it           *)
(* (OrynBootInfo.h, KernelBootInfoValidate.c, KernelMemoryMap.c).          *)
(*                                                                         *)
(* Flag words are sets of flag names, pointers are model addresses with 0  *)
(* for null, and the CRC32 is the covered content itself: two contents     *)
(* have the same checksum only when they are equal.                        *)
(***************************************************************************)
EXTENDS Integers, Sequences, FiniteSets

CONSTANTS
    MaxTables,       \* ORYN_BOOTINFO_MAX_CONFIGURATION_TABLES
    MaxCommandLine,  \* ORYN_BOOTINFO_MAX_COMMAND_LINE
    MaxMapEntries,   \* ORYN_KERNEL_MEMORY_MAX_ENTRIES
    PageSize         \* cells per page

\* The items a project may select or drop (ORYN_BOOTINFO_WANT_*).
Items == {"range", "map", "framebuffer", "rsdp", "firmware", "tables",
          "nvram", "runtime"}

KnownFlags == Items \cup {"layout", "font", "commandline", "config"}

AbiVersion == 7

AbiSize == 2216

NoFramebuffer == [base |-> 0, width |-> 0, pitch |-> 0, format |-> "unknown"]

NoNvram == [version |-> 0, getVariable |-> FALSE, bootOrder |-> 0]

NoRuntime == [version |-> 0, table |-> 0, services |-> {}]

NoConfig == [version |-> 0, project |-> FALSE, commandLine |-> 0]

\* A cleared OrynBootInfo.
EmptyInfo ==
    [Signature |-> FALSE, Version |-> 0, Size |-> 0, Flags |-> {},
     MemoryMap |-> <<>>, Framebuffer |-> NoFramebuffer, Rsdp |-> 0,
     Tables |-> <<>>, KernelBase |-> 0, KernelSize |-> 0, VirtualBase |-> 0,
     VirtualSize |-> 0, EntryPhysical |-> 0, EntryVirtual |-> 0, Font |-> 0,
     UefiRevision |-> 0, Nvram |-> NoNvram, Runtime |-> NoRuntime,
     Config |-> NoConfig, HandoffChecksum |-> <<>>]

\* OrynBootInfoAbiIsCompatible.
AbiIsCompatible(b) ==
    /\ b.Signature
    /\ b.Version = AbiVersion
    /\ b.Size >= AbiSize
    /\ b.Flags \subseteq KnownFlags

\* A flagged pointer block must be there (OrynBootInfoChecksumAppendPointerBlock).
Appendable(b) ==
    /\ "map" \in b.Flags => b.MemoryMap # <<>>
    /\ "font" \in b.Flags => b.Font # 0

\* OrynBootInfoComputeHandoffChecksum: <<>> stands for 0, "not computable".
\* The memory map and the font are covered only when their flags are set.
ComputeHandoffChecksum(b) ==
    IF ~AbiIsCompatible(b) \/ ~Appendable(b) THEN <<>>
    ELSE <<[b EXCEPT !.HandoffChecksum = <<>>,
                     !.MemoryMap = IF "map" \in b.Flags THEN @ ELSE <<>>,
                     !.Font = IF "font" \in b.Flags THEN @ ELSE 0]>>

\* OrynBootInfoVerifyHandoffChecksum.
VerifyHandoffChecksum(b) ==
    b.HandoffChecksum # <<>> /\ ComputeHandoffChecksum(b) = b.HandoffChecksum

-----------------------------------------------------------------------------

\* The content checks of KernelBootInfoValidate: one per flagged block.
ValidKernelRange(b) ==
    "range" \in b.Flags => b.KernelBase # 0 /\ b.KernelSize # 0

ValidKernelVirtualLayout(b) ==
    /\ "layout" \in b.Flags
    /\ 0 \notin {b.VirtualBase, b.VirtualSize, b.EntryPhysical, b.EntryVirtual}
    /\ b.VirtualSize = b.KernelSize

ValidFramebuffer(b) ==
    "framebuffer" \in b.Flags =>
        /\ b.Framebuffer.base # 0 /\ b.Framebuffer.width # 0
        /\ b.Framebuffer.pitch >= b.Framebuffer.width
        /\ b.Framebuffer.format # "unknown"

ValidPlatformTables(b) ==
    "tables" \in b.Flags => Len(b.Tables) \in 1 .. MaxTables

ValidNvramSnapshot(b) ==
    "nvram" \in b.Flags => b.Nvram.version = 1 /\ b.Nvram.getVariable

ValidRuntimeServices(b) ==
    "runtime" \in b.Flags =>
        b.Runtime.version = 1 /\ b.Runtime.table # 0 /\ b.Runtime.services # {}

ValidBootConfiguration(b) ==
    /\ "config" \in b.Flags /\ b.Config.version = 1 /\ b.Config.project
    /\ b.Config.commandLine > 0 =>
           "commandline" \in b.Flags /\ b.Config.commandLine < MaxCommandLine

\* KernelBootInfoValidate: the ABI, then the checksum, then the items the
\* build dropped, then the blocks. Items that are wanted and missing only warn.
KernelBootInfoValidate(b, want) ==
    /\ AbiIsCompatible(b)
    /\ VerifyHandoffChecksum(b)
    /\ b.Flags \cap Items \subseteq want
    /\ ValidKernelRange(b) /\ ValidKernelVirtualLayout(b)
    /\ "map" \in b.Flags => b.MemoryMap # <<>>
    /\ ValidFramebuffer(b) /\ ValidPlatformTables(b)
    /\ "rsdp" \in b.Flags => b.Rsdp # 0
    /\ "firmware" \in b.Flags => b.UefiRevision # 0
    /\ ValidNvramSnapshot(b) /\ ValidRuntimeServices(b)
    /\ "font" \in b.Flags => b.Font # 0
    /\ ValidBootConfiguration(b)

-----------------------------------------------------------------------------

\* EFI_MEMORY_TYPE, as far as the kernel treats its types differently; what it
\* knows no use for is "reserved".
MemoryTypes == {"conventional", "loader", "bootservices", "runtime", "reserved"}

\* ClassifyUefiType on the UEFI types the model uses.
ClassifyUefiType(t) ==
    CASE t = "conventional" -> "usable"
      [] t \in {"loader", "bootservices"} -> "reclaim"
      [] t = "runtime" -> "runtime"
      [] OTHER -> "reserved"

Overlaps(a, n, b, m) == a < b + m /\ b < a + n

\* ClassifyEntry: any overlap with the kernel range reserves the whole entry.
ClassifyEntry(b, e) ==
    IF /\ "range" \in b.Flags
       /\ Overlaps(e.start * PageSize, e.pages * PageSize, b.KernelBase, b.KernelSize)
    THEN "kernel" ELSE ClassifyUefiType(e.type)

\* OrynMemoryMapBuildFromBootInfo: the first MaxMapEntries entries, classified.
BuildMemoryMap(b) ==
    IF "map" \notin b.Flags \/ b.MemoryMap = <<>> THEN <<>>
    ELSE [i \in 1 .. (IF Len(b.MemoryMap) > MaxMapEntries THEN MaxMapEntries
                      ELSE Len(b.MemoryMap)) |->
             [type |-> ClassifyEntry(b, b.MemoryMap[i]),
              start |-> b.MemoryMap[i].start, pages |-> b.MemoryMap[i].pages]]

=============================================================================
