------------------------------- MODULE Loader -------------------------------
(***************************************************************************)
(* BOOTX64.EFI: it reads and places the kernel ELF, fills the BootInfo     *)
(* record from what the firmware offers, builds the first page tables,     *)
(* takes the memory map, seals the checksum, leaves boot services (four    *)
(* attempts, because the firmware may change the map in between) and jumps *)
(* to the kernel, which adopts and validates the record.                   *)
(*                                                                         *)
(* The firmware is external: its memory map is a sequence of regions, any  *)
(* service may fail before ExitBootServices, and it may change the map     *)
(* between GetMemoryMap and ExitBootServices.                              *)
(***************************************************************************)
EXTENDS BootInfo

CONSTANTS
    Selections,     \* the ORYN_BOOTINFO_WANT_* choices explored
    Firmwares,      \* what firmwares offer: tables, services, graphics
    Images,         \* kernel files on the ESP
    FirmwareMap,    \* the memory map at the start
    Cells,          \* size of physical memory, in cells
    IdentityPages,  \* ORYN_IDENTITY_MAP_BYTES, in pages
    Slack,          \* spare descriptors of AllocateMemoryMapStorage (32)
    MaxAttempts,    \* attempts of ExitBootServicesWithBootInfo (4)
    MaxGrowth       \* bound: map growths caused by the firmware itself

VARIABLES lstage, want, firmware, image, fwmap, memory, layout, info, tables,
          storage, stale, attempt, growth, corrupted, accepted

loaderVars == <<lstage, want, firmware, image, fwmap, memory, layout, info,
                tables, storage, stale, attempt, growth, corrupted, accepted>>

NoLayout == [PhysicalBase |-> 0, PhysicalSize |-> 0, VirtualBase |-> 0,
             VirtualSize |-> 0, EntryPhysical |-> 0, EntryVirtual |-> 0]

AlignDownPage(a) == a - (a % PageSize)

AlignUpPage(a) == AlignDownPage(a + PageSize - 1)

Least(S) == CHOOSE x \in S : \A y \in S : x <= y

Greatest(S) == CHOOSE x \in S : \A y \in S : y <= x

LoaderInit ==
    /\ lstage = "start"
    /\ want \in Selections /\ firmware \in Firmwares /\ image \in Images
    /\ fwmap = FirmwareMap
    /\ memory = [a \in 0 .. Cells - 1 |-> -1]
    /\ layout = NoLayout /\ info = EmptyInfo /\ tables = <<>>
    /\ storage = 0 /\ stale = FALSE /\ attempt = 0 /\ growth = 0
    /\ corrupted = FALSE /\ accepted = "unknown"

-----------------------------------------------------------------------------

\* The regions before, in and after a range taken out of region i.
Carve(m, i, start, pages, type) ==
    LET r == m[i]
        before == [type |-> r.type, start |-> r.start, pages |-> start - r.start]
        taken  == [type |-> type, start |-> start, pages |-> pages]
        after  == [type |-> r.type, start |-> start + pages,
                   pages |-> r.start + r.pages - (start + pages)]
        Piece(p) == IF p.pages > 0 THEN <<p>> ELSE <<>>
    IN  SubSeq(m, 1, i - 1) \o Piece(before) \o <<taken>> \o Piece(after)
            \o SubSeq(m, i + 1, Len(m))

\* The conventional regions that hold the pages from start on.
Holding(m, start, pages) ==
    {i \in 1 .. Len(m) : /\ m[i].type = "conventional"
                         /\ m[i].start <= start
                         /\ start + pages <= m[i].start + m[i].pages}

Roomy(m, pages) ==
    {i \in 1 .. Len(m) : m[i].type = "conventional" /\ m[i].pages >= pages}

\* AllocatePool / AllocatePages of the firmware for one page, from the last region.
AllocatePage(m, type) ==
    LET i == Greatest(Roomy(m, 1))
    IN  Carve(m, i, m[i].start + m[i].pages - 1, 1, type)

\* Every failed service and every rejected input returns to the firmware.
ReturnToFirmware ==
    /\ lstage \in {"start", "read", "loaded", "info", "paged", "sized"}
    /\ lstage' = "returned"
    /\ UNCHANGED <<want, firmware, image, fwmap, memory, layout, info, tables,
                   storage, stale, attempt, growth, corrupted, accepted>>

\* OpenKernelFile, ReadKernelFile and the optional font, whose absence is ignored.
ReadFiles ==
    /\ lstage = "start"
    /\ Roomy(fwmap, 1) # {}
    /\ fwmap' = AllocatePage(fwmap, "loader")
    /\ \E font \in {0, 1} : info' = [info EXCEPT !.Font = font]
    /\ lstage' = "read"
    /\ UNCHANGED <<want, firmware, image, memory, layout, tables, storage,
                   stale, attempt, growth, corrupted, accepted>>

-----------------------------------------------------------------------------

\* FindElfLayout: both windows, page aligned, and the entry's physical address.
FindElfLayout(im) ==
    LET S == {im.segments[i] : i \in 1 .. Len(im.segments)}
        low == Least({AlignDownPage(s.paddr) : s \in S})
        vlow == Least({AlignDownPage(s.vaddr) : s \in S})
        In(s) == im.entry >= s.vaddr /\ im.entry < s.vaddr + s.memsz
    IN  [PhysicalBase |-> low,
         PhysicalSize |-> Greatest({AlignUpPage(s.paddr + s.memsz) : s \in S}) - low,
         VirtualBase |-> vlow,
         VirtualSize |-> Greatest({AlignUpPage(s.vaddr + s.memsz) : s \in S}) - vlow,
         EntryPhysical |-> IF \E s \in S : In(s)
                           THEN LET s == CHOOSE s \in S : In(s)
                                IN  s.paddr + (im.entry - s.vaddr)
                           ELSE 0,
         EntryVirtual |-> im.entry]

\* ValidateElf and the checks of FindElfLayout.
Loadable(im) ==
    /\ im.elf /\ im.segments # <<>>
    /\ \A i \in 1 .. Len(im.segments) :
           LET s == im.segments[i]
           IN  s.offset + s.filesz <= im.size /\ s.memsz >= s.filesz
    /\ LET l == FindElfLayout(im)
       IN  /\ l.PhysicalSize > 0 /\ l.VirtualSize > 0 /\ l.EntryPhysical # 0
           /\ l.PhysicalSize = l.VirtualSize

\* What Kernel.ld links: segments that lie as far apart in memory as in the
\* kernel's window, whole pages away from it, that share no cell, and a window
\* above the identity mapping.
Linked(im) ==
    /\ \A i, j \in 1 .. Len(im.segments) :
           im.segments[i].vaddr - im.segments[i].paddr = im.segments[j].vaddr - im.segments[j].paddr
    /\ \A i, j \in 1 .. Len(im.segments) :
           i < j => \/ im.segments[i].paddr + im.segments[i].memsz <= im.segments[j].paddr
                    \/ im.segments[j].paddr + im.segments[j].memsz <= im.segments[i].paddr
    /\ \A i \in 1 .. Len(im.segments) :
           /\ (im.segments[i].vaddr - im.segments[i].paddr) % PageSize = 0
           /\ im.segments[i].vaddr >= IdentityPages * PageSize

\* The firmware keeps page 0 to itself. Files that are not loaded are arbitrary.
LoaderConstants ==
    /\ PageSize \in Nat \ {0} /\ IdentityPages \in Nat \ {0} /\ MaxAttempts \in Nat \ {0}
    /\ {MaxTables, MaxCommandLine, MaxMapEntries, Cells, Slack, MaxGrowth} \subseteq Nat
    /\ Selections \subseteq SUBSET Items
    /\ \A f \in Firmwares :
           /\ f.tables \in Seq(STRING) /\ f.services \subseteq STRING /\ f.graphics \in STRING
           /\ f.commandLine \in Nat /\ (f.commandLine > 0 => f.commandLine < MaxCommandLine)
    /\ \A im \in Images :
           /\ im.elf \in BOOLEAN /\ im.size \in Nat /\ im.entry \in Nat
           /\ im.segments \in Seq([offset : Nat, filesz : Nat, memsz : Nat, paddr : Nat, vaddr : Nat])
           /\ Loadable(im) => Linked(im)
    /\ FirmwareMap \in Seq([type : MemoryTypes, start : Nat, pages : Nat \ {0}]) \ {<<>>}
    /\ \A i \in 1 .. Len(FirmwareMap) :
           /\ FirmwareMap[i].start + FirmwareMap[i].pages <= Cells \div PageSize
           /\ FirmwareMap[i].type = "conventional" => FirmwareMap[i].start > 0

\* What a segment puts in the cell that lies at its offset k.
SegmentCell(s, k) == IF k < s.filesz THEN s.offset + k ELSE 0

\* CopyElfSegments: later segments overwrite earlier ones.
CopyElfSegments(mem, im, requested, actual) ==
    [a \in DOMAIN mem |->
        LET Covering == {i \in 1 .. Len(im.segments) :
                            LET d == actual + (im.segments[i].paddr - requested)
                            IN  d <= a /\ a < d + im.segments[i].memsz}
        IN  IF Covering = {} THEN mem[a]
            ELSE LET s == im.segments[Greatest(Covering)]
                 IN  SegmentCell(s, a - (actual + (s.paddr - requested)))]

\* Mutant of Relocated: the entry keeps its requested address.
RelocatedBaseOnly(l, actual) == [l EXCEPT !.PhysicalBase = actual]

\* The layout after the load: base and entry move with the allocation.
Relocated(l, actual) ==
    [l EXCEPT !.PhysicalBase = actual,
              !.EntryPhysical = actual + (l.EntryPhysical - l.PhysicalBase)]

\* LoadElfSegments: the requested address if it is free, otherwise any pages.
LoadElfSegments ==
    /\ lstage = "read"
    /\ Loadable(image)
    /\ \E l \in {FindElfLayout(image)} :
       LET pages == l.PhysicalSize \div PageSize
           start == l.PhysicalBase \div PageSize
           Place(i, at) ==
               /\ fwmap' = Carve(fwmap, i, at, pages, "loader")
               /\ memory' = CopyElfSegments(memory, image, l.PhysicalBase, at * PageSize)
               /\ layout' = Relocated(l, at * PageSize)
       IN  IF Holding(fwmap, start, pages) # {}
           THEN Place(Least(Holding(fwmap, start, pages)), start)
           ELSE \E i \in Roomy(fwmap, pages) : Place(i, fwmap[i].start)
    /\ lstage' = "loaded"
    /\ UNCHANGED <<want, firmware, image, info, tables, storage, stale,
                   attempt, growth, corrupted, accepted>>

-----------------------------------------------------------------------------

\* FillBaseBootInfo and FillBootConfiguration.
FillBaseBootInfo(l, font) ==
    [EmptyInfo EXCEPT
        !.Signature = TRUE, !.Version = AbiVersion, !.Size = AbiSize,
        !.KernelBase = IF "range" \in want THEN l.PhysicalBase ELSE 0,
        !.KernelSize = IF "range" \in want THEN l.PhysicalSize ELSE 0,
        !.VirtualBase = l.VirtualBase, !.VirtualSize = l.VirtualSize,
        !.EntryPhysical = l.EntryPhysical, !.EntryVirtual = l.EntryVirtual,
        !.Font = font,
        !.Config = [version |-> 1, project |-> TRUE,
                    commandLine |-> firmware.commandLine],
        !.Flags = {"layout", "config"} \cup (want \cap {"range"})
                  \cup (IF font # 0 THEN {"font"} ELSE {})
                  \cup (IF firmware.commandLine > 0 THEN {"commandline"} ELSE {})]

CaptureFirmwareData(b) ==
    IF "firmware" \notin want THEN b
    ELSE [b EXCEPT !.UefiRevision = 2, !.Flags = @ \cup {"firmware"}]

\* StoreConfigurationTable and StoreDirectPlatformPointer over the tables that
\* fit: ACPI 2.0 always sets Rsdp, ACPI 1.0 only when it is not set yet.
CapturedRsdp(t) ==
    LET Acpi20 == {i \in 1 .. Len(t) : t[i] = "acpi20"}
        Acpi10 == {i \in 1 .. Len(t) : t[i] = "acpi10"}
    IN  IF Acpi20 # {} THEN Greatest(Acpi20)
        ELSE IF Acpi10 # {} THEN Least(Acpi10) ELSE 0

OrynCapturePlatformTables(b) ==
    IF {"tables", "rsdp"} \cap want = {} THEN b
    ELSE LET t == SubSeq(firmware.tables, 1,
                         IF Len(firmware.tables) > MaxTables THEN MaxTables
                         ELSE Len(firmware.tables))
         IN  [b EXCEPT !.Tables = t, !.Rsdp = CapturedRsdp(t),
                 !.Flags = @ \cup (IF t # <<>> THEN want \cap {"tables"} ELSE {})
                            \cup (IF CapturedRsdp(t) # 0 THEN want \cap {"rsdp"} ELSE {})]

OrynCaptureNvramSnapshot(b) ==
    IF "nvram" \notin want THEN b
    ELSE [b EXCEPT !.Nvram = [version |-> 1, getVariable |-> "GetVariable" \in firmware.services,
                              bootOrder |-> 0],
             !.Flags = @ \cup (IF "GetVariable" \in firmware.services THEN {"nvram"} ELSE {})]

OrynCaptureRuntimeServices(b) ==
    IF "runtime" \notin want THEN b
    ELSE [b EXCEPT !.Runtime = [version |-> 1, table |-> IF firmware.services = {} THEN 0 ELSE 1,
                                services |-> firmware.services],
             !.Flags = @ \cup (IF firmware.services = {} THEN {} ELSE {"runtime"})]

\* CaptureFramebufferToBootInfo: the fields are filled even when the item was
\* dropped (the default screen), the flag only when it is wanted and linear.
CaptureFramebuffer(b) ==
    IF firmware.graphics = "none" THEN b
    ELSE [b EXCEPT !.Framebuffer = [base |-> 1, width |-> 2, pitch |-> 2,
                        format |-> IF firmware.graphics = "blt" THEN "unknown" ELSE "bgrx"],
             !.Flags = @ \cup (IF firmware.graphics = "linear"
                               THEN want \cap {"framebuffer"} ELSE {})]

AllocateBootInfo ==
    /\ lstage = "loaded"
    /\ Roomy(fwmap, 1) # {}
    /\ fwmap' = AllocatePage(fwmap, "loader")
    /\ info' = CaptureFramebuffer(OrynCaptureRuntimeServices(
                   OrynCaptureNvramSnapshot(OrynCapturePlatformTables(
                       CaptureFirmwareData(FillBaseBootInfo(layout, info.Font))))))
    /\ lstage' = "info"
    /\ UNCHANGED <<want, firmware, image, memory, layout, tables, storage,
                   stale, attempt, growth, corrupted, accepted>>

-----------------------------------------------------------------------------

\* MapIdentity2MB, then MapKernelVirtual4K page by page from the bases. A page
\* inside the identity window meets a 2 MB entry, which MapPage4K takes for a
\* table: it maps nothing there.
KernelPages(l) == l.VirtualBase \div PageSize ..
                  ((l.VirtualBase + l.VirtualSize) \div PageSize) - 1

PrepareTables(l) ==
    [v \in (0 .. IdentityPages - 1) \cup KernelPages(l) |->
        IF v < IdentityPages THEN v
        ELSE l.PhysicalBase \div PageSize + (v - l.VirtualBase \div PageSize)]

PrepareKernelVirtualAddressSpace ==
    /\ lstage = "info"
    /\ layout.VirtualBase # 0
    /\ Roomy(fwmap, 1) # {}
    /\ fwmap' = AllocatePage(fwmap, "loader")
    /\ tables' = PrepareTables(layout)
    /\ lstage' = "paged"
    /\ UNCHANGED <<want, firmware, image, memory, layout, info, storage,
                   stale, attempt, growth, corrupted, accepted>>

\* AllocateMemoryMapStorage: the size now, with some slack, then two pools.
AllocateMemoryMapStorage ==
    /\ lstage = "paged"
    /\ storage' = Len(fwmap) + Slack
    /\ Roomy(fwmap, 1) # {}
    /\ \E m \in {AllocatePage(fwmap, "loader")} :
          Roomy(m, 1) # {} /\ fwmap' = AllocatePage(m, "loader")
    /\ lstage' = "sized"
    /\ UNCHANGED <<want, firmware, image, memory, layout, info, tables,
                   stale, attempt, growth, corrupted, accepted>>

\* ValidateBootInfoAbiForHandoff and SealBootInfoChecksumForHandoff.
Sealed(b) == [b EXCEPT !.HandoffChecksum = ComputeHandoffChecksum(b)]

\* CopyMemoryMapEntries.
WithMap(b, m) ==
    IF "map" \notin want THEN b
    ELSE [b EXCEPT !.MemoryMap = m, !.Flags = @ \cup {"map"}]

\* One attempt, up to the seal: the map must fit in the storage.
TakeMemoryMap ==
    /\ lstage = "sized"
    /\ Len(fwmap) <= storage
    /\ \E b \in {Sealed(WithMap(info, fwmap))} :
          /\ info' = b
          /\ lstage' = IF AbiIsCompatible(b) /\ VerifyHandoffChecksum(b)
                       THEN "got" ELSE "returned"
    /\ stale' = FALSE
    /\ UNCHANGED <<want, firmware, image, fwmap, memory, layout, tables,
                   storage, attempt, growth, corrupted, accepted>>

\* Mutant of ExitBootServices: a stale key is retried without counting.
ExitBootServicesForever ==
    /\ lstage = "got"
    /\ lstage' = IF ~stale THEN "exited" ELSE "sized"
    /\ UNCHANGED <<want, firmware, image, fwmap, memory, layout, info, tables,
                   storage, stale, attempt, growth, corrupted, accepted>>

\* ExitBootServices: the key must still be current; four attempts in all.
ExitBootServices ==
    /\ lstage = "got"
    /\ lstage' = IF ~stale THEN "exited"
                 ELSE IF attempt + 1 < MaxAttempts THEN "sized" ELSE "returned"
    /\ attempt' = attempt + 1
    /\ UNCHANGED <<want, firmware, image, fwmap, memory, layout, info, tables,
                   storage, stale, growth, corrupted, accepted>>

\* External: the firmware allocates for itself, or allocates and frees again.
FirmwareChangesMap ==
    /\ lstage = "got"
    /\ stale' = TRUE
    /\ \/ growth < MaxGrowth /\ Roomy(fwmap, 1) # {}
          /\ fwmap' = AllocatePage(fwmap, "bootservices") /\ growth' = growth + 1
       \/ UNCHANGED <<fwmap, growth>>
    /\ UNCHANGED <<lstage, want, firmware, image, memory, layout, info,
                   tables, storage, attempt, corrupted, accepted>>

\* ActivateKernelVirtualAddressSpace and JumpToKernel.
JumpToKernel ==
    /\ lstage = "exited"
    /\ lstage' = "kernel"
    /\ UNCHANGED <<want, firmware, image, fwmap, memory, layout, info, tables,
                   storage, stale, attempt, growth, corrupted, accepted>>

\* The fault the checksum is for: something handed over changes on the way.
Damaged(b) ==
    ({[b EXCEPT !.Size = @ + 1], [b EXCEPT !.Rsdp = @ + 1],
     [b EXCEPT !.Version = @ + 1], [b EXCEPT !.Flags = KnownFlags \ @],
     [b EXCEPT !.HandoffChecksum = <<>>]}
    \cup (IF "map" \in b.Flags
          THEN {[b EXCEPT !.MemoryMap[1].type = "runtime"],
                [b EXCEPT !.MemoryMap = Tail(@)]} ELSE {})) \ {b}

DamageHandoff ==
    /\ lstage = "kernel" /\ ~corrupted
    /\ \E d \in Damaged(info) : info' = d
    /\ corrupted' = TRUE
    /\ UNCHANGED <<lstage, want, firmware, image, fwmap, memory, layout,
                   tables, storage, stale, attempt, growth, accepted>>

\* KernelBootInfoAdopt copies the record; the validation reads the copy.
KernelAdoptsAndValidates ==
    /\ lstage = "kernel"
    /\ accepted' = IF KernelBootInfoValidate(info, want) THEN "valid" ELSE "invalid"
    /\ lstage' = "validated"
    /\ UNCHANGED <<want, firmware, image, fwmap, memory, layout, info, tables,
                   storage, stale, attempt, growth, corrupted>>

LoaderStep == \/ ReadFiles \/ LoadElfSegments \/ AllocateBootInfo
              \/ PrepareKernelVirtualAddressSpace \/ AllocateMemoryMapStorage
              \/ TakeMemoryMap \/ ExitBootServices \/ JumpToKernel
              \/ KernelAdoptsAndValidates
              \/ ReturnToFirmware

LoaderNext == LoaderStep \/ FirmwareChangesMap \/ DamageHandoff

LoaderSpec == LoaderInit /\ [][LoaderNext]_loaderVars

-----------------------------------------------------------------------------

LoaderTypeOK ==
    /\ lstage \in {"start", "read", "loaded", "info", "paged", "sized", "got",
                   "exited", "kernel", "validated", "returned"}
    /\ info.Flags \subseteq KnownFlags
    /\ attempt \in 0 .. MaxAttempts
    /\ growth \in 0 .. MaxGrowth
    /\ accepted \in {"unknown", "valid", "invalid"}

\* Once the kernel runs, every cell of every segment is read through the new
\* page tables as the file (or the zero fill) says, wherever the image was
\* placed, and the entry point is the page the layout names
\* (BootX64Elf.c FindElfLayout, CopyElfSegments; BootX64Paging.c MapKernelVirtual4K).
ReadThrough(a) == tables[a \div PageSize] * PageSize + (a % PageSize)

ImageVisible ==
    lstage \in {"kernel", "validated"} =>
        /\ ReadThrough(layout.EntryVirtual) = layout.EntryPhysical
        /\ \A i \in 1 .. Len(image.segments) :
              LET s == image.segments[i]
              IN  \A k \in 0 .. s.memsz - 1 :
                      memory[ReadThrough(s.vaddr + k)] = SegmentCell(s, k)

\* What the loader hands over is accepted by the kernel of the same build, for
\* every firmware and every selection that keeps the kernel range
\* (BootX64.c AllocateBootInfo against KernelBootInfoValidate).
KernelAccepts ==
    lstage = "validated" /\ ~corrupted /\ "range" \in want => accepted = "valid"

\* A record or a memory map that changed after the seal is never accepted
\* (OrynBootInfo.h OrynBootInfoComputeHandoffChecksum).
DamageIsCaught ==
    lstage = "validated" /\ corrupted => accepted = "invalid"

\* Every page the kernel's memory map calls usable was conventional memory
\* when boot services ended: nothing the loader or the firmware took meanwhile
\* and nothing of the kernel image (BootX64Handoff.c, KernelMemoryMap.c).
UsableIsFree ==
    lstage = "validated" /\ accepted = "valid" =>
        \A i \in DOMAIN BuildMemoryMap(info) :
            LET e == BuildMemoryMap(info)[i]
            IN  e.type = "usable" => Holding(fwmap, e.start, e.pages) # {}

\* With an ACPI 2.0 table among the copied ones, Rsdp is that table whatever
\* the firmware's order (BootX64Platform.c StoreDirectPlatformPointer).
RsdpIsBest ==
    lstage \in {"kernel", "validated"} /\ ~corrupted /\ "rsdp" \in info.Flags =>
        \/ info.Tables[info.Rsdp] = "acpi20"
        \/ \A i \in DOMAIN info.Tables : info.Tables[i] # "acpi20"

\* The loader always comes to an end, in the kernel or back in the firmware,
\* however often the firmware changes the map (BootX64Handoff.c:194).
LoaderFinishes == <>(lstage \in {"returned", "validated"})

\* The kernel starts as it was built: its image is where it runs, it accepts what
\* this loader hands over and nothing damaged, and what it then takes for free
\* memory is free (BootX64.c, BootX64Handoff.c, KernelBootInfoValidate.c).
HandoffSound ==
    /\ LoaderTypeOK
    /\ ImageVisible
    /\ KernelAccepts
    /\ DamageIsCaught
    /\ UsableIsFree
    /\ RsdpIsBest

=============================================================================
