------------------------------ MODULE Storage ------------------------------
(***************************************************************************)
(* Block devices and partition tables (FileSystems/FAT32/KernelBlockDevice *)
(* and KernelPartition): the registry, the range check in front of every   *)
(* driver callback, and the GPT and MBR parsers that read through it.      *)
(*                                                                         *)
(* Block numbers are words of Wide values (64 bits in the code), of which  *)
(* the older driver callbacks take the lower Narrow ones (32 bits). What   *)
(* is on a disk is a record of the fields the parsers read.                *)
(***************************************************************************)
EXTENDS Integers, Sequences, FiniteSets, FiniteSetsExt

CONSTANTS
    Wide, Narrow,       \* 2^64 and 2^32
    DeviceKinds,        \* the devices (OrynKernelBlockDevice) drivers may register
    Disks,              \* the disk contents parsed
    MaxDevices,         \* ORYN_KERNEL_BLOCK_MAX_DEVICES
    MaxEntries,         \* ORYN_KERNEL_PARTITION_MAX_ENTRIES
    MaxStorageCalls     \* bound: calls

\* A device without sectors has no blocks, and the numbers on a disk are words.
StorageConstants ==
    /\ Wide \in Nat \ {0} /\ Narrow \in Nat \ {0}
    /\ MaxDevices \in Nat /\ MaxEntries \in Nat /\ MaxStorageCalls \in Nat
    /\ DeviceKinds \subseteq
         [BytesPerSector : Nat, BlockCount : Nat, SectorCount : Nat,
          Read : BOOLEAN, ReadRange : BOOLEAN, Flush : BOOLEAN]
    /\ Disks \subseteq
         [signature : BOOLEAN, header : BOOLEAN, sizeOk : BOOLEAN, entryLba : Nat,
          mbr : Seq([type : Nat, first : Nat, count : Nat]),
          gpt : Seq([zero : BOOLEAN, first : Nat, last : Nat])]

VARIABLES registry,   \* OrynKernelBlockRegistryState, Devices included
          sent,       \* the last request handed to a driver callback
          table,      \* the OrynKernelPartitionTable of the last parse
          storageCalls

storageVars == <<registry, sent, table, storageCalls>>

\* An OrynKernelPartitionEntry; from remembers which parser added it.
Entry(from, index, first, count) ==
    [from |-> from, Index |-> index, FirstLba |-> first, BlockCount |-> count]

\* OrynKernelPartitionTableInit, and the counters a parse sets.
NoTable == [Type |-> "none", Valid |-> FALSE, MbrParsed |-> FALSE, GptParsed |-> FALSE,
            Entries |-> <<>>, Failures |-> 0, result |-> FALSE]

\* OrynKernelBlockDeviceRegistryInit.
NoRegistry == [Devices |-> <<>>, Attempts |-> 0, Failures |-> 0, Reads |-> 0,
               BoundsFailures |-> 0, Flushes |-> 0, FlushFailures |-> 0]

NoRequest == [device |-> <<>>, lba |-> 0, count |-> 0]

StorageInit ==
    registry = NoRegistry /\ sent = NoRequest /\ table = NoTable /\ storageCalls = 0

-----------------------------------------------------------------------------

\* OrynKernelBlockGetBlockCount.
GetBlockCount(d) == IF d.BlockCount # 0 THEN d.BlockCount ELSE d.SectorCount

\* OrynKernelBlockIsProductionReady.
IsProductionReady(d) ==
    /\ d.BytesPerSector # 0 /\ GetBlockCount(d) # 0 /\ d.Flush
    /\ d.ReadRange \/ d.Read

\* Mutant of ValidateRange64: the end of the range is computed, and wraps.
ValidateRange64Wraps(d, lba, count) ==
    /\ d.BytesPerSector \in {512, 4096} /\ count # 0
    /\ (lba + count) % Wide <= GetBlockCount(d)

\* OrynKernelBlockValidateRange64 (BoundsFailures is counted by its callers here).
ValidateRange64(d, lba, count) ==
    /\ d.BytesPerSector \in {512, 4096} /\ count # 0
    /\ lba < GetBlockCount(d) /\ count <= GetBlockCount(d) - lba

BoundsFailed(r) == [r EXCEPT !.BoundsFailures = @ + 1]

\* OrynKernelBlockRegisterDevice.
RegisterDevice(d) ==
    LET tried == [registry EXCEPT !.Attempts = @ + 1]
        bounded == IF IsProductionReady(d) /\ ~ValidateRange64(d, 0, 1)
                   THEN BoundsFailed(tried) ELSE tried
    IN  /\ registry' = IF /\ IsProductionReady(d) /\ ValidateRange64(d, 0, 1)
                          /\ Len(registry.Devices) < MaxDevices
                       THEN [tried EXCEPT !.Devices = Append(@, d)]
                       ELSE [bounded EXCEPT !.Failures = @ + 1]
       /\ UNCHANGED <<sent, table>>

\* Where ReadSectors64 hands a request: the wide callback, or the narrow one
\* for a number that fits.
Handed(d, lba, count) ==
    IF d.ReadRange THEN {[device |-> <<d>>, lba |-> lba, count |-> count]}
    ELSE IF d.Read /\ lba < Narrow THEN {[device |-> <<d>>, lba |-> lba, count |-> count]}
    ELSE {}

\* OrynKernelBlockReadSectors64 and WriteSectors64, of any device a caller has.
ReadSectors64(d, lba, count) ==
    /\ IF ValidateRange64(d, lba, count)
       THEN /\ registry' = [registry EXCEPT !.Reads = @ + 1]
            /\ sent' \in IF Handed(d, lba, count) = {} THEN {sent} ELSE Handed(d, lba, count)
       ELSE registry' = BoundsFailed(registry) /\ UNCHANGED sent
    /\ UNCHANGED table

\* OrynKernelBlockFlushDevice.
FlushDevice(d) ==
    /\ registry' = IF d.Flush THEN [registry EXCEPT !.Flushes = @ + 1]
                   ELSE [registry EXCEPT !.FlushFailures = @ + 1]
    /\ UNCHANGED <<sent, table>>

-----------------------------------------------------------------------------

\* Whether a sector of the device can be read, and whether it lies on the disk.
Readable(d, lba) == ValidateRange64(d, lba, 1) /\ Handed(d, lba, 1) # {}

\* The wanted places of an on-disk table, in order, as far as t has room for them.
PlacesAdded(t, wanted) ==
    [n \in 1 .. Min({Cardinality(wanted), MaxEntries - Len(t.Entries)}) |->
        CHOOSE i \in wanted : Cardinality({j \in wanted : j <= i}) = n]

\* PartAddMbrEntry over the four slots of the boot sector.
AddMbrEntries(t, disk) ==
    LET wanted == {i \in DOMAIN disk.mbr : disk.mbr[i].type # 0 /\ disk.mbr[i].count # 0}
        at == PlacesAdded(t, wanted)
        At(i) == Entry("mbr", i, disk.mbr[i].first, disk.mbr[i].count)
    IN  [t EXCEPT !.Entries = @ \o [n \in DOMAIN at |-> At(at[n])]]

\* OrynKernelPartitionParseMbr.
ParseMbr(d, disk, t) ==
    LET parsed == AddMbrEntries([t EXCEPT !.Type = "mbr", !.Valid = TRUE, !.MbrParsed = TRUE], disk)
    IN  IF ~Readable(d, 0) \/ ~disk.signature THEN [t EXCEPT !.result = FALSE]
        ELSE [parsed EXCEPT !.result = parsed.Entries # <<>>]

\* PartAddGptEntry over the first n entries: a block count is computed modulo 2^64.
AddGptEntries(t, disk, n) ==
    LET wanted == {i \in 1 .. n : ~disk.gpt[i].zero}
        at == PlacesAdded(t, wanted)
        At(i) == Entry("gpt", i, disk.gpt[i].first,
                       (disk.gpt[i].last - disk.gpt[i].first + 1) % Wide)
    IN  [t EXCEPT !.Entries = @ \o [k \in DOMAIN at |-> At(at[k])]]

\* The sectors of the entries ParseGpt looks at, and how many it can read before
\* the first it cannot.
GptSectors(disk) ==
    [i \in 1 .. Min({Len(disk.gpt), MaxEntries}) |-> (disk.entryLba + (i - 1)) % Wide]

GptReadable(d, disk) ==
    LET at == GptSectors(disk)
    IN  Max({n \in 0 .. Len(at) : \A i \in 1 .. n : Readable(d, at[i])})

GptHeaderValid(d, disk) == Readable(d, 1) /\ disk.header /\ disk.sizeOk

\* The entries in the sectors that could be read.
GptEntries(d, disk, t) ==
    AddGptEntries([t EXCEPT !.Type = "gpt", !.Valid = TRUE, !.GptParsed = TRUE], disk,
                  GptReadable(d, disk))

\* OrynKernelPartitionParseGpt with one entry per sector: it stops at the
\* first entry it cannot read and keeps the ones it has.
ParseGpt(d, disk, t) ==
    LET parsed == GptEntries(d, disk, t)
    IN  IF ~GptHeaderValid(d, disk) THEN t
        ELSE [parsed EXCEPT !.result = parsed.Entries # <<>>]

\* The sectors a parse asks for, in order.
ParseReads(d, disk) ==
    LET at == GptSectors(disk)
        n == Min({Len(at), GptReadable(d, disk) + 1})
        gpt == <<1>> \o (IF GptHeaderValid(d, disk) THEN SubSeq(at, 1, n) ELSE <<>>)
    IN  IF ParseGpt(d, disk, NoTable).result THEN gpt ELSE Append(gpt, 0)

\* The registry and the last request after reading these sectors of d.
AfterReads(d, reads) ==
    LET read == {i \in DOMAIN reads : ValidateRange64(d, reads[i], 1)}
        handed == {i \in read : Handed(d, reads[i], 1) # {}}
    IN  [reg |-> [registry EXCEPT !.Reads = @ + Cardinality(read),
                      !.BoundsFailures = @ + Cardinality(DOMAIN reads \ read)],
         sent |-> IF handed = {} THEN sent
                  ELSE CHOOSE q \in Handed(d, reads[Max(handed)], 1) : TRUE]

\* OrynKernelPartitionParse: GPT first, and the boot sector if that fails.
Parse(d, disk) ==
    LET gpt == ParseGpt(d, disk, NoTable)
        mbr == ParseMbr(d, disk, gpt)
        after == AfterReads(d, ParseReads(d, disk))
    IN  /\ table' = IF gpt.result THEN gpt
                    ELSE IF mbr.result THEN mbr ELSE [mbr EXCEPT !.Failures = 1]
        /\ registry' = after.reg /\ sent' = after.sent

-----------------------------------------------------------------------------

StorageNext ==
    /\ storageCalls < MaxStorageCalls
    /\ storageCalls' = storageCalls + 1
    /\ \/ \E d \in DeviceKinds : RegisterDevice(d)
       \/ \E d \in DeviceKinds, lba \in 0 .. Wide - 1, n \in 0 .. Narrow - 1 :
              ReadSectors64(d, lba, n)
       \/ \E d \in DeviceKinds : FlushDevice(d)
       \/ \E d \in DeviceKinds, disk \in Disks : Parse(d, disk)

StorageSpec == StorageInit /\ [][StorageNext]_storageVars

-----------------------------------------------------------------------------

StorageTypeOK ==
    /\ Len(registry.Devices) <= MaxDevices
    /\ registry.Attempts = registry.Failures + Len(registry.Devices)
    /\ Len(table.Entries) <= MaxEntries
    /\ storageCalls \in 0 .. MaxStorageCalls

\* Every request a driver callback gets lies inside its device, for block
\* numbers up to the largest word, where an end computed by addition would
\* wrap, and the narrow callback gets a number it can hold
\* (OrynKernelBlockValidateRange64, OrynKernelBlockReadSectors64).
RangeInside ==
    sent # NoRequest =>
        LET d == sent.device[1]
        IN  /\ sent.count > 0 /\ sent.lba + sent.count <= GetBlockCount(d)
            /\ d.ReadRange \/ sent.lba < Narrow

\* The entries of a table all come from the scheme its Type names, also when
\* a GPT could be read only in part or was empty and the boot sector was
\* parsed after it (OrynKernelPartitionParse).
EntriesOfOneScheme ==
    \A i \in 1 .. Len(table.Entries) : table.Entries[i].from = table.Type

\* Requests reach a driver only inside its device, and a partition table is of
\* one scheme, at the limits of the numbers and of the tables
\* (KernelBlockDevice.c, KernelPartition.c).
StorageSound ==
    /\ StorageTypeOK
    /\ RangeInside
    /\ EntriesOfOneScheme

=============================================================================
