------------------------------- MODULE Fat32 -------------------------------
(***************************************************************************)
(* The FAT32 file system (FileSystems/FAT32): the two allocation tables,   *)
(* directories, files, free-space hints, and every public operation as the *)
(* sequence of sector writes it is. One write of a call may fail, and the  *)
(* machine may stop at one: the writes made before it stay on the disk,    *)
(* and after a stop the volume is mounted again from what is there.        *)
(*                                                                         *)
(* A cluster is one sector, as OrynFat32FormatMemoryImage makes it, and    *)
(* holds Slots slots; a slot is a directory entry or a unit of file data.  *)
(* Sector reads succeed. The table entries 0 and EOC stand for FAT32_FREE  *)
(* and the end marks.                                                      *)
(***************************************************************************)
EXTENDS Integers, Sequences, FiniteSets, SequencesExt

CONSTANTS
    ClusterCount,   \* Info.ClusterCount: the clusters are 2 .. ClusterCount + 1
    Slots,          \* directory entries (units of data) in a cluster
    Paths,          \* paths used: sequences of one or two names
    Contents,       \* file contents written: sequences of units
    FaultyCalls,    \* the calls during which a sector write may fail
    MaxFatCalls,    \* bound: calls
    MaxFaults,      \* bound: failed writes and stops
    MaxWrites       \* bound: sector writes of a call that may be the failing one

VARIABLES disk,    \* what is on the device
          volume,  \* OrynFat32Volume: mounted, hint validity, the two hints
          known,   \* what the callers were told about each path
          faults, failures, fatCalls

fatVars == <<disk, volume, known, faults, failures, fatCalls>>

EOC == 1

Root == 2

Clusters == 2 .. ClusterCount + 1

Slot(kind, name, dir, first, size) ==
    [kind |-> kind, name |-> name, dir |-> dir, first |-> first, size |-> size]

ZeroSlot == Slot("zero", "", FALSE, 0, 0)

Deleted == Slot("deleted", "", FALSE, 0, 0)

Unit(x) == Slot("data", x, FALSE, 0, 0)

ZeroCluster == [i \in 1 .. Slots |-> ZeroSlot]

\* OrynFat32FormatMemoryImage: an empty root directory, hints in FSInfo.
Formatted ==
    LET fat == [c \in Clusters |-> IF c = Root THEN EOC ELSE 0]
    IN  [fat |-> <<fat, fat>>, area |-> [c \in Clusters |-> ZeroCluster],
         fsinfo |-> [free |-> ClusterCount - 1, next |-> 3]]

\* OrynFat32Mount and Fat32ReadFsInfo on a valid boot sector.
Mounted(d) ==
    [free |-> d.fsinfo.free,
     next |-> IF d.fsinfo.next \in Clusters THEN d.fsinfo.next ELSE 2]

Nothing == [is |-> "absent", data |-> <<>>]

FatInit ==
    /\ disk = Formatted /\ volume = Mounted(Formatted)
    /\ known = [p \in Paths |-> Nothing]
    /\ faults = 0 /\ failures = 0 /\ fatCalls = 0

-----------------------------------------------------------------------------

\* A call in progress: the disk and the volume so far, whether it is still
\* successful, which write fails (NoFault: none) and whether that is a stop; the
\* cluster the last allocation returned.
NoFault == -2

Happened == -1

Call(at, stop) == [d |-> disk, v |-> volume, ok |-> TRUE, at |-> at,
                   stop |-> stop, dead |-> FALSE, out |-> 0]

Fail(s) == [s EXCEPT !.ok = FALSE]

\* OrynKernelBlockWriteSector: the write happens, or it is the failing one.
WriteSector(s, d) ==
    IF ~s.ok \/ s.dead THEN Fail(s)
    ELSE IF s.at = 0 THEN [s EXCEPT !.ok = FALSE, !.at = Happened, !.dead = s.stop]
    ELSE [s EXCEPT !.d = d, !.at = IF @ > 0 THEN @ - 1 ELSE @]

\* OrynFat32SetFatEntry: both copies, one after the other.
SetFatEntry(s, c, x) ==
    LET first == WriteSector(s, [s.d EXCEPT !.fat[1][c] = x])
    IN  WriteSector(first, [first.d EXCEPT !.fat[2][c] = x])

WriteCluster(s, c, cells) == WriteSector(s, [s.d EXCEPT !.area[c] = cells])

\* The clusters from c on, as the walks read them from the first copy.
Chain(d, c) ==
    LET f == d.fat[1]
        at[n \in 1 .. ClusterCount] ==
            IF n = 1 THEN c
            ELSE IF at[n - 1] \in Clusters THEN f[at[n - 1]] ELSE 0
        Valid == {n \in 1 .. ClusterCount : at[n] \in Clusters}
    IN  [n \in 1 .. Cardinality(Valid) |-> at[n]]

\* Fat32AllocateCluster: from the hint to the end, then from 2 to the hint.
SearchOrder(v) ==
    [i \in 1 .. ClusterCount |-> 2 + ((v.next - 2 + i - 1) % ClusterCount)]

TakeCluster(s, c) ==
    IF ~s.ok THEN s
    ELSE [s EXCEPT !.out = c,
              !.v.free = IF @ > 0 THEN @ - 1 ELSE @,
              !.v.next = IF c + 1 \in Clusters THEN c + 1 ELSE 2]

AllocateCluster(s) ==
    LET order == SearchOrder(s.v)
        Free == {i \in 1 .. ClusterCount : s.d.fat[1][order[i]] = 0}
        c == order[CHOOSE i \in Free : \A j \in Free : i <= j]
    IN  IF ~s.ok \/ Free = {} THEN Fail(s)
        ELSE TakeCluster(WriteCluster(SetFatEntry(s, c, EOC), c, ZeroCluster), c)

\* Fat32AppendCluster: allocate, then link behind the end of the chain.
Link(s, end) == IF s.ok THEN SetFatEntry(s, end, s.out) ELSE s

AppendCluster(s, start) == Link(AllocateCluster(s), Last(Chain(s.d, start)))

\* Fat32FreeClusterChain.
CountFree(s) == IF s.ok THEN [s EXCEPT !.v.free = @ + 1] ELSE s

FreeOne(s, c) == CountFree(SetFatEntry(s, c, 0))

FreeClusterChain(s, start) == FoldLeft(FreeOne, s, Chain(s.d, start))

\* Mutant of TruncateChain: the end mark is not moved.
TruncateChainDangling(s, start, keep) ==
    LET c == Chain(s.d, start)
    IN  IF Len(c) <= keep THEN s
        ELSE FoldLeft(FreeOne, s, SubSeq(c, keep + 1, Len(c)))

\* Fat32TruncateChain.
TruncateChain(s, start, keep) ==
    LET c == Chain(s.d, start)
    IN  IF keep = 0 THEN FreeClusterChain(s, start)
        ELSE IF Len(c) <= keep THEN s
        ELSE FoldLeft(FreeOne, SetFatEntry(s, c[keep], EOC), SubSeq(c, keep + 1, Len(c)))

-----------------------------------------------------------------------------

\* The slots of a directory in order, each with its place in its own cluster.
Entries(d, dir) ==
    LET c == Chain(d, dir)
    IN  [i \in 1 .. Len(c) * Slots |->
            [slot |-> d.area[c[((i - 1) \div Slots) + 1]][((i - 1) % Slots) + 1],
             offset |-> ((i - 1) % Slots) + 1]]

\* Fat32FindInDirectory: up to the first never-used slot. The result names the
\* directory's FIRST cluster, whichever cluster the entry is in.
Find(d, dir, name) ==
    LET e == Entries(d, dir)
        Ends == {i \in 1 .. Len(e) : e[i].slot.kind = "zero"}
        Hits == {i \in 1 .. Len(e) : /\ e[i].slot.kind = "entry" /\ e[i].slot.name = name
                                     /\ \A j \in Ends : i < j}
        i == CHOOSE i \in Hits : \A j \in Hits : i <= j
    IN  IF Hits = {} THEN [found |-> FALSE, cluster |-> 0, offset |-> 0, entry |-> ZeroSlot]
        ELSE [found |-> TRUE, cluster |-> dir, offset |-> e[i].offset, entry |-> e[i].slot]

\* Fat32ResolveParent: the parent directory's first cluster, 0 if there is none.
Parent(d, p) ==
    IF Len(p) = 1 THEN Root
    ELSE LET f == Find(d, Root, p[1])
         IN  IF f.found /\ f.entry.dir THEN f.entry.first ELSE 0

\* OrynFat32FindPath.
FindPath(d, p) ==
    IF Parent(d, p) = 0
    THEN [found |-> FALSE, cluster |-> 0, offset |-> 0, entry |-> ZeroSlot]
    ELSE Find(d, Parent(d, p), Last(p))

\* Fat32FindFreeDirectoryEntry: the offset of a free slot; a full directory
\* grows by a cluster.
FindFree(s, dir) ==
    LET e == Entries(s.d, dir)
        Free == {i \in 1 .. Len(e) : e[i].slot.kind \in {"zero", "deleted"}}
        grown == AppendCluster(s, dir)
    IN  IF Free # {}
        THEN [s |-> s, offset |-> e[CHOOSE i \in Free : \A j \in Free : i <= j].offset]
        ELSE [s |-> grown, offset |-> 1]

\* Fat32WriteDirectoryEntry.
WriteDirectoryEntry(s, c, offset, slot) ==
    WriteCluster(s, c, [s.d.area[c] EXCEPT ![offset] = slot])

\* Fat32DirectoryIsEmpty.
DirectoryIsEmpty(d, dir) ==
    LET e == Entries(d, dir)
        Ends == {i \in 1 .. Len(e) : e[i].slot.kind = "zero"}
    IN  \A i \in 1 .. Len(e) : e[i].slot.kind = "entry" => \E j \in Ends : j <= i

-----------------------------------------------------------------------------

ClustersNeeded(n) == (n + Slots - 1) \div Slots

\* The part of the data that goes to the k-th cluster, padded with zeros.
Chunk(data, k) ==
    [i \in 1 .. Slots |-> IF (k - 1) * Slots + i <= Len(data)
                          THEN Unit(data[(k - 1) * Slots + i]) ELSE ZeroSlot]

\* Fat32WriteChain: the clusters of a chain that is long enough.
WriteChain(s, start, data) ==
    LET Put(t, k) == IF t.ok THEN WriteCluster(t, Chain(t.d, start)[k], Chunk(data, k)) ELSE t
    IN  FoldLeft(Put, s, [k \in 1 .. ClustersNeeded(Len(data)) |-> k])

\* The loop of OrynFat32WriteFile that makes the chain long enough.
GrowChain(s, start, needed) ==
    LET Grow(t, k) == IF t.ok /\ Len(Chain(t.d, start)) <= k THEN AppendCluster(t, start) ELSE t
    IN  FoldLeft(Grow, s, [k \in 1 .. needed - 1 |-> k])

\* OrynFat32WriteFile: the chain is made long enough, cut, and filled; then the
\* entry is written.
Trim(s, start, needed) == IF s.ok THEN TruncateChain(s, start, needed) ELSE s

Fill(s, start, data) == IF s.ok THEN WriteChain(s, start, data) ELSE s

Started(s, f) ==
    IF f.entry.first # 0 THEN [s EXCEPT !.out = f.entry.first] ELSE AllocateCluster(s)

WriteEntry(s, f, first, data) ==
    WriteDirectoryEntry(s, f.cluster, f.offset, [f.entry EXCEPT !.first = first, !.size = Len(data)])

WriteData(s, f, data, needed) ==
    IF ~s.ok THEN s
    ELSE WriteEntry(Fill(Trim(GrowChain(s, s.out, needed), s.out, needed), s.out, data),
                    f, s.out, data)

WriteFound(s, f, data) ==
    IF ~s.ok \/ ~f.found \/ f.entry.dir THEN Fail(s)
    ELSE IF data = <<>>
    THEN WriteEntry(IF f.entry.first # 0 THEN FreeClusterChain(s, f.entry.first) ELSE s,
                    f, 0, data)
    ELSE WriteData(Started(s, f), f, data, ClustersNeeded(Len(data)))

WriteFile(s, p, data) == WriteFound(s, FindPath(s.d, p), data)

\* The entry of a new file or directory: the clean-up when it cannot be written.
Undo(s, first) == Fail(FreeClusterChain([s EXCEPT !.ok = TRUE], first))

KeepOrUndo(s, first) == IF s.ok \/ first = 0 THEN s ELSE Undo(s, first)

AddEntry(s, dir, offset, slot) ==
    IF ~s.ok THEN s
    ELSE KeepOrUndo(WriteDirectoryEntry(s, dir, offset, slot), slot.first)

\* The cluster of the new entry, if it gets one.
Placed(s, wanted) ==
    IF ~s.ok THEN s ELSE IF wanted THEN AllocateCluster(s) ELSE [s EXCEPT !.out = 0]

Enter(s, p, dir, offset, isDir, size) ==
    AddEntry(s, dir, offset, Slot("entry", Last(p), isDir, s.out, size))

Occupied(d, p, dir) == dir = 0 \/ Find(d, dir, Last(p)).found

\* OrynFat32CreateFile: the entry first, then the data as a write.
CreateFileAt(free, p, dir, data) ==
    Enter(Placed(free.s, data # <<>>), p, dir, free.offset, FALSE, Len(data))

WriteNew(s, p, data) == IF ~s.ok \/ data = <<>> THEN s ELSE WriteFile(s, p, data)

CreateFileIn(s, p, dir, data) ==
    IF Occupied(s.d, p, dir) THEN Fail(s)
    ELSE WriteNew(CreateFileAt(FindFree(s, dir), p, dir, data), p, data)

CreateFile(s, p, data) == CreateFileIn(s, p, Parent(s.d, p), data)

\* OrynFat32CreateDirectory.
CreateDirectoryAt(free, p, dir) == Enter(Placed(free.s, TRUE), p, dir, free.offset, TRUE, 0)

CreateDirectoryIn(s, p, dir) ==
    IF Occupied(s.d, p, dir) THEN Fail(s)
    ELSE CreateDirectoryAt(FindFree(s, dir), p, dir)

CreateDirectory(s, p) == CreateDirectoryIn(s, p, Parent(s.d, p))

\* OrynFat32Delete: the chain is freed before the entry is marked.
MarkDeleted(s, f) ==
    IF ~s.ok THEN s ELSE WriteDirectoryEntry(s, f.cluster, f.offset, Deleted)

DeleteFound(s, f) ==
    IF ~f.found \/ (f.entry.dir /\ ~DirectoryIsEmpty(s.d, f.entry.first)) THEN Fail(s)
    ELSE MarkDeleted(IF f.entry.first # 0 THEN FreeClusterChain(s, f.entry.first) ELSE s, f)

Delete(s, p) == DeleteFound(s, FindPath(s.d, p))

\* OrynFat32Flush (Fat32UpdateFsInfo).
Flush(s) == WriteSector(s, [s.d EXCEPT !.fsinfo = s.v])

\* OrynFat32ReadFile into a buffer that is large enough.
ReadFile(d, p) ==
    LET f == FindPath(d, p)
        c == Chain(d, f.entry.first)
    IN  IF ~f.found THEN [is |-> "absent", data |-> <<>>]
        ELSE IF f.entry.dir THEN [is |-> "dir", data |-> <<>>]
        ELSE IF f.entry.size > Len(c) * Slots THEN [is |-> "broken", data |-> <<>>]
        ELSE [is |-> "file", data |-> [i \in 1 .. f.entry.size |->
                  d.area[c[((i - 1) \div Slots) + 1]][((i - 1) % Slots) + 1].name]]

-----------------------------------------------------------------------------

\* What a finished call leaves: p is what the caller asked for, or uncertain
\* when the call failed half-way; a call that changed nothing taught nothing.
Finish(s, p, told) ==
    /\ disk' = s.d
    /\ volume' = IF s.dead THEN Mounted(s.d) ELSE s.v
    /\ known' = [known EXCEPT ![p] =
                    IF s.ok THEN told
                    ELSE IF s.d = disk THEN @ ELSE [is |-> "unknown", data |-> <<>>]]
    /\ failures' = IF s.ok THEN failures ELSE failures + 1
    /\ faults' = IF s.at = Happened THEN faults + 1 ELSE faults
    /\ fatCalls' = fatCalls + 1

\* The faults of one call: none, or one of its writes fails or stops the machine.
Attempts(name) ==
    {Call(NoFault, FALSE)} \cup
    (IF faults < MaxFaults /\ name \in FaultyCalls
     THEN {Call(k, stop) : k \in 0 .. MaxWrites - 1, stop \in BOOLEAN} ELSE {})

DoCreateFile ==
    \E s \in Attempts("create"), p \in Paths, data \in Contents :
        Finish(CreateFile(s, p, data), p, [is |-> "file", data |-> data])

DoWriteFile ==
    \E data \in Contents, p \in Paths :
    \E s \in Attempts(IF data = <<>> THEN "empty" ELSE "write") :
        Finish(WriteFile(s, p, data), p, [is |-> "file", data |-> data])

DoCreateDirectory ==
    \E s \in Attempts("mkdir"), p \in Paths :
        Finish(CreateDirectory(s, p), p, [is |-> "dir", data |-> <<>>])

DoDelete ==
    \E s \in Attempts("delete"), p \in Paths :
        Finish(Delete(s, p), p, Nothing)

Flushed(s) ==
    /\ disk' = s.d
    /\ volume' = IF s.dead THEN Mounted(s.d) ELSE volume
    /\ failures' = IF s.ok THEN failures ELSE failures + 1
    /\ faults' = IF s.at = Happened THEN faults + 1 ELSE faults
    /\ fatCalls' = fatCalls + 1
    /\ UNCHANGED known

DoFlush == \E s \in Attempts("flush") : Flushed(Flush(s))

FatNext ==
    /\ fatCalls < MaxFatCalls
    /\ \/ DoCreateFile \/ DoWriteFile \/ DoCreateDirectory \/ DoDelete \/ DoFlush

-----------------------------------------------------------------------------

\* Every path with an entry, and the first cluster the entry names.
Live == {p \in Paths : FindPath(disk, p).found}

ChainOf(p) == ToSet(Chain(disk, FindPath(disk, p).entry.first))

FreeClusters == {c \in Clusters : disk.fat[1][c] = 0}

FatTypeOK ==
    /\ \A i \in {1, 2} : \A c \in Clusters : disk.fat[i][c] \in {0, EOC} \cup Clusters
    /\ volume.next \in Clusters
    /\ volume.free \in 0 .. ClusterCount * (1 + faults)
    /\ faults <= MaxFaults

\* What callers were told stays true: a file reads back as it was last written,
\* a removed path stays away and a directory stays, whatever other paths were
\* written, created or removed since and wherever a write failed or the machine
\* stopped (KernelFat32FileWrite.c, KernelFat32Mutate.c).
FilesKept ==
    \A p \in Paths : known[p].is # "unknown" => ReadFile(disk, p) = known[p]

\* No cluster belongs to two paths, to the root directory and a path, or to a
\* path and the free clusters (Fat32AllocateCluster, Fat32FreeClusterChain).
ChainsDisjoint ==
    /\ \A p, q \in Live : p # q => ChainOf(p) \cap ChainOf(q) = {}
    /\ \A p \in Live : ChainOf(p) \cap (ToSet(Chain(disk, Root)) \cup FreeClusters) = {}

\* As long as every call succeeded, every cluster in use is reached from the
\* root (Fat32TruncateChain frees what a shorter file no longer needs).
NoClusterLost ==
    failures = 0 => Clusters \ FreeClusters =
        ToSet(Chain(disk, Root)) \cup UNION {ChainOf(p) : p \in Live}

\* The copies of the table differ in at most one cluster per failed write
\* (SdkSourceLayout.txt:346 "mirror FAT copies").
CopiesAgree ==
    Cardinality({c \in Clusters : disk.fat[1][c] # disk.fat[2][c]}) <= faults

\* Without a fault the free-space hint is the number of free clusters
\* (SdkSourceLayout.txt:346 "track free-space hints").
HintIsExact == faults = 0 => volume.free = Cardinality(FreeClusters)

\* A directory known to hold a file or a directory is not lost, however many
\* names the directory above it gets (SdkSourceLayout.txt:346 "protect non-empty
\* directories").
DirectoriesProtected ==
    \A p, q \in Paths :
        (/\ known[p].is = "dir" /\ known[q].is \in {"file", "dir"}
         /\ Len(q) = 2 /\ p = <<q[1]>>) => FindPath(disk, p).entry.dir

\* The volume keeps what callers were told it keeps, through every sequence of
\* calls and a write that fails or is the last one (KernelFat32FatTable.c,
\* KernelFat32FileWrite.c, KernelFat32Mutate.c).
VolumeSound ==
    /\ FatTypeOK
    /\ FilesKept
    /\ ChainsDisjoint
    /\ NoClusterLost
    /\ CopiesAgree
    /\ HintIsExact

=============================================================================
