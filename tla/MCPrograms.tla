----------------------------- MODULE MCPrograms -----------------------------
(***************************************************************************)
(* Files and programs: one behaviour exercises the FAT32 file system, the  *)
(* block layer and partition parsers, the way from a path to a program, or *)
(* the system calls. SysCallsSound and StorageSound are those of their     *)
(* modules.                                                                *)
(***************************************************************************)
EXTENDS SysCalls, Storage, TLC

CONSTANTS
    ClusterCount, Slots, Paths, Contents, FaultyCalls, MaxFatCalls, MaxFaults, MaxWrites,
    PathsUsed, Files, PrefixSize, PathSize, MaxMounts, DefaultRoot, MaxThreads,
    Pages, PageBudget, ArgLists, VectorSize, MaxProgramCalls,
    Parts    \* the components that are exercised

VARIABLES
    part,
    disk, volume, known, faults, failures, fatCalls,
    mounts, exec, space, threads, mode, descriptor, programCalls

F == INSTANCE Fat32
P == INSTANCE Programs

fatVars == <<disk, volume, known, faults, failures, fatCalls>>
programVars == <<mounts, exec, space, threads, mode, descriptor, programCalls>>
vars == <<part, fatVars, storageVars, programVars, sysVars>>

\* A file and a directory with a file in it: no directory gets more names than
\* one of its clusters holds.
MCPaths == {<<"a">>, <<"b">>, <<"b", "a">>}

\* Three names in the root directory, whose first cluster holds two.
MCPathsCrowded == {<<"a">>, <<"b">>, <<"c">>, <<"a", "a">>}

MCContents == {<<>>, <<"x">>, <<"y", "y", "y">>}

Device(size, blocks, sectors, read, readRange, flush) ==
    [BytesPerSector |-> size, BlockCount |-> blocks, SectorCount |-> sectors,
     Read |-> read, ReadRange |-> readRange, Flush |-> flush]

\* Narrow and wide callbacks, on devices below and above the narrow limit; a
\* device without sectors, one without flush, one without callbacks.
MCDeviceKinds ==
    {Device(512, 0, 3, TRUE, FALSE, TRUE), Device(512, 6, 3, FALSE, TRUE, TRUE),
     Device(512, 6, 0, TRUE, FALSE, TRUE), Device(0, 3, 3, TRUE, FALSE, TRUE),
     Device(512, 3, 3, FALSE, TRUE, FALSE), Device(512, 2, 2, FALSE, FALSE, TRUE)}

Mbr(type, first, count) == [type |-> type, first |-> first, count |-> count]

Gpt(zero, first, last) == [zero |-> zero, first |-> first, last |-> last]

\* GPT entries that lie on the disk, run off its end, or wrap; empty and
\* reversed entries; boot sectors with and without partitions.
Disk(header, at, mbr, gpt) ==
    [signature |-> TRUE, header |-> header, sizeOk |-> TRUE, entryLba |-> at, mbr |-> mbr, gpt |-> gpt]

MCDisks ==
    LET none == <<Gpt(TRUE, 0, 0)>>
        some == <<Gpt(FALSE, 2, 3), Gpt(FALSE, 5, 3), Gpt(FALSE, 5, 6)>>
        sectors == {<<Mbr(0, 0, 0)>>, <<Mbr(1, 1, 2), Mbr(1, 3, 0)>>}
    IN  {Disk(FALSE, 2, m, none) : m \in sectors} \cup {Disk(TRUE, 2, m, none) : m \in sectors}
        \cup {Disk(TRUE, at, m, some) : at \in {2, 5, 7}, m \in sectors}

Component(text, low, len, shape) == [text |-> text, low |-> low, len |-> len, shape |-> shape]
Path(abs, parts) == [abs |-> abs, parts |-> parts]

System == Component("system", FALSE, 2, "plain")
Lower == Component("system", TRUE, 2, "plain")
Commands == Component("commands", FALSE, 1, "plain")
Elf(name) == Component(name, FALSE, 2, "elf")

MCDefaultRoot == <<System>>

MCPathsUsed ==
    {Path(TRUE, <<>>), Path(TRUE, <<System>>), Path(TRUE, <<System, Commands>>),
     Path(FALSE, <<System, Elf("a")>>), Path(TRUE, <<System, Elf("a")>>),
     Path(TRUE, <<Lower, Elf("b")>>), Path(TRUE, <<System, Elf("c")>>),
     Path(TRUE, <<System, Commands, Elf("a")>>),
     Path(TRUE, <<System, Component("..", FALSE, 2, "dots"), Elf("a")>>)}

Segment(pages, fits) == [pages |-> pages, fits |-> fits]
Program(entryOk, segments) == [elf |-> TRUE, entryOk |-> entryOk, segments |-> segments]
Broken == [elf |-> FALSE, entryOk |-> FALSE, segments |-> <<>>]

\* Programs that share a page, one without segments, one with a bad entry, a
\* file that is not a program, a segment outside its file.
MCFiles ==
    [v1 |-> (<<"system", "a">> :> Program(TRUE, <<Segment({1}, TRUE), Segment({2}, TRUE)>>))
         @@ (<<"system", "b">> :> Program(TRUE, <<Segment({3}, TRUE), Segment({2, 4}, TRUE)>>))
         @@ (<<"system", "c">> :> Program(TRUE, <<>>))
         @@ (<<"a">> :> Program(FALSE, <<>>)),
     v2 |-> (<<"a">> :> Program(TRUE, <<Segment({3, 4}, TRUE)>>))
         @@ (<<"b">> :> Broken)
         @@ (<<"commands", "a">> :> Program(TRUE, <<Segment({1}, FALSE)>>))]

\* Word lists that fit, that fill the buffer exactly and that do not fit.
MCArgLists ==
    {<<>>, << <<1, 2>>, <<>>, <<1>> >>, << <<1, 2, 3>>, <<1, 2>> >>}

ASSUME SysCallsAssumption == SysCallsConstants

ASSUME StorageAssumption == StorageConstants

Init == /\ part \in Parts
        /\ F!FatInit /\ StorageInit /\ P!ProgramsInit /\ SysCallsInit

Next ==
    /\ UNCHANGED part
    /\ \/ part = "fat" /\ F!FatNext /\ UNCHANGED <<storageVars, programVars, sysVars>>
       \/ part = "storage" /\ StorageNext /\ UNCHANGED <<fatVars, programVars, sysVars>>
       \/ part = "programs" /\ P!ProgramsNext /\ UNCHANGED <<fatVars, storageVars, sysVars>>
       \/ part = "syscalls" /\ SysCallsNext /\ UNCHANGED <<fatVars, storageVars, programVars>>

Spec == Init /\ [][Next]_vars

-----------------------------------------------------------------------------
\* The volume keeps what callers were told it keeps (Fat32!VolumeSound).
VolumeSound == part = "fat" => F!VolumeSound

\* Directories with something in them are kept (Fat32!DirectoriesProtected).
DirectoriesProtected == part = "fat" => F!DirectoriesProtected

\* A thread runs an allowed command with its whole image (Programs!ProgramsSound).
ProgramsSound == part = "programs" => P!ProgramsSound
=============================================================================
