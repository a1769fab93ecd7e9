------------------------------ MODULE Programs ------------------------------
(***************************************************************************)
(* From a path to a running program: VFS mounts and path resolution        *)
(* (FileSystems/VFS/KernelVfs), the command path policy and descriptors    *)
(* (Runtime/KernelUserCommand), the ELF64 loader (KernelUserExecutable)    *)
(* and the entry frame of a user thread (KernelUserMode).                  *)
(*                                                                         *)
(* A path is whether it starts with a slash and its components, repeated   *)
(* and trailing slashes being gone; a component is its text, whether it is *)
(* written in lower case, its length, and its shape: plain, "elf" (ends in *)
(* .ELF), "dots" ("." or "..") or "back" (holds a backslash).              *)
(***************************************************************************)
EXTENDS Integers, Sequences, FiniteSets, SequencesExt

CONSTANTS
    PathsUsed,         \* the paths callers pass
    Files,             \* volume -> [local path -> file]; a file is whether it is an ELF
                       \* program, whether its entry lies in a segment, and for each
                       \* PT_LOAD segment its pages and whether its sizes fit the file
    PrefixSize,        \* the 32 bytes of a mount prefix
    PathSize,          \* ORYN_USER_EXEC_MAX_PATH
    MaxMounts,         \* ORYN_VFS_MAX_MOUNTS
    DefaultRoot,       \* ORYN_USER_EXEC_DEFAULT_COMMAND_ROOT
    MaxThreads,        \* free thread objects and stacks
    Pages,             \* user pages; PageBudget of them can be allocated
    PageBudget,
    ArgLists,          \* argv and envp given to descriptors: sequences of words
    VectorSize,        \* sizeof(descriptor->Arguments)
    MaxProgramCalls    \* bound: calls

VARIABLES mounts,      \* gMounts: 0, or [Prefix, Fat32]
          exec,        \* gUserExec: root, counters, status
          space,       \* the process: regions reserved and the page contents
          threads,     \* user threads created from images
          mode,        \* gUserModeState and the kernel stack in the TSS
          descriptor,  \* the last OrynUserCommandDescriptor, or 0
          programCalls

programVars == <<mounts, exec, space, threads, mode, descriptor, programCalls>>

ProgramsInit ==
    /\ mounts = [i \in 1 .. MaxMounts |-> <<>>]
    /\ exec = [root |-> DefaultRoot, attempts |-> 0, successes |-> 0, created |-> 0,
               denied |-> 0, status |-> "Ok"]
    /\ space = [regions |-> {}, page |-> [p \in Pages |-> <<>>], left |-> PageBudget]
    /\ threads = <<>>
    /\ mode = [frame |-> 0, stack |-> 0, ready |-> FALSE]
    /\ descriptor = <<>> /\ programCalls = 0

-----------------------------------------------------------------------------
(* Path resolution *)

\* The length of a normalised path, written with its slashes.
PathLength(parts) == IF parts = <<>> THEN 1
                     ELSE FoldLeft(LAMBDA n, c : n + 1 + c.len, 0, parts)

\* OrynVfsNormalizePath: the components, or nothing if the path is refused.
NormalizePath(p, size) ==
    IF /\ p.abs /\ \A i \in 1 .. Len(p.parts) : p.parts[i].shape \in {"plain", "elf"}
       /\ PathLength(p.parts) < size
    THEN {p.parts} ELSE {}

\* VfsPrefixMatches, and VfsFindMount: the longest prefix, the first of equals.
FindMount(parts) ==
    LET Matching == {i \in 1 .. MaxMounts : mounts[i] # <<>> /\ IsPrefix(mounts[i][1].Prefix, parts)}
        Length(i) == PathLength(mounts[i][1].Prefix)
    IN  {i \in Matching : \A j \in Matching :
            Length(i) > Length(j) \/ (Length(i) = Length(j) /\ i <= j)}

\* VfsLocalPath: what is left after the prefix of mount i.
LocalPath(i, parts) ==
    SubSeq(parts, Len(mounts[i][1].Prefix) + 1, Len(parts))

\* VfsResolve and OrynVfsReadFile: the volume, the local path and the file,
\* found by the FAT32 lookup without regard to case.
Named(parts) == [i \in 1 .. Len(parts) |-> parts[i].text]

ReadFile(p) ==
    {[volume |-> mounts[i][1].Fat32, parts |-> parts, local |-> Named(LocalPath(i, parts))] :
        <<parts, i>> \in {x \in (NormalizePath(p, 256) \X (1 .. MaxMounts)) :
            /\ x[2] \in FindMount(x[1])
            /\ Named(LocalPath(x[2], x[1])) \in DOMAIN Files[mounts[x[2]][1].Fat32]}}

\* OrynVfsMountFat32: into the first free slot, never twice at one prefix.
MountFat32(p, volume) ==
    LET Free == {i \in 1 .. MaxMounts : mounts[i] = <<>>}
    IN  /\ \E parts \in NormalizePath(p, PrefixSize) :
              /\ \A i \in 1 .. MaxMounts : mounts[i] # <<>> => mounts[i][1].Prefix # parts
              /\ Free # {}
              /\ mounts' = [mounts EXCEPT ![Min(Free)] = <<[Prefix |-> parts, Fat32 |-> volume]>>]
        /\ UNCHANGED <<exec, space, threads, mode, descriptor>>

-----------------------------------------------------------------------------
(* The command policy *)

\* CommandPrefixMatch ignores case, unlike VfsPrefixMatches.
SameText(a, b) == Named(a) = Named(b)

\* OrynUserCommandPathIsAllowed and CommandTailIsFlatElf.
PathIsAllowed(p, root) ==
    \E parts \in NormalizePath(p, PathSize) :
        /\ Len(parts) > Len(root) /\ SameText(SubSeq(parts, 1, Len(root)), root)
        /\ Len(parts) = Len(root) + 1
        /\ parts[Len(parts)].shape = "elf"

\* OrynUserExecutableSetCommandRoot: never the root directory itself.
SetCommandRoot(p) ==
    /\ exec' = IF \E parts \in NormalizePath(p, PathSize) : PathLength(parts) >= 2
               THEN [exec EXCEPT !.root = CHOOSE parts \in NormalizePath(p, PathSize) : TRUE]
               ELSE [exec EXCEPT !.status = "InvalidArgument"]
    /\ UNCHANGED <<mounts, space, threads, mode, descriptor>>

-----------------------------------------------------------------------------
(* Loading *)

\* OrynVirtualMemoryReserveMmapRegion: no page of an existing region.
Reservable(s, seg) == seg.pages \cap s.regions = {}

\* UserExecMapSegment: reserve, then allocate, fill and map page by page; a
\* failure leaves the region and the pages mapped so far.
MapSegment(s, seg, file, k) ==
    LET n == Cardinality(seg.pages)
        Filled == IF n <= s.left THEN seg.pages
                  ELSE CHOOSE S \in SUBSET seg.pages :
                          Cardinality(S) = s.left /\ \A p \in S, q \in seg.pages \ S : p < q
    IN  IF ~s.ok \/ ~seg.fits \/ ~Reservable(s, seg) THEN [s EXCEPT !.ok = FALSE]
        ELSE [s EXCEPT !.regions = @ \cup seg.pages,
                       !.page = [p \in Pages |-> IF p \in Filled THEN <<file, k>> ELSE @[p]],
                       !.left = @ - Cardinality(Filled),
                       !.ok = n <= s.left]

\* Mutant of MapSegments: a failed segment does not end the loop.
MapSegmentsOn(file, segments) ==
    LET One(s, k) == [MapSegment([s EXCEPT !.ok = TRUE], segments[k], file, k) EXCEPT !.ok = TRUE]
    IN  FoldLeft(One, [regions |-> space.regions, page |-> space.page, left |-> space.left,
                       ok |-> TRUE], [k \in 1 .. Len(segments) |-> k])

\* The loop over the program headers.
MapSegments(file, segments) ==
    LET One(s, k) == MapSegment(s, segments[k], file, k)
    IN  FoldLeft(One, [regions |-> space.regions, page |-> space.page, left |-> space.left,
                       ok |-> TRUE], [k \in 1 .. Len(segments) |-> k])

\* OrynUserExecutableLoadExternalCommand: every outcome of LoadElf64FromVfs, then
\* the thread. A program without segments counts as loaded and is refused.
LoadExternalCommand(p) ==
    LET tried == [exec EXCEPT !.attempts = @ + 1]
        Refused(status) == /\ exec' = [tried EXCEPT !.status = status]
                           /\ UNCHANGED <<space, threads>>
    IN  /\ IF ~PathIsAllowed(p, exec.root)
           THEN /\ exec' = [tried EXCEPT !.status = "DeniedPath",
                               !.denied = IF NormalizePath(p, PathSize) = {} THEN @ ELSE @ + 1]
                /\ UNCHANGED <<space, threads>>
           ELSE IF ReadFile(p) = {} THEN Refused("VfsReadFailed")
           ELSE \E f \in ReadFile(p) :
                  LET file == Files[f.volume][f.local]
                      s == MapSegments(<<f.volume, f.local>>, file.segments)
                      loaded == [tried EXCEPT !.successes = @ + 1, !.status = "Ok"]
                  IN  IF ~file.elf THEN Refused("InvalidElf")
                      ELSE IF ~file.entryOk THEN Refused("InvalidAbi")
                      ELSE /\ space' = [regions |-> s.regions, page |-> s.page, left |-> s.left]
                           /\ IF ~s.ok
                              THEN exec' = [tried EXCEPT !.status = "MapFailed"] /\ UNCHANGED threads
                              ELSE IF file.segments = <<>>
                              THEN exec' = loaded /\ UNCHANGED threads
                              ELSE IF Len(threads) >= MaxThreads
                              THEN exec' = [loaded EXCEPT !.status = "ThreadFailed"] /\ UNCHANGED threads
                              ELSE /\ exec' = [loaded EXCEPT !.created = @ + 1]
                                   /\ threads' = Append(threads, [file |-> <<f.volume, f.local>>,
                                          path |-> p, root |-> exec.root, alive |-> TRUE])
        /\ UNCHANGED <<mounts, mode, descriptor>>

\* OrynKernelUserModePrepareControlledTest; 0 is a kernel thread, which it refuses.
PrepareControlledTest(t) ==
    /\ t # 0 => threads[t].alive
    /\ mode' = IF t # 0 THEN [frame |-> t, stack |-> t, ready |-> TRUE] ELSE mode
    /\ UNCHANGED <<mounts, exec, space, threads, descriptor>>

\* OrynKernelThreadDestroy of a command's thread.
DestroyThread(t) ==
    /\ threads[t].alive
    /\ threads' = [threads EXCEPT ![t].alive = FALSE]
    /\ UNCHANGED <<mounts, exec, space, mode, descriptor>>

-----------------------------------------------------------------------------
(* Descriptors *)

NUL == 0

\* CommandAppendText and CommandBuildTextVector: the words with their NULs.
BuildTextVector(items) ==
    LET Add(v, w) == IF v.ok /\ Len(v.text) + Len(w) + 1 <= VectorSize
                     THEN [v EXCEPT !.text = @ \o Append(w, NUL)]
                     ELSE [v EXCEPT !.ok = FALSE]
    IN  FoldLeft(Add, [text |-> <<>>, ok |-> TRUE], items)

\* OrynUserCommandBuildDescriptor for an image with an entry.
BuildDescriptor(argv, envp) ==
    LET a == BuildTextVector(argv)
        e == BuildTextVector(envp)
        Buffer(v) == [i \in 1 .. VectorSize |-> IF i <= Len(v.text) THEN v.text[i] ELSE NUL]
    IN  /\ argv # <<>>
        /\ descriptor' = IF a.ok /\ e.ok
                         THEN <<[argc |-> Len(argv), envc |-> Len(envp), arguments |-> Buffer(a),
                                 environment |-> Buffer(e), given |-> <<argv, envp>>]>>
                         ELSE descriptor
        /\ UNCHANGED <<mounts, exec, space, threads, mode>>

ProgramsNext ==
    /\ programCalls < MaxProgramCalls
    /\ programCalls' = programCalls + 1
    /\ \/ \E p \in PathsUsed, v \in DOMAIN Files : MountFat32(p, v)
       \/ \E p \in PathsUsed : SetCommandRoot(p)
       \/ \E p \in PathsUsed : LoadExternalCommand(p)
       \/ \E t \in 0 .. Len(threads) : PrepareControlledTest(t)
       \/ \E t \in 1 .. Len(threads) : DestroyThread(t)
       \/ \E a, e \in ArgLists : BuildDescriptor(a, e)

-----------------------------------------------------------------------------

ProgramsTypeOK ==
    /\ Len(threads) <= MaxThreads /\ space.left \in 0 .. PageBudget
    /\ exec.created = Len(threads)
    /\ exec.created <= exec.successes /\ exec.successes <= exec.attempts
    /\ {p \in Pages : space.page[p] # <<>>} \subseteq space.regions

\* No two mounts share a prefix, and a path is looked up in the mount nearest
\* to it, in whatever order they were mounted (OrynVfsMountFat32, VfsFindMount).
DeepestMount ==
    /\ \A i, j \in 1 .. MaxMounts :
          (i # j /\ mounts[i] # <<>> /\ mounts[j] # <<>>) => mounts[i][1].Prefix # mounts[j][1].Prefix
    /\ \A p \in PathsUsed : \A parts \in NormalizePath(p, PathSize) :
          \A i \in FindMount(parts), j \in 1 .. MaxMounts :
             (mounts[j] # <<>> /\ IsPrefix(mounts[j][1].Prefix, parts)) =>
                 Len(mounts[j][1].Prefix) <= Len(mounts[i][1].Prefix)

\* Every thread comes from a file directly inside the command root that was
\* configured when it was loaded, named without "." or "..", whatever is
\* mounted (KernelUserExecutable.c:436 "External commands are restricted to the
\* configured System/Commands root").
OnlyAllowedRun ==
    \A t \in 1 .. Len(threads) :
        LET parts == threads[t].path.parts
            root == threads[t].root
        IN  /\ threads[t].path.abs /\ root # <<>>
            /\ Len(parts) = Len(root) + 1
            /\ Named(Front(parts)) = Named(root)
            /\ \A i \in 1 .. Len(parts) : parts[i].shape \in {"plain", "elf"}

\* A thread that exists has its whole program in memory: each page of each of
\* its segments holds that segment, also after later loads into the same
\* process failed half-way (UserExecMapSegment, LoadElf64FromVfs).
ThreadsHaveTheirImage ==
    \A t \in 1 .. Len(threads) :
        LET f == threads[t].file
            segments == Files[f[1]][f[2]].segments
        IN  /\ segments # <<>>
            /\ \A k \in 1 .. Len(segments) : \A p \in segments[k].pages : space.page[p] = <<f, k>>

\* The entry frame and the kernel stack in the TSS belong to the same thread
\* once a frame is ready, however often it is prepared and whichever threads
\* are gone (OrynKernelUserModePrepareControlledTest).
FrameOfOneThread == mode.ready => mode.frame = mode.stack /\ mode.frame # 0

\* Splitting a descriptor's buffer at its NULs gives back the words that were
\* passed, also when they fill the buffer to the last byte
\* (CommandBuildTextVector writes the closing NUL only if there is room).
VectorRecovers ==
    \A d \in ToSet(descriptor) :
        LET Texts(buffer, n) ==
                LET Nuls == {i \in 1 .. VectorSize : buffer[i] = NUL}
                    End(k) == CHOOSE i \in Nuls : Cardinality({j \in Nuls : j <= i}) = k
                IN  IF Cardinality(Nuls) < n THEN <<>>
                    ELSE [k \in 1 .. n |-> SubSeq(buffer, IF k = 1 THEN 1 ELSE End(k - 1) + 1, End(k) - 1)]
        IN  Texts(d.arguments, d.argc) = d.given[1] /\ Texts(d.environment, d.envc) = d.given[2]

\* A thread runs a command that the policy allows, from the mount its path names,
\* with its whole image and the arguments it was given, after any sequence of
\* loads that failed (KernelUserExecutable.c, KernelUserCommand.c, KernelVfs.c).
ProgramsSound ==
    /\ ProgramsTypeOK
    /\ DeepestMount
    /\ OnlyAllowedRun
    /\ ThreadsHaveTheirImage
    /\ FrameOfOneThread
    /\ VectorRecovers

=============================================================================
