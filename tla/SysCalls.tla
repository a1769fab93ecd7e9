------------------------------ MODULE SysCalls ------------------------------
(***************************************************************************)
(* System calls (SysCalls/): packets from the Linux and MS vectors, from   *)
(* the routing function and from kernel code, their validation, the Get,   *)
(* Set and Event classes, and the accounting of unknown requests.          *)
(*                                                                         *)
(* Addresses are words of Words values (2^64); user space is UserLow ..    *)
(* UserHigh. Namespace and operation are one name, such as "version".      *)
(***************************************************************************)
EXTENDS Integers, Sequences, FiniteSets

CONSTANTS
    Words, UserLow, UserHigh,   \* address arithmetic
    MaxSysCalls                 \* bound: calls

\* The address space has words; the bounds are numbers.
SysCallsConstants ==
    /\ Words \in Nat \ {0} /\ UserLow \in Nat /\ UserHigh \in Nat
    /\ MaxSysCalls \in Nat

VARIABLES sys,        \* OrynSysCallState
          answers,    \* how often each status was returned
          logged,     \* ranges logged from an argument that is not DebugText
          sysCalls

sysVars == <<sys, answers, logged, sysCalls>>

Kinds == {"Get", "Set", "Event"}

Platforms == {"internal", "linux", "ms"}

\* OrynSysCallPacket: what validation and dispatch look at.
Packet(magic, version, size, platform, kind, op, arg0, arg1, text) ==
    [magic |-> magic, version |-> version, size |-> size, platform |-> platform,
     kind |-> kind, op |-> op, arg0 |-> arg0, arg1 |-> arg1, text |-> text]

\* OrynSysCallPreparePacket.
PreparePacket(kind, op) == Packet(TRUE, TRUE, TRUE, "internal", kind, op, 0, 0, 0)

\* The counters of OrynSysCallState.
Counters == {"Total", "Get", "Set", "Event", "Linux", "Ms", "Unknown", "UnknownLinux",
             "UnknownMs", "Routed", "PacketFailures", "PointerFailures"}

\* One more in a counter.
Count(s, counter) == [s EXCEPT ![counter] = @ + 1]

\* OrynSysCallInit.
SysCallsInit ==
    /\ sys = [c \in Counters |-> 0]
    /\ answers = [s \in {"Ok", "BadPacket", "Unknown", "BadPointer"} |-> 0]
    /\ logged = {} /\ sysCalls = 0

-----------------------------------------------------------------------------

\* OrynSysCallValidatePacket: magic, version, size, in this order.
ValidatePacket(p) == p.magic /\ p.version /\ p.size

\* Mutant of ValidateUserPointer: the wrap of the last address is not tested.
ValidateUserPointerWraps(address, size) ==
    /\ address # 0 /\ size # 0 /\ address >= UserLow
    /\ (address + size - 1) % Words <= UserHigh

\* OrynSysCallValidateUserPointer.
ValidateUserPointer(address, size) ==
    LET last == (address + size - 1) % Words
    IN  /\ address # 0 /\ size # 0 /\ address >= UserLow
        /\ last >= address /\ last <= UserHigh

\* OrynSysCallValidateArguments: only a text given by argument is checked.
ValidateArguments(p) ==
    (p.op = "write" /\ p.text = 0 /\ p.arg1 # 0) => ValidateUserPointer(p.arg1, p.arg0)

\* One more under the platform of the packet, if that is one of the two.
CountPlatform(s, p, linux, ms) ==
    IF p.platform = "linux" THEN Count(s, linux)
    ELSE IF p.platform = "ms" THEN Count(s, ms) ELSE s

\* RecordPacket, after the counter of the packet's class.
RecordPacket(s, kind, p) ==
    CountPlatform(Count(Count(s, kind), "Total"), p, "Linux", "Ms")

\* OrynSysCallPrintUnknown.
PrintUnknown(s) == Count(s, "Unknown")

\* OrynSysCallNoteUnknownPlatform.
NoteUnknownPlatform(s, p) ==
    CountPlatform(Count(s, "Unknown"), p, "UnknownLinux", "UnknownMs")

\* The operations each class answers.
KnownOps == [Get |-> {"version", "getid"}, Set |-> {"level"}, Event |-> {"write", "exit"}]

\* The branches of SysCallGet, SysCallSet and SysCallEvent.
Answer(kind, s, p) ==
    IF p.op \in KnownOps[kind] THEN [state |-> s, status |-> "Ok"]
    ELSE IF kind = "Event" /\ p.op = "compat"
    THEN [state |-> NoteUnknownPlatform(s, p), status |-> "Unknown"]
    ELSE [state |-> PrintUnknown(s), status |-> "Unknown"]

\* SysCallGet, SysCallSet and SysCallEvent.
ClassCall(kind, s, p) ==
    IF ~ValidatePacket(p) THEN [state |-> Count(s, "PacketFailures"), status |-> "BadPacket"]
    ELSE IF ~ValidateArguments(p)
    THEN [state |-> Count(s, "PointerFailures"), status |-> "BadPointer"]
    ELSE Answer(kind, RecordPacket(s, kind, p), p)

\* OrynSysCallDispatch; another kind is not recorded, only printed.
Dispatch(s, p) ==
    IF ~ValidatePacket(p) THEN [state |-> Count(s, "PacketFailures"), status |-> "BadPacket"]
    ELSE IF p.kind \in Kinds THEN ClassCall(p.kind, s, p)
    ELSE [state |-> PrintUnknown(s), status |-> "Unknown"]

\* LinuxSysCallTranslate and MSSysCallTranslate: the text of a write is passed
\* as DebugText.
Translate(platform, number, arg0, arg1) ==
    LET p == CASE number = "write" -> [PreparePacket("Event", "write") EXCEPT !.text = arg1]
               [] number = "id" -> PreparePacket("Get", IF platform = "ms" THEN "version" ELSE "getid")
               [] number = "exit" -> PreparePacket("Event", "exit")
               [] OTHER -> PreparePacket("Event", "compat")
    IN  [p EXCEPT !.platform = platform, !.arg0 = arg0, !.arg1 = arg1]

\* OrynSysCallPolicyRouteUserRequest: the number alone decides.
RouteUserRequest(platform, number, arg0, arg1) ==
    LET p == CASE number = "version" -> PreparePacket("Get", "version")
               [] number = "level" -> PreparePacket("Set", "level")
               [] OTHER -> PreparePacket("Event", "compat")
    IN  [p EXCEPT !.platform = platform, !.arg0 = arg0, !.arg1 = arg1]

-----------------------------------------------------------------------------

\* What a call leaves: the state, the returned status (the frame's RAX), and the
\* text that was logged without a DebugText.
Took(r, p) ==
    /\ sys' = r.state
    /\ answers' = [answers EXCEPT ![r.status] = @ + 1]
    /\ logged' = IF r.status = "Ok" /\ p.op = "write" /\ p.text = 0 /\ p.arg1 # 0
                 THEN logged \cup {<<p.arg1, p.arg0>>} ELSE logged
    /\ sysCalls' = sysCalls + 1

\* Only a write looks at its arguments.
Arguments(number) == IF number = "write" THEN 0 .. Words - 1 ELSE {0}

\* LinuxSysCallInterruptHandler and MSSysCallInterruptHandler.
SysCallInterrupt ==
    \E platform \in {"linux", "ms"}, number \in {"write", "id", "exit", "other"} :
    \E arg0, arg1 \in Arguments(number) :
        LET p == Translate(platform, number, arg0, arg1) IN Took(Dispatch(sys, p), p)

\* A routed request that is dispatched.
RoutedRequest ==
    \E platform \in Platforms, number \in {"version", "level", "other"}, arg0 \in 0 .. 1 :
        LET p == RouteUserRequest(platform, number, arg0, 0)
            r == Dispatch(Count(sys, "Routed"), p)
        IN  Took(r, p)

\* Packets kernel code fills in itself, some of them damaged, given to the
\* dispatcher or directly to a class.
InternalPacket ==
    \E kind \in Kinds \cup {"Other"}, op \in {"version", "level", "write", "ping"},
       damage \in {"none", "magic", "version", "size"}, class \in Kinds \cup {"dispatch"} :
    \E arg0, arg1 \in Arguments(op) :
        LET p == Packet(damage # "magic", damage # "version", damage # "size", "internal",
                        kind, op, arg0, arg1, 0)
        IN  Took(IF class = "dispatch" THEN Dispatch(sys, p) ELSE ClassCall(class, sys, p), p)

SysCallsNext ==
    /\ sysCalls < MaxSysCalls
    /\ SysCallInterrupt \/ RoutedRequest \/ InternalPacket

SysCallsSpec == SysCallsInit /\ [][SysCallsNext]_sysVars

-----------------------------------------------------------------------------

SysCallsTypeOK ==
    /\ \A s \in DOMAIN answers : answers[s] \in 0 .. MaxSysCalls
    /\ sys.Routed <= sysCalls /\ sys.PacketFailures = answers["BadPacket"]

\* A recorded packet is counted in exactly one class and was answered Ok or
\* unknown, whichever entry it came through (RecordPacket, SysCallGet, SysCallSet,
\* SysCallEvent; the early returns record nothing).
ClassesAccounted ==
    /\ sys.Total = sys.Get + sys.Set + sys.Event
    /\ sys.Linux + sys.Ms <= sys.Total
    /\ sys.Total <= answers["Ok"] + answers["Unknown"]

\* Every request answered "unknown" was counted once, a translated one also
\* under its platform (OrynSysCallPrintUnknown, OrynSysCallNoteUnknownPlatform).
UnknownAccounted ==
    /\ sys.Unknown = answers["Unknown"]
    /\ sys.UnknownLinux + sys.UnknownMs <= sys.Unknown

\* A text logged from a pointer argument lies inside user space, also where its
\* last address would wrap (OrynSysCallValidateUserPointer).
LoggedTextInUserSpace ==
    \A r \in logged : r[1] >= UserLow /\ r[1] + r[2] - 1 <= UserHigh

\* Every packet is answered once and counted in one place, whichever way it came,
\* and a pointer is followed only inside user space (SysCall.c, SysCallPolicy.c).
SysCallsSound ==
    /\ SysCallsTypeOK
    /\ ClassesAccounted
    /\ UnknownAccounted
    /\ LoggedTextInUserSpace

=============================================================================
