---------------------------- MODULE KernelProofs ----------------------------
(***************************************************************************)
(* The kernel's own services, and how it comes to run: it starts as it was *)
(* linked and with a record it can trust for every image and firmware; the *)
(* start and the end of its modules are in order for every module table    *)
(* that is in dependency order; the accounting of system calls is right    *)
(* for every address space, user range and number of calls; text, view and *)
(* screen of the console agree for every size of scrollback and screen,    *)
(* with the keyboard scrolling between the steps of a newline; interrupts, *)
(* with page faults in their handlers, are acknowledged and counted once   *)
(* for every set of PIC inputs and every number of interrupts; block       *)
(* requests stay inside their device, and a partition table is of one      *)
(* scheme, for every device, disk and width of a block number.             *)
(***************************************************************************)
EXTENDS Startup, SysCalls, Console, Interrupts, Storage, Loader,
        FiniteSetTheorems, SequenceTheorems, TLAPS

(* The module life cycle.                                                  *)

Before == {"starting", "main", "refused", "stopping"}
Panicking == {"panic", "shutdown", "report"}

\* The module states the kernel really uses.
Live == {"absent", "registered", "ready", "skipped", "failed", "stopped"}
Used == Live \cup {"panic", "shutdown"}

Lifecycles == [state : LifecycleStates, seen : SUBSET LifecycleStates,
               transitions : Nat, invalid : Nat]
Panics == [active : BOOLEAN, sequence : {0, 1}, cause : Nat,
           exceptions : 0 .. MaxExceptions, lifecycle : LifecycleStates,
           written : BOOLEAN, halted : BOOLEAN]
Startups == [started : Nat, skipped : Nat, failed : Nat, missing : Nat]

StartupTypes ==
    /\ phase \in Before \cup Panicking \cup {"halted"}
    /\ cursor \in 0 .. Len(Manifest) + 1
    /\ phase # "starting" /\ phase # "main" /\ phase # "refused" => cursor \in 0 .. Len(Manifest)
    /\ phase = "starting" => cursor >= 1
    /\ build \in Builds
    /\ mstate \in [Ids -> Used]
    /\ lifecycle \in Lifecycles
    /\ panic \in Panics
    /\ startup \in Startups
    /\ requests \in Nat

\* The first exception takes the only number, and only the panic path is left.
Numbered ==
    /\ panic.active <=> phase \notin Before
    /\ panic.sequence = IF phase \in Before THEN 0 ELSE 1
    /\ panic.exceptions = 0 <=> phase \in Before
    /\ phase \in Panicking => lifecycle.state = "Panic"

\* Every turn of the start loop counts at most one module.
Turns ==
    /\ startup.started + startup.skipped + startup.failed <= Len(Manifest)
    /\ phase = "starting" =>
         startup.started + startup.skipped + startup.failed < cursor

\* Module i of the build was started, or left out for a reason that lasts.
Settled(i) ==
    \/ mstate[i] \in {"ready", "stopped"}
    \/ /\ mstate[i] = "skipped" /\ ~Manifest[i].required
       /\ \/ ~InputSelected(i)
          \/ ~Manifest[i].fatal /\ \E r \in Manifest[i].requires : mstate[r] \in Inert

\* What the start loop leaves behind it, and what it has yet to touch.
Started ==
    /\ phase \in {"starting", "main", "stopping"} => \A i \in Ids \ build : mstate[i] = "absent"
    /\ phase = "starting" => \A i \in build : i >= cursor => mstate[i] = "registered"
    /\ phase = "starting" /\ startup.failed = 0 => \A i \in build : i < cursor => Settled(i)
    /\ phase \in {"main", "stopping"} /\ requests = 0 => \A i \in build : Settled(i)
    /\ phase = "starting" => /\ requests = 0
                             /\ \A i \in Ids : mstate[i] # "stopped"

\* Until the first pass of callbacks has gone by, what is ready rests on what is
\* ready.
RestsOnReady(i) ==
    mstate[i] = "ready" => \A r \in Manifest[i].requires : mstate[r] = "ready"

FirstPass == phase \in {"stopping", "panic"} /\ panic.exceptions <= 1

Ordered ==
    /\ phase \in {"starting", "main"} => \A i \in Ids : RestsOnReady(i)
    /\ FirstPass => \A i \in Ids : RestsOnReady(i)
    /\ FirstPass => \A i \in Ids : i > cursor => mstate[i] # "ready"

\* Where the passes of the panic path are.
Passes ==
    /\ phase \in Before => \A i \in Ids : mstate[i] \in Live
    /\ phase = "panic" /\ panic.exceptions = 1 =>
         \A i \in Ids : /\ mstate[i] # "shutdown"
                        /\ i > cursor => mstate[i] \in Inert \cup {"panic"}
    /\ phase = "shutdown" =>
         \A i \in Ids : i > cursor => mstate[i] \in Inert \cup {"shutdown"}
    /\ phase = "shutdown" /\ panic.exceptions = 1 =>
         \A i \in Ids : i <= cursor => mstate[i] \in Inert \cup {"panic"}
    /\ phase \in {"report", "halted"} =>
         \A i \in Ids : mstate[i] \in Inert \cup {"shutdown"}

\* The inductive invariant.
StartupIInv ==
    /\ StartupTypes
    /\ Numbered
    /\ Turns
    /\ Started
    /\ Ordered
    /\ Passes
    /\ PanicComplete

-----------------------------------------------------------------------------
(* The lifecycle.                                                          *)

\* The states are told apart, and have a rank.
LEMMA Ranks ==
    /\ Len(LifecycleOrder) = 14
    /\ LifecycleStates = {"Cold", "Entered", "BootInfoAdopted", "DescriptorsReady",
         "InterruptsReady", "TimersReady", "ConsoleReady", "MemoryReady",
         "VirtualMemoryReady", "Running", "DebugExitRequested",
         "InteractiveHalt", "Halting", "Halted", "Panic"}
    /\ Rank("Halting") = 13 /\ Rank("Halted") = 14
<1>1. Len(LifecycleOrder) = 14
  BY DEF LifecycleOrder
<1>2. 1 .. 14 = {1, 2, 3, 4, 5, 6, 7, 8, 9, 10, 11, 12, 13, 14}
  OBVIOUS
<1>3. LifecycleStates = {"Cold", "Entered", "BootInfoAdopted", "DescriptorsReady",
         "InterruptsReady", "TimersReady", "ConsoleReady", "MemoryReady",
         "VirtualMemoryReady", "Running", "DebugExitRequested",
         "InteractiveHalt", "Halting", "Halted", "Panic"}
  BY <1>2 DEF LifecycleStates, LifecycleOrder
<1>4. Rank("Halting") = 13
  <2>1. LifecycleOrder[13] = "Halting"
    BY DEF LifecycleOrder
  <2>2. \A i \in 1 .. 14 : LifecycleOrder[i] = "Halting" => i = 13
    BY <1>2 DEF LifecycleOrder
  <2> QED
    BY <1>1, <2>1, <2>2 DEF Rank
<1>5. Rank("Halted") = 14
  <2>1. LifecycleOrder[14] = "Halted"
    BY DEF LifecycleOrder
  <2>2. \A i \in 1 .. 14 : LifecycleOrder[i] = "Halted" => i = 14
    BY <1>2 DEF LifecycleOrder
  <2> QED
    BY <1>1, <2>1, <2>2 DEF Rank
<1> QED
  BY <1>1, <1>3, <1>4, <1>5

\* A transition stays among the lifecycles; an exception always gets through.
LEMMA TransitionType ==
    ASSUME NEW l \in Lifecycles, NEW next \in LifecycleStates
    PROVE  Transition(l, next) \in Lifecycles
<1>1. CASE ~IsTransitionAllowed(l.state, next)
  BY <1>1 DEF Transition, Lifecycles
<1>2. CASE IsTransitionAllowed(l.state, next)
  BY <1>2 DEF Transition, Lifecycles
<1> QED
  BY <1>1, <1>2

LEMMA ToPanic ==
    ASSUME NEW l \in Lifecycles
    PROVE  Transition(l, "Panic").state = "Panic"
BY DEF Transition, IsTransitionAllowed, Lifecycles

LEMMA PanicToHalted ==
    ASSUME NEW l \in Lifecycles, l.state = "Panic"
    PROVE  Transition(Transition(l, "Halting"), "Halted").state = "Halted"
<1> DEFINE m == Transition(l, "Halting")
<1>1. m.state = "Halting"
  BY DEF Transition, IsTransitionAllowed
<1>2. IsTransitionAllowed(m.state, "Halted")
  BY <1>1, Ranks DEF IsTransitionAllowed
<1> HIDE DEF m
<1>3. Transition(m, "Halted").state = "Halted"
  BY <1>1, <1>2 DEF Transition
<1> QED
  BY <1>3 DEF m

LEMMA ColdType == ColdLifecycle \in Lifecycles
BY Ranks DEF ColdLifecycle, Lifecycles

-----------------------------------------------------------------------------
(* The constants and the initial state.                                    *)

LEMMA Table ==
    ASSUME StartupConstants
    PROVE  /\ Len(Manifest) \in Nat /\ Ids = 1 .. Len(Manifest)
           /\ \A i \in Ids : \A r \in Manifest[i].requires :
                  r \in Ids /\ r < i
           /\ \A i \in Ids : Manifest[i].required => Manifest[i].fatal
           /\ \A B \in Builds : B \subseteq Ids
BY DEF StartupConstants, Ids

LEMMA StartupInitIInv ==
    ASSUME StartupConstants, StartupInit
    PROVE  StartupIInv
<1>1. \A i \in Ids : mstate[i] = IF i \in build THEN "registered" ELSE "absent"
  BY DEF StartupInit, Registered
<1>2. StartupTypes
  <2>1. lifecycle \in Lifecycles
    BY ColdType DEF StartupInit
  <2>2. panic \in Panics
    BY Ranks DEF StartupInit, NoPanic, Panics, StartupConstants
  <2>3. startup \in Startups
    BY DEF StartupInit, NoStartup, Startups
  <2>4. mstate \in [Ids -> Used]
    BY DEF StartupInit, Registered, Used, Live
  <2> QED
    BY <2>1, <2>2, <2>3, <2>4, Table DEF StartupInit, StartupTypes, Before
<1>3. Numbered
  BY DEF StartupInit, Numbered, NoPanic, Before, Panicking
<1>4. Turns
  BY Table DEF StartupInit, Turns, NoStartup
<1>5. Started
  BY <1>1, Table DEF StartupInit, Started
<1>6. Ordered
  BY <1>1 DEF StartupInit, Ordered, RestsOnReady, FirstPass
<1>7. Passes /\ PanicComplete
  BY <1>1 DEF StartupInit, Passes, PanicComplete, Before, Live
<1> QED
  BY <1>2, <1>3, <1>4, <1>5, <1>6, <1>7 DEF StartupIInv

-----------------------------------------------------------------------------
(* The start loop.                                                         *)

\* The sum that Turns bounds.
Sum(s) == s.started + s.skipped + s.failed

\* One turn of the loop for a module of the build: it is started, left out for a
\* reason, or counted as a failure.
LEMMA Turn ==
    ASSUME StartupConstants, StartupTypes, StartCompiledModule, cursor \in build
    PROVE  /\ startup' \in Startups /\ Sum(startup') = Sum(startup) + 1
           /\ \E x \in {"ready", "skipped", "failed"} :
                /\ mstate' = [mstate EXCEPT ![cursor] = x]
                /\ x = "ready" => CanStart(cursor)
                /\ startup'.failed = 0 =>
                     /\ startup.failed = 0
                     /\ x # "failed"
                     /\ x = "skipped" =>
                          /\ ~Manifest[cursor].required
                          /\ \/ ~InputSelected(cursor)
                             \/ ~Manifest[cursor].fatal /\ ~CanStart(cursor)
<1> DEFINE d == Decide(cursor)
           Runs == d.start /\ cursor \notin Rootless
           x == IF Runs THEN "ready" ELSE IF d.start THEN "failed" ELSE d.state
<1>1. /\ mstate' = [mstate EXCEPT ![cursor] = x]
      /\ startup' = Counted(startup, d, Runs)
      /\ cursor \in Ids
  BY Table DEF StartCompiledModule, StartupTypes, Ids
<1>2. startup.started \in Nat /\ startup.skipped \in Nat /\ startup.failed \in Nat
      /\ startup.missing \in Nat
  BY DEF StartupTypes, Startups
<1>3. Manifest[cursor].required \in BOOLEAN /\ Manifest[cursor].fatal \in BOOLEAN
  BY <1>1 DEF StartupConstants
<1>4. CASE ~InputSelected(cursor)
  <2>1. d = [state |-> "skipped", start |-> FALSE, failure |-> Manifest[cursor].required]
    BY <1>4 DEF Decide
  <2>2. d.start = FALSE /\ d.state = "skipped" /\ d.failure = Manifest[cursor].required
    BY <2>1
  <2>3. x = "skipped"
    BY <2>2
  <2>4. CASE Manifest[cursor].required
    <3>1. /\ startup'.started = startup.started /\ startup'.skipped = startup.skipped
          /\ startup'.failed = startup.failed + 1 /\ startup'.missing = startup.missing
          /\ startup' \in Startups
      BY <1>1, <1>2, <2>2, <2>4 DEF Counted, Startups
    <3> HIDE DEF x, d, Runs
    <3> QED
      BY <1>1, <1>2, <2>3, <3>1 DEF Sum
  <2>5. CASE ~Manifest[cursor].required
    <3>1. /\ startup'.started = startup.started /\ startup'.skipped = startup.skipped + 1
          /\ startup'.failed = startup.failed /\ startup'.missing = startup.missing
          /\ startup' \in Startups
      BY <1>1, <1>2, <2>2, <2>5 DEF Counted, Startups
    <3> HIDE DEF x, d, Runs
    <3> QED
      BY <1>1, <1>2, <1>4, <2>3, <2>5, <3>1 DEF Sum
  <2> QED
    BY <2>4, <2>5
<1>5. CASE InputSelected(cursor) /\ ~CanStart(cursor)
  <2>1. CASE Manifest[cursor].fatal
    <3>1. d = [state |-> "failed", start |-> FALSE, failure |-> Manifest[cursor].fatal]
      BY <1>5, <2>1 DEF Decide
    <3>2. d.start = FALSE /\ d.state = "failed" /\ d.failure = Manifest[cursor].fatal
      BY <3>1
    <3>3. x = "failed"
      BY <3>2
    <3>4. /\ startup'.started = startup.started /\ startup'.skipped = startup.skipped
          /\ startup'.failed = startup.failed + 1 /\ startup'.missing = startup.missing
          /\ startup' \in Startups
      BY <1>1, <1>2, <2>1, <3>2 DEF Counted, Startups
    <3> HIDE DEF x, d, Runs
    <3> QED
      BY <1>1, <1>2, <3>3, <3>4 DEF Sum
  <2>2. CASE ~Manifest[cursor].fatal
    <3>1. d = [state |-> "skipped", start |-> FALSE, failure |-> Manifest[cursor].fatal]
      BY <1>5, <2>2 DEF Decide
    <3>2. d.start = FALSE /\ d.state = "skipped" /\ d.failure = Manifest[cursor].fatal
      BY <3>1
    <3>3. x = "skipped"
      BY <3>2
    <3>4. /\ startup'.started = startup.started /\ startup'.skipped = startup.skipped + 1
          /\ startup'.failed = startup.failed /\ startup'.missing = startup.missing
          /\ startup' \in Startups
      BY <1>1, <1>2, <2>2, <3>2 DEF Counted, Startups
    <3>5. ~Manifest[cursor].required
      BY <1>1, <2>2, Table
    <3> HIDE DEF x, d, Runs
    <3> QED
      BY <1>1, <1>2, <1>5, <2>2, <3>3, <3>4, <3>5 DEF Sum
  <2> QED
    BY <2>1, <2>2
<1>6. CASE InputSelected(cursor) /\ CanStart(cursor)
  <2>1. d = [state |-> "starting", start |-> TRUE, failure |-> FALSE]
    BY <1>6 DEF Decide
  <2>2. d.start = TRUE /\ d.failure = FALSE
    BY <2>1
  <2>3. CASE cursor \notin Rootless
    <3>1. x = "ready"
      BY <2>2, <2>3
    <3>2. /\ startup'.started = startup.started + 1 /\ startup'.skipped = startup.skipped
          /\ startup'.failed = startup.failed /\ startup'.missing = startup.missing
          /\ startup' \in Startups
      BY <1>1, <1>2, <2>2, <2>3 DEF Counted, Startups
    <3> HIDE DEF x, d, Runs
    <3> QED
      BY <1>1, <1>2, <1>6, <3>1, <3>2 DEF Sum
  <2>4. CASE cursor \in Rootless
    <3>1. x = "failed"
      BY <2>2, <2>4
    <3>2. /\ startup'.started = startup.started /\ startup'.skipped = startup.skipped
          /\ startup'.failed = startup.failed + 1 /\ startup'.missing = startup.missing + 1
          /\ startup' \in Startups
      BY <1>1, <1>2, <2>2, <2>4 DEF Counted, Startups
    <3> HIDE DEF x, d, Runs
    <3> QED
      BY <1>1, <1>2, <3>1, <3>2 DEF Sum
  <2> QED
    BY <2>3, <2>4
<1> QED
  BY <1>4, <1>5, <1>6

LEMMA StartCompiledModuleIInv ==
    ASSUME StartupConstants, StartupIInv, StartCompiledModule
    PROVE  StartupIInv'
<1> USE DEF StartupIInv
<1>1. /\ phase = "starting" /\ phase' = "starting" /\ cursor \in Ids /\ cursor' = cursor + 1
      /\ UNCHANGED <<profile, bootFlags, build, lifecycle, panic, requests>>
      /\ cursor \in Nat /\ cursor' \in 1 .. Len(Manifest) + 1
  BY Table DEF StartCompiledModule, StartupTypes, Ids
<1>2. build \subseteq Ids /\ mstate \in [Ids -> Used] /\ startup \in Startups
  BY Table DEF StartupTypes
<1>3. PICK x \in {"ready", "skipped", "failed", "absent"} :
        /\ mstate' = [mstate EXCEPT ![cursor] = x]
        /\ startup' \in Startups /\ Sum(startup') <= Sum(startup) + 1
        /\ cursor \notin build <=> x = "absent"
        /\ x = "ready" => CanStart(cursor)
        /\ startup'.failed = 0 =>
             /\ startup.failed = 0
             /\ x # "failed"
             /\ x = "skipped" =>
                  /\ ~Manifest[cursor].required
                  /\ \/ ~InputSelected(cursor)
                     \/ ~Manifest[cursor].fatal /\ ~CanStart(cursor)
  <2>1. CASE cursor \notin build
    <3>1. mstate[cursor] = "absent"
      BY <1>1, <2>1 DEF Started
    <3>2. mstate' = mstate /\ startup' = startup
      BY <2>1 DEF StartCompiledModule
    <3>3. mstate' = [mstate EXCEPT ![cursor] = "absent"]
      BY <1>2, <3>1, <3>2
    <3>4. Sum(startup') <= Sum(startup) + 1
      BY <1>2, <3>2 DEF Sum, Startups
    <3> QED
      BY <1>2, <2>1, <3>2, <3>3, <3>4
  <2>2. CASE cursor \in build
    <3>1. Sum(startup) \in Nat
      BY <1>2 DEF Sum, Startups
    <3> QED
      BY <2>2, <3>1, Turn
  <2> QED
    BY <2>1, <2>2
<1>4. /\ mstate'[cursor] = x /\ \A i \in Ids : i # cursor => mstate'[i] = mstate[i]
      /\ mstate' \in [Ids -> Used]
  BY <1>1, <1>2, <1>3 DEF Used, Live
<1>5. \A i : InputSelected(i)' <=> InputSelected(i)
  BY <1>1 DEF InputSelected
<1>6. StartupTypes'
  BY <1>1, <1>3, <1>4 DEF StartupTypes, Before
<1>7. Numbered'
  BY <1>1 DEF Numbered
<1>8. Turns'
  <2>1. Sum(startup) < cursor /\ Sum(startup) \in Nat /\ Sum(startup') \in Nat
    BY <1>1, <1>2, <1>3 DEF Turns, Sum, Startups
  <2>2. Sum(startup') < cursor' /\ Sum(startup') <= Len(Manifest)
    BY <1>1, <1>3, <2>1, Table
  <2> QED
    BY <2>2 DEF Turns, Sum
<1>9. \A i \in Ids : mstate[i] = "ready" => mstate'[i] = "ready"
  <2>1. mstate[cursor] # "ready"
    BY <1>1 DEF Started
  <2> QED
    BY <1>4, <2>1
<1>10. Started'
  <2>1. \A i \in Ids \ build : mstate'[i] = "absent"
    BY <1>1, <1>3, <1>4 DEF Started
  <2>2. \A i \in build : i >= cursor' => mstate'[i] = "registered"
    <3>1. \A i \in build : i >= cursor' => i >= cursor /\ i # cursor
      BY <1>1, <1>2, Table
    <3> QED
      BY <1>1, <1>2, <1>4, <3>1 DEF Started
  <2>3. ASSUME startup'.failed = 0, NEW i \in build, i < cursor'
        PROVE  Settled(i)'
    <3>1. startup.failed = 0 /\ \A j \in build : j < cursor => Settled(j)
      BY <1>1, <1>3, <2>3 DEF Started
    <3>2. CASE i < cursor
      <4>1. Settled(i) /\ i # cursor /\ i \in Ids /\ mstate'[i] = mstate[i]
        BY <1>1, <1>2, <1>4, <3>1, <3>2
      <4>2. \A r \in Manifest[i].requires : r \in Ids /\ r # cursor
        BY <1>1, <3>2, <4>1, Table
      <4> QED
        BY <1>4, <1>5, <4>1, <4>2 DEF Settled
    <3>3. CASE i = cursor
      <4>1. x \in {"ready", "skipped"}
        BY <1>3, <2>3, <3>3
      <4>2. CASE x = "ready"
        BY <1>4, <3>3, <4>2 DEF Settled
      <4>3. CASE x = "skipped" /\ ~InputSelected(cursor)
        BY <1>3, <1>4, <1>5, <2>3, <3>3, <4>3 DEF Settled
      <4>4. CASE x = "skipped" /\ ~Manifest[cursor].fatal /\ ~CanStart(cursor)
        <5>1. PICK r \in Manifest[cursor].requires : mstate[r] # "ready"
          BY <4>4 DEF CanStart
        <5>2. r \in Ids /\ r < cursor /\ mstate'[r] = mstate[r]
          BY <1>1, <1>4, Table
        <5>3. mstate[r] \in Inert
          <6>1. CASE r \in build
            <7>1. Settled(r)
              BY <3>1, <5>2, <6>1
            <7>2. mstate[r] # "stopped"
              BY <1>1, <5>2 DEF Started
            <7> QED
              BY <5>1, <7>1, <7>2 DEF Settled, Inert
          <6>2. CASE r \notin build
            BY <1>1, <5>2, <6>2 DEF Started, Inert
          <6> QED
            BY <6>1, <6>2
        <5> QED
          BY <1>3, <1>4, <2>3, <3>3, <4>4, <5>1, <5>2, <5>3 DEF Settled
      <4> QED
        BY <1>3, <2>3, <4>1, <4>2, <4>3, <4>4
    <3> QED
      BY <1>1, <1>2, <2>3, <3>2, <3>3, Table
  <2>4. \A i \in Ids : mstate'[i] # "stopped"
    BY <1>1, <1>3, <1>4 DEF Started
  <2> QED
    BY <1>1, <2>1, <2>2, <2>3, <2>4 DEF Started
<1>11. Ordered'
  <2>1. ASSUME NEW i \in Ids, mstate'[i] = "ready", NEW r \in Manifest[i].requires
        PROVE  mstate'[r] = "ready"
    <3>1. r \in Ids
      BY Table
    <3>2. mstate[r] = "ready"
      <4>1. CASE i = cursor
        BY <1>3, <1>4, <2>1, <4>1 DEF CanStart
      <4>2. CASE i # cursor
        BY <1>1, <1>4, <2>1, <4>2 DEF Ordered, RestsOnReady
      <4> QED
        BY <4>1, <4>2
    <3> QED
      BY <1>9, <3>1, <3>2
  <2> QED
    BY <1>1, <2>1 DEF Ordered, RestsOnReady, FirstPass
<1>12. Passes'
  BY <1>1, <1>4 DEF Passes, Before, Live
<1>13. PanicComplete'
  BY <1>1 DEF PanicComplete
<1> QED
  BY <1>6, <1>7, <1>8, <1>10, <1>11, <1>12, <1>13

\* KernelMain is entered with nothing failed.
LEMMA EnterKernelMainIInv ==
    ASSUME StartupConstants, StartupIInv, EnterKernelMain
    PROVE  StartupIInv'
<1> USE DEF StartupIInv
<1>1. /\ phase = "starting" /\ phase' \in {"main", "refused"} /\ cursor > Len(Manifest)
      /\ UNCHANGED <<cursor, mstate, profile, bootFlags, build, startup, lifecycle, panic, requests>>
      /\ phase' = "main" => startup.failed = 0
  BY DEF EnterKernelMain, Succeeded
<1>2. StartupTypes' /\ Numbered' /\ Turns'
  BY <1>1 DEF StartupTypes, Numbered, Turns, Before, Panicking
<1>3. Started'
  <2>1. \A i \in build : i < cursor
    BY <1>1, Table DEF StartupTypes
  <2>2. \A i : InputSelected(i)' <=> InputSelected(i)
    BY <1>1 DEF InputSelected
  <2>3. \A i : Settled(i) => Settled(i)'
    BY <1>1, <2>2 DEF Settled
  <2> QED
    BY <1>1, <2>1, <2>3 DEF Started
<1>4. Ordered'
  BY <1>1 DEF Ordered, RestsOnReady, FirstPass
<1>5. Passes' /\ PanicComplete'
  BY <1>1 DEF Passes, PanicComplete, Before
<1> QED
  BY <1>2, <1>3, <1>4, <1>5

-----------------------------------------------------------------------------
(* KernelMain.                                                             *)

\* What KernelMain does without touching the modules.
LEMMA QuietIInv ==
    ASSUME StartupConstants, StartupIInv, phase = "main",
           lifecycle' \in Lifecycles, requests' \in Nat, requests' >= requests,
           UNCHANGED <<phase, cursor, mstate, profile, bootFlags, build, startup, panic>>
    PROVE  StartupIInv'
<1> USE DEF StartupIInv
<1>1. StartupTypes' /\ Numbered' /\ Turns'
  BY DEF StartupTypes, Numbered, Turns, Before, Panicking
<1>2. Started'
  <2>1. \A i : Settled(i) => Settled(i)'
    BY DEF Settled, InputSelected
  <2>2. requests' = 0 => requests = 0
    BY DEF StartupTypes
  <2> QED
    BY <2>1, <2>2 DEF Started
<1>3. Ordered' /\ Passes' /\ PanicComplete'
  BY DEF Ordered, RestsOnReady, FirstPass, Passes, PanicComplete, Before
<1> QED
  BY <1>1, <1>2, <1>3

LEMMA RequestTransitionIInv ==
    ASSUME StartupConstants, StartupIInv, RequestTransition
    PROVE  StartupIInv'
<1>1. PICK s \in Requests : lifecycle' = Transition(lifecycle, s)
  BY DEF RequestTransition
<1>2. lifecycle \in Lifecycles /\ s \in LifecycleStates /\ requests \in Nat
  BY DEF StartupIInv, StartupTypes, StartupConstants
<1>3. lifecycle' \in Lifecycles
  BY <1>1, <1>2, TransitionType
<1>4. requests' \in Nat /\ requests' >= requests /\ phase = "main"
      /\ UNCHANGED <<phase, cursor, mstate, profile, bootFlags, build, startup, panic>>
  BY <1>2 DEF RequestTransition
<1> QED
  BY <1>3, <1>4, QuietIInv

LEMMA ValidateBootInfoIInv ==
    ASSUME StartupConstants, StartupIInv, ValidateBootInfo
    PROVE  StartupIInv'
<1>1. lifecycle' \in Lifecycles /\ requests' \in Nat /\ requests' >= requests /\ phase = "main"
      /\ UNCHANGED <<phase, cursor, mstate, profile, bootFlags, build, startup, panic>>
  BY DEF StartupIInv, StartupTypes, ValidateBootInfo
<1> QED
  BY <1>1, QuietIInv

\* The runtime starts over with a few modules, which need only each other.
LEMMA RuntimeEnterIInv ==
    ASSUME StartupConstants, StartupIInv, RuntimeEnter
    PROVE  StartupIInv'
<1> USE DEF StartupIInv
<1>1. /\ phase = "main" /\ phase' = "main" /\ requests' = requests + 1 /\ requests \in Nat
      /\ UNCHANGED <<cursor, profile, bootFlags, build, startup>>
      /\ panic' = [NoPanic EXCEPT !.sequence = panic.sequence]
      /\ lifecycle' = Transition(Transition(ColdLifecycle, "Entered"), "BootInfoAdopted")
  BY DEF RuntimeEnter, StartupTypes
<1>2. \A i \in Ids : mstate'[i] = IF i \in build \cap RuntimeModules THEN "ready"
                                  ELSE IF i \in build THEN "registered" ELSE "absent"
  BY DEF RuntimeEnter, Registered
<1>3. mstate' \in [Ids -> Used]
  BY <1>2 DEF RuntimeEnter, Used, Live
<1>4. lifecycle' \in Lifecycles
  <2>1. Transition(ColdLifecycle, "Entered") \in Lifecycles
    BY ColdType, TransitionType, Ranks
  <2> QED
    BY <1>1, <2>1, TransitionType, Ranks
<1>5. panic' \in Panics /\ panic'.sequence = 0 /\ panic'.exceptions = 0 /\ ~panic'.active
  <2>1. panic.sequence = 0
    BY <1>1 DEF Numbered, Before
  <2>2. NoPanic \in Panics
    BY Ranks DEF NoPanic, Panics, StartupConstants
  <2>3. panic' = NoPanic
    BY <1>1, <2>1 DEF NoPanic
  <2> QED
    BY <2>2, <2>3 DEF NoPanic
<1>6. StartupTypes'
  BY <1>1, <1>3, <1>4, <1>5 DEF StartupTypes
<1>7. Numbered'
  BY <1>1, <1>5 DEF Numbered, Before, Panicking
<1>8. Turns'
  BY <1>1 DEF Turns
<1>9. Started'
  BY <1>1, <1>2 DEF Started
<1>10. Ordered'
  <2>1. \A i \in Ids : RestsOnReady(i)'
    <3>1. ASSUME NEW i \in build \cap RuntimeModules, NEW r \in Manifest[i].requires
          PROVE  r \in build \cap RuntimeModules /\ r \in Ids
      BY Table DEF StartupConstants, StartupTypes
    <3> QED
      BY <1>2, <3>1 DEF RestsOnReady
  <2> QED
    BY <1>1, <2>1 DEF Ordered, FirstPass
<1>11. Passes' /\ PanicComplete'
  BY <1>1, <1>2 DEF Passes, PanicComplete, Before, Live
<1> QED
  BY <1>6, <1>7, <1>8, <1>9, <1>10, <1>11

-----------------------------------------------------------------------------
(* The callback loops.                                                     *)

LEMMA InvokeStopCallbacksIInv ==
    ASSUME StartupConstants, StartupIInv, InvokeStopCallbacks
    PROVE  StartupIInv'
<1> USE DEF StartupIInv
<1>1. /\ phase = "main" /\ phase' = "stopping" /\ cursor' = Len(Manifest)
      /\ UNCHANGED <<mstate, profile, bootFlags, build, startup, lifecycle, panic, requests>>
  BY DEF InvokeStopCallbacks, First
<1>2. StartupTypes' /\ Numbered' /\ Turns'
  BY <1>1, Table DEF StartupTypes, Numbered, Turns, Before, Panicking
<1>3. Started'
  <2>1. \A i : Settled(i) => Settled(i)'
    BY <1>1 DEF Settled, InputSelected
  <2> QED
    BY <1>1, <2>1 DEF Started
<1>4. Ordered'
  BY <1>1, Table DEF Ordered, RestsOnReady, FirstPass
<1>5. Passes' /\ PanicComplete'
  BY <1>1 DEF Passes, PanicComplete, Before
<1> QED
  BY <1>2, <1>3, <1>4, <1>5

\* What one callback of a loop changes.
Step(from, x, to) ==
    /\ phase = from /\ cursor \in Ids
    /\ mstate' = [mstate EXCEPT ![cursor] = x]
    /\ phase' = IF cursor = 1 THEN to ELSE from
    /\ cursor' = IF cursor = 1 THEN Len(Manifest) ELSE cursor - 1
    /\ UNCHANGED <<profile, bootFlags, build, startup, lifecycle, panic, requests>>

LEMMA StepFacts ==
    ASSUME StartupConstants, StartupIInv, NEW from \in Before \cup Panicking, NEW to, NEW x \in Used,
           Step(from, x, to)
    PROVE  /\ cursor \in Ids /\ cursor \in Nat /\ cursor' \in 0 .. Len(Manifest)
           /\ mstate' \in [Ids -> Used] /\ mstate'[cursor] = x
           /\ \A i \in Ids : i # cursor => mstate'[i] = mstate[i]
           /\ cursor # 1 => \A i \in Ids : i > cursor' => i >= cursor
           /\ cursor # 1 => \A i \in Ids : i <= cursor' => i <= cursor /\ i # cursor
           /\ cursor = 1 => \A i \in Ids : i >= cursor /\ ~(i > cursor')
<1>1. cursor \in 1 .. Len(Manifest) /\ Len(Manifest) \in Nat /\ Ids = 1 .. Len(Manifest)
      /\ cursor' = IF cursor = 1 THEN Len(Manifest) ELSE cursor - 1
  BY Table DEF Step
<1>2. /\ mstate' \in [Ids -> Used] /\ mstate'[cursor] = x
      /\ \A i \in Ids : i # cursor => mstate'[i] = mstate[i]
  BY DEF Step, StartupIInv, StartupTypes
<1>3. /\ cursor \in Ids /\ cursor \in Nat /\ cursor' \in 0 .. Len(Manifest)
      /\ cursor # 1 => \A i \in Ids : i > cursor' => i >= cursor
      /\ cursor # 1 => \A i \in Ids : i <= cursor' => i <= cursor /\ i # cursor
      /\ cursor = 1 => \A i \in Ids : i >= cursor /\ ~(i > cursor')
  BY <1>1
<1> QED
  BY <1>2, <1>3

\* The stop loop: from the last module to the first, so nothing ready is left
\* on top of what is stopped.
LEMMA StoppingIInv ==
    ASSUME StartupConstants, StartupIInv, Callback("stopping", Stopped, "main")
    PROVE  StartupIInv'
<1> USE DEF StartupIInv
<1> DEFINE x == Stopped(mstate[cursor])
<1>1. cursor \in Ids /\ phase = "stopping" /\ mstate \in [Ids -> Used] /\ build \subseteq Ids
  BY Table DEF Callback, StartupTypes, Ids
<1>2. Step("stopping", x, "main")
  BY <1>1 DEF Callback, Step, First
<1>3. mstate[cursor] \in Live
  BY <1>1 DEF Passes, Before
<1>4. /\ x \in Live /\ x # "ready"
      /\ mstate[cursor] \in Inert => x = mstate[cursor]
      /\ mstate[cursor] \in {"ready", "stopped"} => x = "stopped"
      /\ mstate[cursor] = "absent" => x = "absent"
  BY <1>3 DEF Stopped, Live, Inert
<1> HIDE DEF x
<1>5. /\ mstate' \in [Ids -> Used] /\ mstate'[cursor] = x
      /\ \A i \in Ids : i # cursor => mstate'[i] = mstate[i]
      /\ cursor' \in 0 .. Len(Manifest) /\ phase' \in {"stopping", "main"}
      /\ UNCHANGED <<profile, bootFlags, build, startup, lifecycle, panic, requests>>
  BY <1>2, <1>4, StepFacts DEF Step, Before, Used
<1>6. StartupTypes' /\ Numbered' /\ Turns'
  BY <1>1, <1>5 DEF StartupTypes, Numbered, Turns, Before, Panicking
<1>7. Started'
  <2>1. \A i \in Ids \ build : mstate'[i] = "absent"
    BY <1>1, <1>4, <1>5 DEF Started
  <2>2. ASSUME NEW i \in build, Settled(i) PROVE Settled(i)'
    <3>1. \A r \in Ids : mstate[r] \in Inert => mstate'[r] \in Inert
      BY <1>4, <1>5
    <3>2. \A r \in Manifest[i].requires : r \in Ids
      BY <1>1, Table
    <3>3. InputSelected(i)' <=> InputSelected(i)
      BY <1>5 DEF InputSelected
    <3>4. CASE i = cursor
      BY <1>4, <1>5, <2>2, <3>1, <3>2, <3>3, <3>4 DEF Settled, Inert
    <3>5. CASE i # cursor
      BY <1>1, <1>5, <2>2, <3>1, <3>2, <3>3, <3>5 DEF Settled
    <3> QED
      BY <3>4, <3>5
  <2> QED
    BY <1>1, <1>5, <2>1, <2>2 DEF Started
<1>8. \A i \in Ids : i > cursor => mstate[i] # "ready"
  BY <1>1 DEF Ordered, FirstPass, Numbered, Before
<1>9. Ordered'
  <2>1. \A i \in Ids : i >= cursor => mstate'[i] # "ready"
    BY <1>1, <1>4, <1>5, <1>8, Table
  <2>2. ASSUME NEW i \in Ids, mstate'[i] = "ready", NEW r \in Manifest[i].requires
        PROVE  mstate'[r] = "ready"
    <3>1. i < cursor /\ mstate[i] = "ready"
      BY <1>1, <1>5, <2>1, <2>2, Table
    <3>2. r \in Ids /\ r < i
      BY Table
    <3>3. mstate[r] = "ready"
      BY <1>1, <3>1 DEF Ordered, FirstPass, RestsOnReady, Numbered, Before
    <3> QED
      BY <1>1, <1>5, <3>1, <3>2, <3>3, Table
  <2>3. phase' = "stopping" => \A i \in Ids : i > cursor' => i >= cursor
    BY <1>1, <1>2, <1>4, StepFacts DEF Step, Before, Used
  <2> QED
    BY <1>5, <2>1, <2>2, <2>3 DEF Ordered, RestsOnReady, FirstPass
<1>10. Passes' /\ PanicComplete'
  BY <1>1, <1>4, <1>5 DEF Passes, PanicComplete, Before
<1> QED
  BY <1>6, <1>7, <1>9, <1>10

\* The panic loop ends every module that is not out of it already.
LEMMA PanicLoopIInv ==
    ASSUME StartupConstants, StartupIInv, Callback("panic", Panicked, "shutdown")
    PROVE  StartupIInv'
<1> USE DEF StartupIInv
<1> DEFINE x == Panicked(mstate[cursor])
<1>1. cursor \in Ids /\ phase = "panic" /\ mstate \in [Ids -> Used]
  BY Table DEF Callback, StartupTypes, Ids
<1>2. Step("panic", x, "shutdown")
  BY <1>1 DEF Callback, Step, First
<1>3. mstate[cursor] \in Used
  BY <1>1
<1>4. /\ x \in Used /\ x # "ready"
      /\ mstate[cursor] # "shutdown" => x \in Inert \cup {"panic"}
      /\ mstate[cursor] = "shutdown" => x = "shutdown"
  BY <1>3 DEF Panicked, Used, Live, Inert
<1> HIDE DEF x
<1>5. /\ mstate' \in [Ids -> Used] /\ mstate'[cursor] = x
      /\ \A i \in Ids : i # cursor => mstate'[i] = mstate[i]
      /\ cursor' \in 0 .. Len(Manifest) /\ phase' \in {"panic", "shutdown"}
      /\ phase' = IF cursor = 1 THEN "shutdown" ELSE "panic"
      /\ UNCHANGED <<profile, bootFlags, build, startup, lifecycle, panic, requests>>
  BY <1>2, <1>4, StepFacts DEF Step, Panicking
<1>6. StartupTypes' /\ Numbered' /\ Turns'
  BY <1>1, <1>5 DEF StartupTypes, Numbered, Turns, Before, Panicking
<1>7. Started'
  BY <1>5 DEF Started
<1>8. /\ phase' = "panic" => \A i \in Ids : i > cursor' => i >= cursor
      /\ phase' = "shutdown" => \A i \in Ids : i >= cursor /\ ~(i > cursor')
  BY <1>2, <1>4, <1>5, StepFacts DEF Panicking
<1>9. Ordered'
  <2>1. ASSUME panic.exceptions <= 1
        PROVE  /\ \A i \in Ids : i >= cursor => mstate'[i] # "ready"
               /\ \A i \in Ids : RestsOnReady(i)'
    <3>1. FirstPass
      BY <1>1, <2>1 DEF FirstPass
    <3>2. \A i \in Ids : i >= cursor => mstate'[i] # "ready"
      BY <1>1, <1>4, <1>5, <3>1, Table DEF Ordered
    <3>3. ASSUME NEW i \in Ids, mstate'[i] = "ready", NEW r \in Manifest[i].requires
          PROVE  mstate'[r] = "ready"
      <4>1. i < cursor /\ mstate[i] = "ready"
        BY <1>1, <1>5, <3>2, <3>3, Table
      <4>2. r \in Ids /\ r < i
        BY Table
      <4>3. mstate[r] = "ready"
        BY <3>1, <4>1 DEF Ordered, RestsOnReady
      <4> QED
        BY <1>1, <1>5, <4>1, <4>2, <4>3, Table
    <3> QED
      BY <3>2, <3>3 DEF RestsOnReady
  <2> QED
    BY <1>5, <1>8, <2>1 DEF Ordered, FirstPass
<1>10. Passes'
  <2>1. ASSUME panic.exceptions = 1, NEW i \in Ids, i >= cursor
        PROVE  mstate'[i] \in Inert \cup {"panic"}
    BY <1>1, <1>4, <1>5, <2>1, Table DEF Passes
  <2>2. ASSUME panic.exceptions = 1, NEW i \in Ids
        PROVE  mstate'[i] # "shutdown"
    BY <1>1, <1>4, <1>5, <2>2 DEF Passes, Inert
  <2> QED
    BY <1>5, <1>8, <2>1, <2>2 DEF Passes, Before
<1>11. PanicComplete'
  BY <1>5 DEF PanicComplete
<1> QED
  BY <1>6, <1>7, <1>9, <1>10, <1>11

\* The shutdown loop leaves every module shut down or inert.
LEMMA ShutdownLoopIInv ==
    ASSUME StartupConstants, StartupIInv, Callback("shutdown", ShutDown, "report")
    PROVE  StartupIInv'
<1> USE DEF StartupIInv
<1> DEFINE x == ShutDown(mstate[cursor])
<1>1. cursor \in Ids /\ phase = "shutdown" /\ mstate \in [Ids -> Used]
  BY Table DEF Callback, StartupTypes, Ids
<1>2. Step("shutdown", x, "report")
  BY <1>1 DEF Callback, Step, First
<1>3. mstate[cursor] \in Used
  BY <1>1
<1>4. x \in Used /\ x \in Inert \cup {"shutdown"}
  BY <1>3 DEF ShutDown, Used, Live, Inert
<1> HIDE DEF x
<1>5. /\ mstate' \in [Ids -> Used] /\ mstate'[cursor] = x
      /\ \A i \in Ids : i # cursor => mstate'[i] = mstate[i]
      /\ cursor' \in 0 .. Len(Manifest) /\ phase' \in {"shutdown", "report"}
      /\ phase' = IF cursor = 1 THEN "report" ELSE "shutdown"
      /\ UNCHANGED <<profile, bootFlags, build, startup, lifecycle, panic, requests>>
  BY <1>2, <1>4, StepFacts DEF Step, Panicking
<1>6. StartupTypes' /\ Numbered' /\ Turns'
  BY <1>1, <1>5 DEF StartupTypes, Numbered, Turns, Before, Panicking
<1>7. Started'
  BY <1>5 DEF Started
<1>8. /\ phase' = "shutdown" => \A i \in Ids : i > cursor' => i >= cursor
      /\ phase' = "shutdown" => \A i \in Ids : i <= cursor' => i <= cursor /\ i # cursor
      /\ phase' = "report" => \A i \in Ids : i >= cursor
  BY <1>2, <1>4, <1>5, StepFacts DEF Panicking
<1>9. Ordered'
  BY <1>5 DEF Ordered, FirstPass
<1>10. Passes'
  <2>1. ASSUME NEW i \in Ids, i >= cursor
        PROVE  mstate'[i] \in Inert \cup {"shutdown"}
    BY <1>1, <1>4, <1>5, <2>1, Table DEF Passes
  <2>2. ASSUME panic.exceptions = 1, phase' = "shutdown", NEW i \in Ids, i <= cursor'
        PROVE  mstate'[i] \in Inert \cup {"panic"}
    <3>1. i <= cursor /\ i # cursor
      BY <1>8, <2>2
    <3> QED
      BY <1>1, <1>5, <2>2, <3>1 DEF Passes
  <2> QED
    BY <1>5, <1>8, <2>1, <2>2 DEF Passes, Before
<1>11. PanicComplete'
  BY <1>5 DEF PanicComplete
<1> QED
  BY <1>6, <1>7, <1>9, <1>10, <1>11

-----------------------------------------------------------------------------
(* Exceptions and the end.                                                 *)

\* The first exception finds what is ready resting on what is ready; a nested
\* one keeps the number and starts the loops again.
LEMMA RaiseExceptionIInv ==
    ASSUME StartupConstants, StartupIInv, RaiseException
    PROVE  StartupIInv'
<1> USE DEF StartupIInv
<1>1. /\ phase \in {"starting", "main", "stopping", "panic", "shutdown", "report"}
      /\ phase' = "panic" /\ cursor' = Len(Manifest) /\ panic' = StartPanic(panic)
      /\ lifecycle' = Transition(lifecycle, "Panic")
      /\ panic.exceptions < MaxExceptions
      /\ UNCHANGED <<mstate, profile, bootFlags, build, startup, requests>>
  BY DEF RaiseException, First
<1>2. /\ panic.exceptions \in Nat /\ MaxExceptions \in Nat /\ panic \in Panics
      /\ lifecycle \in Lifecycles
  BY DEF StartupTypes, Panics, StartupConstants
<1>3. lifecycle' \in Lifecycles /\ lifecycle'.state = "Panic"
  BY <1>1, <1>2, TransitionType, ToPanic, Ranks
<1>4. panic'.active /\ panic'.exceptions = panic.exceptions + 1 /\ panic'.sequence = 1
  BY <1>1, <1>2 DEF StartPanic, Numbered, Panics
<1>5. panic' \in Panics
  <2>1. panic' = [active |-> TRUE, exceptions |-> panic.exceptions + 1,
                  cause |-> panic.exceptions + 1, sequence |-> 1,
                  lifecycle |-> "Panic", written |-> panic.written, halted |-> TRUE]
    BY <1>1, <1>2, <1>4 DEF StartPanic
  <2>2. panic.exceptions + 1 \in 0 .. MaxExceptions /\ panic.exceptions + 1 \in Nat
    BY <1>1, <1>2
  <2>3. panic.written \in BOOLEAN /\ "Panic" \in LifecycleStates
    BY <1>2, Ranks DEF Panics
  <2> QED
    BY <2>1, <2>2, <2>3 DEF Panics
<1>6. StartupTypes'
  BY <1>1, <1>3, <1>5, Table DEF StartupTypes, Panicking
<1>7. Numbered'
  BY <1>1, <1>2, <1>3, <1>4 DEF Numbered, Before, Panicking
<1>8. Turns' /\ Started'
  BY <1>1 DEF Turns, Started
<1>9. panic'.exceptions <= 1 => phase \in {"starting", "main", "stopping"}
                               /\ panic.exceptions = 0
  BY <1>1, <1>2, <1>4 DEF Numbered, Before
<1>10. \A i \in Ids : ~(i > cursor')
  BY <1>1, Table
<1>11. Ordered'
  BY <1>1, <1>9, <1>10 DEF Ordered, FirstPass, RestsOnReady
<1>12. Passes'
  BY <1>1, <1>9, <1>10 DEF Passes, Before, Live
<1>13. PanicComplete'
  BY <1>1 DEF PanicComplete
<1> QED
  BY <1>6, <1>7, <1>8, <1>11, <1>12, <1>13

LEMMA PanicReportIInv ==
    ASSUME StartupConstants, StartupIInv, PanicReport
    PROVE  StartupIInv'
<1> USE DEF StartupIInv
<1>1. /\ phase = "report" /\ phase' = "halted"
      /\ lifecycle' = Transition(Transition(lifecycle, "Halting"), "Halted")
      /\ panic.active /\ panic.sequence = 1 /\ panic.exceptions # 0
      /\ lifecycle.state = "Panic" /\ panic \in Panics /\ lifecycle \in Lifecycles
      /\ UNCHANGED <<cursor, mstate, profile, bootFlags, build, startup, requests>>
  BY DEF PanicReport, Numbered, StartupTypes, Before, Panicking
<1>2. lifecycle' \in Lifecycles /\ lifecycle'.state = "Halted"
  <2>1. Transition(lifecycle, "Halting") \in Lifecycles
    BY <1>1, TransitionType, Ranks
  <2> QED
    BY <1>1, <2>1, TransitionType, PanicToHalted, Ranks
<1>3. panic' = [[panic EXCEPT !.written = TRUE] EXCEPT !.lifecycle = lifecycle'.state]
  BY <1>1 DEF PanicReport
<1>4. /\ panic' \in Panics /\ panic'.active /\ panic'.sequence = 1 /\ panic'.exceptions # 0
      /\ panic'.written /\ panic'.lifecycle = lifecycle'.state
  BY <1>1, <1>2, <1>3, Ranks DEF Panics
<1>5. StartupTypes' /\ Numbered' /\ Turns' /\ Started' /\ Ordered'
  <2>1. StartupTypes'
    BY <1>1, <1>2, <1>4 DEF StartupTypes
  <2>2. Numbered'
    BY <1>1, <1>4 DEF Numbered, Before, Panicking
  <2>3. Turns' /\ Started' /\ Ordered'
    BY <1>1 DEF Turns, Started, Ordered, FirstPass
  <2> QED
    BY <2>1, <2>2, <2>3
<1>6. Passes'
  BY <1>1 DEF Passes, Before
<1>7. PanicComplete'
  BY <1>1, <1>2, <1>4 DEF PanicComplete, Passes
<1> QED
  BY <1>5, <1>6, <1>7

LEMMA NextIInv ==
    ASSUME StartupConstants, StartupIInv, [StartupNext]_startupVars
    PROVE  StartupIInv'
<1>1. CASE StartupNext
  BY <1>1, StartCompiledModuleIInv, EnterKernelMainIInv, RequestTransitionIInv, RuntimeEnterIInv,
     ValidateBootInfoIInv, InvokeStopCallbacksIInv, StoppingIInv, PanicLoopIInv,
     ShutdownLoopIInv, RaiseExceptionIInv, PanicReportIInv DEF StartupNext, RunCallbacks
<1>2. CASE UNCHANGED startupVars
  BY <1>2 DEF startupVars, StartupIInv, StartupTypes, Numbered, Turns, Started, Settled, InputSelected,
              Ordered, RestsOnReady, FirstPass, Passes, PanicComplete
<1> QED
  BY <1>1, <1>2

LEMMA IInvSound ==
    ASSUME StartupConstants, StartupIInv
    PROVE  StartupSound
<1> USE DEF StartupIInv
<1>1. StartupTypeOK
  <2>1. mstate \in [Ids -> States]
    BY DEF StartupTypes, Used, Live, States
  <2>2. lifecycle.state \in LifecycleStates
    BY DEF StartupTypes, Lifecycles
  <2>3. panic.sequence \in 0 .. MaxExceptions
    BY DEF StartupTypes, Panics, Numbered, StartupConstants
  <2> QED
    BY <2>1, <2>2, <2>3 DEF StartupTypeOK, Turns
<1>2. ReadyOnReady
  BY DEF ReadyOnReady, Ordered, RestsOnReady
<1>3. MainOnlyWhenStarted
  <2> SUFFICES ASSUME phase = "main", requests = 0, \A i \in Ids : mstate[i] # "stopped",
                      NEW i \in build
               PROVE  \/ mstate[i] = "ready"
                      \/ /\ mstate[i] = "skipped" /\ ~Manifest[i].required
                         /\ \/ ~InputSelected(i)
                            \/ ~Manifest[i].fatal /\ ~CanStart(i)
    BY DEF MainOnlyWhenStarted
  <2>1. Settled(i) /\ i \in Ids
    BY Table DEF Started, StartupTypes
  <2>2. (\E r \in Manifest[i].requires : mstate[r] \in Inert) => ~CanStart(i)
    BY DEF CanStart, Inert
  <2> QED
    BY <2>1, <2>2 DEF Settled
<1>4. CallbacksInReverse
  <2> SUFFICES ASSUME NEW i \in Ids, NEW r \in Manifest[i].requires
               PROVE  /\ phase = "stopping" /\ mstate[r] = "stopped" => mstate[i] # "ready"
                      /\ phase = "panic" /\ panic.exceptions = 1 /\ mstate[r] = "panic"
                            => mstate[i] # "ready"
                      /\ phase = "shutdown" /\ panic.exceptions = 1 /\ mstate[r] = "shutdown"
                            => mstate[i] # "panic"
    BY DEF CallbacksInReverse
  <2>1. r \in Ids /\ r < i
    BY Table
  <2>2. phase = "stopping" => FirstPass
    BY DEF FirstPass, Numbered, Before
  <2>3. phase = "panic" /\ panic.exceptions = 1 => FirstPass
    BY DEF FirstPass
  <2>4. FirstPass => RestsOnReady(i)
    BY DEF Ordered
  <2>5. ASSUME phase = "shutdown", panic.exceptions = 1, mstate[r] = "shutdown"
        PROVE  mstate[i] # "panic"
    <3>1. ~(r <= cursor)
      BY <2>1, <2>5 DEF Passes, Inert
    <3>2. i > cursor
      BY <2>1, <3>1, Table DEF StartupTypes
    <3> QED
      BY <2>5, <3>2 DEF Passes, Inert
  <2> QED
    BY <2>2, <2>3, <2>4, <2>5 DEF RestsOnReady
<1> QED
  BY <1>1, <1>2, <1>3, <1>4 DEF StartupSound

\* For every module table in dependency order: KernelStart and
\* OrynKernelRuntimeEnter never leave a ready module on one that is not,
\* KernelMain runs only on a kernel that started, the callback loops end modules
\* in reverse dependency order, and a panic, nested or not, leaves every module
\* shut down and one report.
THEOREM StartupAlwaysSound ==
    ASSUME StartupConstants
    PROVE  StartupSpec => []StartupSound
<1>1. StartupInit => StartupIInv
  BY StartupInitIInv
<1>2. StartupIInv /\ [StartupNext]_startupVars => StartupIInv'
  BY NextIInv
<1>3. StartupIInv => StartupSound
  BY IInvSound
<1> QED
  BY <1>1, <1>2, <1>3, PTL DEF StartupSpec

-----------------------------------------------------------------------------
(* System calls.                                                           *)

CallStatuses == {"Ok", "BadPacket", "Unknown", "BadPointer"}

SysState == [Counters -> Nat]

\* Every call is answered with exactly one status; with it the bound on the
\* answers, which SysCallsTypeOK states, is inductive.
AnsweredOnce ==
    sysCalls = answers["Ok"] + answers["BadPacket"] + answers["Unknown"] + answers["BadPointer"]

\* The inductive invariant.
SysCallsIInv ==
    /\ sys \in SysState
    /\ answers \in [CallStatuses -> Nat]
    /\ sysCalls \in 0 .. MaxSysCalls
    /\ AnsweredOnce
    /\ SysCallsTypeOK
    /\ ClassesAccounted
    /\ UnknownAccounted
    /\ LoggedTextInUserSpace

-----------------------------------------------------------------------------

\* From s to q exactly the counters C have grown, each by one.
Grows(s, q, C) ==
    /\ q \in SysState
    /\ \A c \in Counters : q[c] = s[c] + (IF c \in C THEN 1 ELSE 0)

\* The counters that may grow together in a call that is answered with status:
\* a packet is recorded in one class, with one platform at most, and only if it
\* is answered; an unknown one is counted, with one platform at most.
Together(C, status) ==
    /\ "PacketFailures" \in C <=> status = "BadPacket"
    /\ "Unknown" \in C <=> status = "Unknown"
    /\ "Routed" \notin C
    /\ "Total" \in C => status \in {"Ok", "Unknown"}
    /\ \/ "Total" \notin C /\ C \cap Kinds = {}
       \/ "Total" \in C /\ \E kind \in Kinds : C \cap Kinds = {kind}
    /\ "Linux" \in C \/ "Ms" \in C => "Total" \in C
    /\ ~("Linux" \in C /\ "Ms" \in C)
    /\ "UnknownLinux" \in C \/ "UnknownMs" \in C => "Unknown" \in C
    /\ ~("UnknownLinux" \in C /\ "UnknownMs" \in C)

\* What a call with result r did to the counters s.
Accounted(s, r) ==
    /\ r.status \in CallStatuses
    /\ \E C \in SUBSET Counters : Grows(s, r.state, C) /\ Together(C, r.status)

\* A write is answered Ok only if its text needed no check or passed it.
Checked(r, p) == r.status = "Ok" => ValidateArguments(p)

\* Counting makes one counter grow.
LEMMA CountGrows ==
    ASSUME NEW s \in SysState, NEW c \in Counters
    PROVE  Grows(s, Count(s, c), {c})
BY DEF SysState, Count, Grows

\* Counters that grow one after the other have grown together.
LEMMA GrowsTwice ==
    ASSUME NEW s \in SysState, NEW q, NEW r, NEW C, NEW D, C \cap D = {},
           Grows(s, q, C), Grows(q, r, D)
    PROVE  Grows(s, r, C \cup D)
<1> SUFFICES ASSUME NEW c \in Counters
             PROVE  r[c] = s[c] + (IF c \in C \cup D THEN 1 ELSE 0)
  BY DEF Grows
<1>1. /\ s[c] \in Nat
      /\ q[c] = s[c] + (IF c \in C THEN 1 ELSE 0)
      /\ r[c] = q[c] + (IF c \in D THEN 1 ELSE 0)
  BY DEF Grows, SysState
<1> QED
  BY <1>1

\* CountPlatform makes one of its counters grow at most.
LEMMA CountPlatformGrows ==
    ASSUME NEW s \in SysState, NEW p, NEW linux \in Counters, NEW ms \in Counters
    PROVE  \E P \in {{}, {linux}, {ms}} : Grows(s, CountPlatform(s, p, linux, ms), P)
<1>1. Grows(s, s, {})
  BY DEF Grows, SysState
<1> QED
  BY <1>1, CountGrows DEF CountPlatform

\* RecordPacket: the class, the total and one platform at most.
LEMMA RecordPacketGrows ==
    ASSUME NEW kind \in Kinds, NEW s \in SysState, NEW p
    PROVE  \E P \in {{}, {"Linux"}, {"Ms"}} :
              Grows(s, RecordPacket(s, kind, p), {kind, "Total"} \cup P)
<1> DEFINE a == Count(s, kind)
           b == Count(a, "Total")
           q == CountPlatform(b, p, "Linux", "Ms")
<1>1. Grows(s, a, {kind}) /\ a \in SysState
  BY CountGrows DEF Kinds, Counters, Grows
<1> HIDE DEF a
<1>2. Grows(a, b, {"Total"}) /\ b \in SysState
  BY <1>1, CountGrows DEF Counters, Grows
<1> HIDE DEF b
<1>3. PICK P \in {{}, {"Linux"}, {"Ms"}} : Grows(b, q, P)
  <2>1. "Linux" \in Counters /\ "Ms" \in Counters
    BY DEF Counters
  <2> QED
    BY <1>2, <2>1, CountPlatformGrows
<1> HIDE DEF q
<1>4. Grows(s, b, {kind} \cup {"Total"})
  BY <1>1, <1>2, GrowsTwice DEF Kinds
<1>5. ({kind} \cup {"Total"}) \cap P = {}
  BY DEF Kinds
<1>6. Grows(s, q, ({kind} \cup {"Total"}) \cup P)
  BY <1>3, <1>4, <1>5, GrowsTwice
<1>7. ({kind} \cup {"Total"}) \cup P = {kind, "Total"} \cup P
  OBVIOUS
<1>8. q = RecordPacket(s, kind, p)
  BY DEF RecordPacket, q, b, a
<1> QED
  BY <1>3, <1>6, <1>7, <1>8

\* A result whose counters grew together in the right way is accounted for.
LEMMA GrownAccounted ==
    ASSUME NEW s, NEW q, NEW status \in CallStatuses, NEW r, r = [state |-> q, status |-> status],
           NEW C \in SUBSET Counters, Grows(s, q, C), Together(C, status)
    PROVE  Accounted(s, r)
BY DEF Accounted

\* The branches of a class account for a recorded packet.
LEMMA AnswerAccounted ==
    ASSUME NEW kind \in Kinds, NEW s \in SysState, NEW p
    PROVE  Accounted(s, Answer(kind, RecordPacket(s, kind, p), p))
<1> DEFINE q == RecordPacket(s, kind, p)
           r == Answer(kind, q, p)
<1>1. PICK P \in {{}, {"Linux"}, {"Ms"}} : Grows(s, q, {kind, "Total"} \cup P)
  BY RecordPacketGrows
<1> DEFINE A == {kind, "Total"} \cup P
<1>2. q \in SysState /\ Grows(s, q, A)
  BY <1>1 DEF Grows
<1>3. A \in SUBSET Counters /\ "Unknown" \in Counters
  BY DEF Kinds, Counters
<1> SUFFICES Accounted(s, r)
  OBVIOUS
<1> HIDE DEF q
<1>4. CASE r = [state |-> q, status |-> "Ok"]
  <2>1. Together(A, "Ok")
    BY DEF Together, Kinds
  <2> QED
    BY <1>2, <1>3, <1>4, <2>1, GrownAccounted DEF CallStatuses
<1>5. CASE r = [state |-> PrintUnknown(q), status |-> "Unknown"]
  <2>1. Grows(q, PrintUnknown(q), {"Unknown"})
    BY <1>2, <1>3, CountGrows DEF PrintUnknown
  <2>2. Grows(s, PrintUnknown(q), A \cup {"Unknown"})
    BY <1>2, <2>1, GrowsTwice DEF Kinds
  <2>3. Together(A \cup {"Unknown"}, "Unknown")
    BY DEF Together, Kinds
  <2> QED
    BY <1>3, <1>5, <2>2, <2>3, GrownAccounted DEF CallStatuses
<1>6. CASE r = [state |-> NoteUnknownPlatform(q, p), status |-> "Unknown"]
  <2> DEFINE u == Count(q, "Unknown")
             v == NoteUnknownPlatform(q, p)
  <2>1. Grows(q, u, {"Unknown"}) /\ u \in SysState
    BY <1>2, <1>3, CountGrows DEF Grows
  <2>2. Grows(s, u, A \cup {"Unknown"})
    BY <1>2, <2>1, GrowsTwice DEF Kinds
  <2>3. "UnknownLinux" \in Counters /\ "UnknownMs" \in Counters
    BY DEF Counters
  <2>4. PICK U \in {{}, {"UnknownLinux"}, {"UnknownMs"}} : Grows(u, v, U)
    BY <2>1, <2>3, CountPlatformGrows DEF NoteUnknownPlatform
  <2>5. (A \cup {"Unknown"}) \cap U = {}
    BY DEF Kinds
  <2> HIDE DEF u, v
  <2>6. Grows(s, v, (A \cup {"Unknown"}) \cup U)
    BY <2>2, <2>4, <2>5, GrowsTwice
  <2>7. Together((A \cup {"Unknown"}) \cup U, "Unknown")
    BY DEF Together, Kinds
  <2>8. r = [state |-> v, status |-> "Unknown"] /\ (A \cup {"Unknown"}) \cup U \in SUBSET Counters
    BY <1>3, <1>6, <2>3 DEF v
  <2> QED
    BY <2>6, <2>7, <2>8, GrownAccounted DEF CallStatuses
<1>7. \/ r = [state |-> q, status |-> "Ok"]
      \/ r = [state |-> PrintUnknown(q), status |-> "Unknown"]
      \/ r = [state |-> NoteUnknownPlatform(q, p), status |-> "Unknown"]
  BY DEF Answer
<1> QED
  BY <1>4, <1>5, <1>6, <1>7

\* A packet that is turned away, or of no class, is counted once.
LEMMA OneCounterAccounted ==
    ASSUME NEW s \in SysState, NEW r,
           \/ r = [state |-> Count(s, "PacketFailures"), status |-> "BadPacket"]
           \/ r = [state |-> Count(s, "PointerFailures"), status |-> "BadPointer"]
           \/ r = [state |-> PrintUnknown(s), status |-> "Unknown"]
    PROVE  Accounted(s, r) /\ r.status # "Ok"
<1>1. /\ Together({"PacketFailures"}, "BadPacket")
      /\ Together({"PointerFailures"}, "BadPointer")
      /\ Together({"Unknown"}, "Unknown")
  BY DEF Together, Kinds
<1>2. {"PacketFailures", "PointerFailures", "Unknown"} \subseteq Counters
  BY DEF Counters
<1>3. \A c \in {"PacketFailures", "PointerFailures", "Unknown"} : Grows(s, Count(s, c), {c})
  BY <1>2, CountGrows
<1> QED
  BY <1>1, <1>2, <1>3, GrownAccounted DEF CallStatuses, PrintUnknown

\* SysCallGet, SysCallSet and SysCallEvent account for the packet.
LEMMA ClassCallAccounted ==
    ASSUME NEW kind \in Kinds, NEW s \in SysState, NEW p
    PROVE  Accounted(s, ClassCall(kind, s, p)) /\ Checked(ClassCall(kind, s, p), p)
<1>1. CASE ValidatePacket(p) /\ ValidateArguments(p)
  BY <1>1, AnswerAccounted DEF ClassCall, Checked
<1>2. CASE ~ValidatePacket(p) \/ ~ValidateArguments(p)
  BY <1>2, OneCounterAccounted DEF ClassCall, Checked
<1> QED
  BY <1>1, <1>2

\* OrynSysCallDispatch accounts for the packet, of whichever kind it is.
LEMMA DispatchAccounted ==
    ASSUME NEW s \in SysState, NEW p
    PROVE  Accounted(s, Dispatch(s, p)) /\ Checked(Dispatch(s, p), p)
<1>1. CASE ValidatePacket(p) /\ p.kind \in Kinds
  BY <1>1, ClassCallAccounted DEF Dispatch
<1>2. CASE ~ValidatePacket(p) \/ p.kind \notin Kinds
  BY <1>2, OneCounterAccounted DEF Dispatch, Checked
<1> QED
  BY <1>1, <1>2

\* A pointer that passed the test names a range inside user space: the sum of
\* its address and size did not wrap.
LEMMA ValidPointerInUserSpace ==
    ASSUME SysCallsConstants, NEW address \in 0 .. Words - 1, NEW size \in 0 .. Words - 1,
           ValidateUserPointer(address, size)
    PROVE  address >= UserLow /\ address + size - 1 <= UserHigh
<1> DEFINE sum == address + size - 1
<1>1. size > 0 /\ sum \in Nat /\ sum < Words + Words /\ sum >= address
  BY DEF ValidateUserPointer, SysCallsConstants
<1>2. sum % Words >= address /\ sum % Words <= UserHigh /\ address >= UserLow
  BY DEF ValidateUserPointer
<1>3. CASE sum < Words
  <2>1. sum % Words = sum
    BY <1>1, <1>3 DEF SysCallsConstants
  <2> QED
    BY <1>2, <2>1
<1>4. CASE sum >= Words
  <2>1. sum % Words = sum - Words
    BY <1>1, <1>4 DEF SysCallsConstants
  <2>2. sum - Words < address
    BY DEF SysCallsConstants
  <2> QED
    BY <1>2, <2>1, <2>2 DEF SysCallsConstants
<1> QED
  BY <1>1, <1>3, <1>4 DEF SysCallsConstants

-----------------------------------------------------------------------------

\* OrynSysCallInit accounts for nothing.
LEMMA SysCallsInitIInv ==
    ASSUME SysCallsConstants, SysCallsInit
    PROVE  SysCallsIInv
<1>1. /\ sys \in SysState /\ \A c \in Counters : sys[c] = 0
      /\ answers \in [CallStatuses -> Nat] /\ \A x \in CallStatuses : answers[x] = 0
      /\ logged = {} /\ sysCalls = 0 /\ MaxSysCalls \in Nat
  BY DEF SysCallsConstants, SysCallsInit, SysState, CallStatuses
<1>2. AnsweredOnce /\ SysCallsTypeOK
  BY <1>1 DEF AnsweredOnce, SysCallsTypeOK, CallStatuses, Counters
<1>3. ClassesAccounted /\ UnknownAccounted
  BY <1>1 DEF ClassesAccounted, UnknownAccounted, CallStatuses, Counters
<1> QED
  BY <1>1, <1>2, <1>3 DEF SysCallsIInv, LoggedTextInUserSpace

\* A call that is accounted for, from counters s that differ from the present
\* ones in Routed at most, keeps the invariant.
LEMMA TookIInv ==
    ASSUME SysCallsConstants, SysCallsIInv, sysCalls < MaxSysCalls,
           NEW s \in SysState, s = sys \/ s = Count(sys, "Routed"),
           NEW r, NEW p, Accounted(s, r), Checked(r, p), Took(r, p),
           p.op = "write" => p.arg0 \in 0 .. Words - 1 /\ p.arg1 \in 0 .. Words - 1
    PROVE  SysCallsIInv'
<1>1. PICK C \in SUBSET Counters : Grows(s, r.state, C) /\ Together(C, r.status)
  BY DEF Accounted
<1> DEFINE status == r.status
           In(c) == IF c \in C THEN 1 ELSE 0
           Once(x) == IF status = x THEN 1 ELSE 0
<1>2. /\ status \in CallStatuses /\ sys \in SysState /\ answers \in [CallStatuses -> Nat]
      /\ sysCalls \in Nat /\ sys' \in SysState
      /\ sys' = r.state /\ sysCalls' = sysCalls + 1
      /\ answers' = [answers EXCEPT ![status] = @ + 1]
  BY <1>1 DEF Accounted, SysCallsIInv, Took, Grows
<1> HIDE DEF status
<1>3. /\ answers' \in [CallStatuses -> Nat]
      /\ \A x \in CallStatuses : answers[x] \in Nat /\ answers'[x] = answers[x] + Once(x)
  BY <1>2
<1>4. /\ s["Routed"] \in {sys["Routed"], sys["Routed"] + 1}
      /\ \A c \in Counters \ {"Routed"} : s[c] = sys[c]
  <2>1. "Routed" \in Counters
    BY DEF Counters
  <2> QED
    BY <1>2, <2>1 DEF Count, SysState
<1>5. \A c \in Counters \ {"Routed"} : sys[c] \in Nat /\ sys'[c] = sys[c] + In(c)
  BY <1>1, <1>2, <1>4 DEF Grows, SysState
<1>6. sys'["Routed"] = s["Routed"] /\ sys["Routed"] \in Nat
  <2>1. "Routed" \in Counters
    BY DEF Counters
  <2> QED
    BY <1>1, <1>2, <2>1 DEF Grows, Together, SysState
<1>7. AnsweredOnce' /\ sysCalls' \in 0 .. MaxSysCalls
  BY <1>2, <1>3 DEF AnsweredOnce, SysCallsIInv, CallStatuses, SysCallsConstants
<1>8. SysCallsTypeOK'
  <2>1. \A x \in CallStatuses : answers'[x] \in 0 .. MaxSysCalls
    BY <1>3, <1>7 DEF AnsweredOnce, CallStatuses, SysCallsConstants
  <2>2. sys'["Routed"] <= sysCalls'
    BY <1>2, <1>4, <1>6 DEF SysCallsIInv, SysCallsTypeOK
  <2>3. sys'["PacketFailures"] = answers'["BadPacket"]
    <3>1. sys'["PacketFailures"] = sys["PacketFailures"] + In("PacketFailures")
      BY <1>5 DEF Counters
    <3>2. answers'["BadPacket"] = answers["BadPacket"] + Once("BadPacket")
      BY <1>3 DEF CallStatuses
    <3>3. In("PacketFailures") = Once("BadPacket")
      BY <1>1 DEF Together, status
    <3> QED
      BY <3>1, <3>2, <3>3 DEF SysCallsIInv, SysCallsTypeOK
  <2>4. DOMAIN answers' = CallStatuses
    BY <1>3
  <2> QED
    BY <2>1, <2>2, <2>3, <2>4 DEF SysCallsTypeOK
<1>9. ClassesAccounted'
  <2>1. /\ sys'["Total"] = sys["Total"] + In("Total") /\ sys["Total"] \in Nat
        /\ sys'["Get"] = sys["Get"] + In("Get") /\ sys["Get"] \in Nat
        /\ sys'["Set"] = sys["Set"] + In("Set") /\ sys["Set"] \in Nat
        /\ sys'["Event"] = sys["Event"] + In("Event") /\ sys["Event"] \in Nat
        /\ sys'["Linux"] = sys["Linux"] + In("Linux") /\ sys["Linux"] \in Nat
        /\ sys'["Ms"] = sys["Ms"] + In("Ms") /\ sys["Ms"] \in Nat
    BY <1>5 DEF Counters
  <2>2. In("Total") = In("Get") + In("Set") + In("Event")
    BY <1>1 DEF Together, Kinds
  <2>3. In("Linux") + In("Ms") <= In("Total")
    BY <1>1 DEF Together
  <2>4. In("Total") <= Once("Ok") + Once("Unknown")
    BY <1>1 DEF Together, status
  <2>5. /\ answers'["Ok"] = answers["Ok"] + Once("Ok") /\ answers["Ok"] \in Nat
        /\ answers'["Unknown"] = answers["Unknown"] + Once("Unknown") /\ answers["Unknown"] \in Nat
    BY <1>3 DEF CallStatuses
  <2>6. /\ sys["Total"] = sys["Get"] + sys["Set"] + sys["Event"]
        /\ sys["Linux"] + sys["Ms"] <= sys["Total"]
        /\ sys["Total"] <= answers["Ok"] + answers["Unknown"]
    BY DEF SysCallsIInv, ClassesAccounted
  <2> QED
    BY <2>1, <2>2, <2>3, <2>4, <2>5, <2>6 DEF ClassesAccounted
<1>10. UnknownAccounted'
  <2>1. /\ sys'["Unknown"] = sys["Unknown"] + In("Unknown") /\ sys["Unknown"] \in Nat
        /\ sys'["UnknownLinux"] = sys["UnknownLinux"] + In("UnknownLinux") /\ sys["UnknownLinux"] \in Nat
        /\ sys'["UnknownMs"] = sys["UnknownMs"] + In("UnknownMs") /\ sys["UnknownMs"] \in Nat
    BY <1>5 DEF Counters
  <2>2. answers'["Unknown"] = answers["Unknown"] + Once("Unknown")
    BY <1>3 DEF CallStatuses
  <2>3. In("Unknown") = Once("Unknown") /\ In("UnknownLinux") + In("UnknownMs") <= In("Unknown")
    BY <1>1 DEF Together, status
  <2>4. sys["Unknown"] = answers["Unknown"] /\ sys["UnknownLinux"] + sys["UnknownMs"] <= sys["Unknown"]
    BY DEF SysCallsIInv, UnknownAccounted
  <2> QED
    BY <2>1, <2>2, <2>3, <2>4 DEF UnknownAccounted
<1>11. LoggedTextInUserSpace'
  <2>1. CASE r.status = "Ok" /\ p.op = "write" /\ p.text = 0 /\ p.arg1 # 0
    <3>1. p.arg1 >= UserLow /\ p.arg1 + p.arg0 - 1 <= UserHigh
      BY <2>1, ValidPointerInUserSpace DEF Checked, ValidateArguments
    <3>2. logged' = logged \cup {<<p.arg1, p.arg0>>}
      BY <2>1 DEF Took
    <3> QED
      BY <3>1, <3>2 DEF SysCallsIInv, LoggedTextInUserSpace
  <2>2. CASE ~(r.status = "Ok" /\ p.op = "write" /\ p.text = 0 /\ p.arg1 # 0)
    BY <2>2 DEF Took, SysCallsIInv, LoggedTextInUserSpace
  <2> QED
    BY <2>1, <2>2
<1> QED
  BY <1>2, <1>3, <1>7, <1>8, <1>9, <1>10, <1>11 DEF SysCallsIInv

\* Packets from the Linux and MS vectors.
LEMMA SysCallInterruptIInv ==
    ASSUME SysCallsConstants, SysCallsIInv, sysCalls < MaxSysCalls, SysCallInterrupt
    PROVE  SysCallsIInv'
<1>1. PICK platform \in {"linux", "ms"}, number \in {"write", "id", "exit", "other"} :
        \E arg0, arg1 \in Arguments(number) :
          LET p == Translate(platform, number, arg0, arg1) IN Took(Dispatch(sys, p), p)
  BY DEF SysCallInterrupt
<1>2. PICK arg0 \in Arguments(number), arg1 \in Arguments(number) :
          LET p == Translate(platform, number, arg0, arg1) IN Took(Dispatch(sys, p), p)
  BY <1>1
<1> DEFINE p == Translate(platform, number, arg0, arg1)
<1>3. arg0 \in 0 .. Words - 1 /\ arg1 \in 0 .. Words - 1
  BY DEF Arguments, SysCallsConstants
<1>4. p.arg0 = arg0 /\ p.arg1 = arg1
  BY DEF Translate, PreparePacket, Packet
<1> HIDE DEF p
<1>5. sys \in SysState
  BY DEF SysCallsIInv
<1>6. Took(Dispatch(sys, p), p)
  BY <1>2 DEF p
<1> QED
  BY <1>3, <1>4, <1>5, <1>6, DispatchAccounted, TookIInv

\* Requests that came through the routing function.
LEMMA RoutedRequestIInv ==
    ASSUME SysCallsConstants, SysCallsIInv, sysCalls < MaxSysCalls, RoutedRequest
    PROVE  SysCallsIInv'
<1>1. PICK platform \in Platforms, number \in {"version", "level", "other"}, arg0 \in 0 .. 1 :
        LET p == RouteUserRequest(platform, number, arg0, 0)
            r == Dispatch(Count(sys, "Routed"), p)
        IN  Took(r, p)
  BY DEF RoutedRequest
<1> DEFINE p == RouteUserRequest(platform, number, arg0, 0)
           s == Count(sys, "Routed")
<1>2. p.op # "write"
  BY DEF RouteUserRequest, PreparePacket, Packet
<1>3. s \in SysState
  BY CountGrows DEF SysCallsIInv, Counters, Grows
<1>4. Took(Dispatch(s, p), p)
  BY <1>1
<1>5. s = Count(sys, "Routed")
  OBVIOUS
<1> HIDE DEF p, s
<1> QED
  BY <1>2, <1>3, <1>4, <1>5, DispatchAccounted, TookIInv

\* Packets that kernel code filled in itself.
LEMMA InternalPacketIInv ==
    ASSUME SysCallsConstants, SysCallsIInv, sysCalls < MaxSysCalls, InternalPacket
    PROVE  SysCallsIInv'
<1>1. PICK kind \in Kinds \cup {"Other"}, op \in {"version", "level", "write", "ping"},
           damage \in {"none", "magic", "version", "size"}, class \in Kinds \cup {"dispatch"} :
        \E arg0, arg1 \in Arguments(op) :
          LET p == Packet(damage # "magic", damage # "version", damage # "size", "internal",
                          kind, op, arg0, arg1, 0)
          IN  Took(IF class = "dispatch" THEN Dispatch(sys, p) ELSE ClassCall(class, sys, p), p)
  BY DEF InternalPacket
<1>2. PICK arg0 \in Arguments(op), arg1 \in Arguments(op) :
          LET p == Packet(damage # "magic", damage # "version", damage # "size", "internal",
                          kind, op, arg0, arg1, 0)
          IN  Took(IF class = "dispatch" THEN Dispatch(sys, p) ELSE ClassCall(class, sys, p), p)
  BY <1>1
<1> DEFINE p == Packet(damage # "magic", damage # "version", damage # "size", "internal",
                       kind, op, arg0, arg1, 0)
<1>3. arg0 \in 0 .. Words - 1 /\ arg1 \in 0 .. Words - 1
  BY DEF Arguments, SysCallsConstants
<1>4. p.arg0 = arg0 /\ p.arg1 = arg1
  BY DEF Packet
<1>5. Took(IF class = "dispatch" THEN Dispatch(sys, p) ELSE ClassCall(class, sys, p), p)
  BY <1>2
<1> HIDE DEF p
<1>6. sys \in SysState
  BY DEF SysCallsIInv
<1>7. CASE class = "dispatch"
  BY <1>3, <1>4, <1>5, <1>6, <1>7, DispatchAccounted, TookIInv
<1>8. CASE class \in Kinds
  <2>1. Took(ClassCall(class, sys, p), p)
    BY <1>5, <1>8 DEF Kinds
  <2> QED
    BY <1>3, <1>4, <1>6, <1>8, <2>1, ClassCallAccounted, TookIInv
<1> QED
  BY <1>7, <1>8

\* Every packet is answered once and counted in one place, whichever way it came,
\* and a text is logged from a pointer only inside user space (SysCall.c,
\* SysCallPolicy.c), for every word size, user range and number of calls.
THEOREM CallsAccounted ==
    ASSUME SysCallsConstants
    PROVE  SysCallsSpec => []SysCallsSound
<1>1. SysCallsInit => SysCallsIInv
  BY SysCallsInitIInv
<1>2. SysCallsIInv /\ [SysCallsNext]_sysVars => SysCallsIInv'
  <2> SUFFICES ASSUME SysCallsIInv, [SysCallsNext]_sysVars PROVE SysCallsIInv'
    OBVIOUS
  <2>1. CASE SysCallsNext
    BY <2>1, SysCallInterruptIInv, RoutedRequestIInv, InternalPacketIInv DEF SysCallsNext
  <2>2. CASE UNCHANGED sysVars
    BY <2>2 DEF sysVars, SysCallsIInv, AnsweredOnce, SysCallsTypeOK, ClassesAccounted, UnknownAccounted,
             LoggedTextInUserSpace
  <2> QED
    BY <2>1, <2>2
<1>3. SysCallsIInv => SysCallsSound
  BY DEF SysCallsIInv, SysCallsSound
<1> QED
  BY <1>1, <1>2, <1>3, PTL DEF SysCallsSpec

-----------------------------------------------------------------------------
(* The console: what its operations do to a console.                       *)

Line == [Columns -> Cell]

LEMMA Shapes ==
    ASSUME ConsoleConstants
    PROVE  /\ ShownRows \in Nat /\ ShownRows >= 1 /\ ShownRows <= ScrollbackRows
           /\ ShownColumns \in Nat /\ ShownColumns >= 1
           /\ ScrollbackRows \in Nat
BY DEF ConsoleConstants, ShownRows, ShownColumns, Geometry

LEMMA ConsoleFields ==
    ASSUME NEW c \in ConsoleState
    PROVE  /\ c.cells \in [0..(ScrollbackRows - 1) -> Line] /\ c.line \in 0..(ScrollbackRows - 1)
           /\ c.column \in 0..ShownColumns /\ c.total \in 1..ScrollbackRows /\ c.top \in Nat
           /\ c.follows \in BOOLEAN /\ c.suppressed \in BOOLEAN
           /\ c.back \in [Rows -> Line] /\ c.front \in [Rows -> Line]
           /\ c.dirty \in [active : BOOLEAN, row : Rows, min : Columns, max : Columns]
           /\ c.dirty.active \in BOOLEAN /\ c.dirty.row \in Rows
           /\ c.dirty.min \in Columns /\ c.dirty.max \in Columns
BY DEF ConsoleState, Line

\* The text, the view and the mode of two consoles are the same.
SameText(c, d) ==
    /\ c.cells = d.cells /\ c.line = d.line /\ c.column = d.column /\ c.total = d.total
    /\ c.top = d.top /\ c.follows = d.follows /\ c.suppressed = d.suppressed

\* The screen is the back buffer except at the place that is left out.
FrontBut(c, row, col) ==
    \A r \in Rows, k \in Columns :
        <<r, k>> # <<row, col>> =>
            \/ c.front[r][k] = c.back[r][k]
            \/ /\ c.dirty.active /\ c.dirty.row = r
               /\ c.dirty.min <= k /\ k <= c.dirty.max

FrontAgrees(c) ==
    \A r \in Rows, k \in Columns :
        \/ c.front[r][k] = c.back[r][k]
        \/ /\ c.dirty.active /\ c.dirty.row = r
           /\ c.dirty.min <= k /\ k <= c.dirty.max

LEMMA ViewType ==
    ASSUME ConsoleConstants, NEW c \in ConsoleState
    PROVE  View(c) \in [Rows -> Line]
<1>1. ASSUME NEW r \in Rows PROVE View(c)[r] \in Line
  <2>1. Blank \in Line
    BY DEF Blank, Line, Cell
  <2>2. r \in Nat /\ c.top \in Nat /\ c.cells \in [0..(ScrollbackRows - 1) -> Line]
    BY Shapes, ConsoleFields DEF Rows
  <2>3. c.top + r < ScrollbackRows => c.top + r \in 0..(ScrollbackRows - 1)
    BY <2>2, Shapes
  <2> QED BY <2>1, <2>2, <2>3 DEF View
<1> QED BY <1>1 DEF View

LEMMA CleanType ==
    ASSUME ConsoleConstants
    PROVE  Clean \in [active : BOOLEAN, row : Rows, min : Columns, max : Columns] /\ Clean.active = FALSE
<1>1. 0 \in Rows /\ 0 \in Columns
  BY Shapes DEF Rows, Columns
<1> QED BY <1>1 DEF Clean

\* Drawing anew: whatever is presented is all of the back buffer.
LEMMA PresentedAll ==
    ASSUME ConsoleConstants, NEW c \in ConsoleState, NEW back \in [Rows -> Line],
           NEW d, d = Present([c EXCEPT !.back = back, !.dirty = Clean])
    PROVE  /\ d \in ConsoleState /\ SameText(d, c) /\ d.back = back
           /\ ~c.suppressed => FrontAgrees(d)
<1> DEFINE e == [c EXCEPT !.back = back, !.dirty = Clean]
<1>1. e \in ConsoleState /\ SameText(e, c) /\ e.back = back /\ e.dirty = Clean /\ e.front = c.front
  BY CleanType DEF ConsoleState, SameText, Line
<1> HIDE DEF e
<1>2. CASE c.suppressed
  <2>1. d = e
    BY <1>1, <1>2 DEF e, Present, SameText
  <2> QED BY <1>1, <1>2, <2>1
<1>3. CASE ~c.suppressed
  <2>1. d = [e EXCEPT !.front = e.back]
    BY <1>1, <1>3 DEF e, Present, SameText
  <2>2. d \in ConsoleState /\ SameText(d, e) /\ d.back = back /\ d.front = back
    BY <1>1, <2>1 DEF ConsoleState, SameText, Line
  <2> QED BY <1>1, <2>2 DEF SameText, FrontAgrees
<1>4. c.suppressed \in BOOLEAN
  BY ConsoleFields
<1> QED BY <1>2, <1>3

LEMMA Rendered ==
    ASSUME ConsoleConstants, NEW c \in ConsoleState
    PROVE  /\ RenderVisible(c) \in ConsoleState /\ SameText(RenderVisible(c), c)
           /\ RenderVisible(c).back = View(c)
           /\ ~c.suppressed => FrontAgrees(RenderVisible(c))
BY ViewType, PresentedAll DEF RenderVisible

LEMMA TailScrolled ==
    ASSUME ConsoleConstants, NEW c \in ConsoleState
    PROVE  /\ FastTailScrollPresent(c) \in ConsoleState /\ SameText(FastTailScrollPresent(c), c)
           /\ \A r \in Rows : FastTailScrollPresent(c).back[r] =
                  IF r < ShownRows - 1 THEN c.back[r + 1] ELSE View(c)[r]
           /\ ~c.suppressed => FrontAgrees(FastTailScrollPresent(c))
<1> DEFINE back == [r \in Rows |-> IF r < ShownRows - 1 THEN c.back[r + 1] ELSE View(c)[r]]
<1>1. ASSUME NEW r \in Rows PROVE back[r] \in Line
  <2>1. r < ShownRows - 1 => r + 1 \in Rows
    BY Shapes DEF Rows
  <2>2. c.back \in [Rows -> Line]
    BY ConsoleFields
  <2> QED BY <2>1, <2>2, ViewType
<1>2. back \in [Rows -> Line]
  BY <1>1
<1>3. FastTailScrollPresent(c) = Present([c EXCEPT !.back = back, !.dirty = Clean])
  BY DEF FastTailScrollPresent
<1>4. \A r \in Rows : back[r] = IF r < ShownRows - 1 THEN c.back[r + 1] ELSE View(c)[r]
  OBVIOUS
<1> HIDE DEF back
<1> QED BY <1>2, <1>3, <1>4, PresentedAll

\* A line is presented: what was dirty is shown.
LEMMA LinePresented ==
    ASSUME ConsoleConstants, NEW c \in ConsoleState
    PROVE  LET d == PresentDirtyLine(c) IN
           /\ d \in ConsoleState /\ SameText(d, c) /\ d.back = c.back /\ ~d.dirty.active
           /\ \A row \in Rows, col \in Columns : ~c.suppressed /\ FrontBut(c, row, col) => FrontBut(d, row, col)
           /\ ~c.suppressed /\ FrontAgrees(c) => FrontAgrees(d)
<1> DEFINE d == PresentDirtyLine(c)
           row == c.dirty.row
           new == [k \in Columns |-> IF c.dirty.min <= k /\ k <= c.dirty.max THEN c.back[row][k] ELSE c.front[row][k]]
<1>1. /\ row \in Rows /\ c.front \in [Rows -> Line] /\ c.back \in [Rows -> Line]
      /\ c.suppressed \in BOOLEAN /\ c.dirty.active \in BOOLEAN
  BY ConsoleFields
<1>2. new \in Line
  BY <1>1 DEF Line
<1>3. CASE ~c.dirty.active
  BY <1>3 DEF PresentDirtyLine, SameText
<1>4. CASE c.dirty.active /\ c.suppressed
  <2>1. d = [c EXCEPT !.dirty = Clean]
    BY <1>4 DEF PresentDirtyLine
  <2>2. d \in ConsoleState /\ SameText(d, c) /\ d.back = c.back /\ d.dirty = Clean
    BY <2>1, CleanType DEF ConsoleState, SameText
  <2> QED BY <1>4, <2>2, CleanType
<1>5. CASE c.dirty.active /\ ~c.suppressed
  <2>1. d = [c EXCEPT !.front = [c.front EXCEPT ![row] = new], !.dirty = Clean]
    BY <1>1, <1>5 DEF PresentDirtyLine, ConsoleState
  <2>2. [c.front EXCEPT ![row] = new] \in [Rows -> Line]
    BY <1>1, <1>2
  <2> DEFINE front == [c.front EXCEPT ![row] = new]
  <2>3. \A r \in Rows, k \in Columns :
            front[r][k] = IF r = row /\ c.dirty.min <= k /\ k <= c.dirty.max THEN c.back[r][k] ELSE c.front[r][k]
    BY <1>1
  <2> HIDE DEF front, new
  <2>4. d \in ConsoleState /\ SameText(d, c) /\ d.back = c.back /\ d.dirty = Clean /\ d.front = front
    BY <2>1, <2>2, CleanType DEF ConsoleState, SameText, Line, front
  <2>5. ASSUME NEW ro \in Rows, NEW col \in Columns, FrontBut(c, ro, col) PROVE FrontBut(d, ro, col)
    BY <2>3, <2>4, <2>5 DEF FrontBut
  <2>6. ASSUME FrontAgrees(c) PROVE FrontAgrees(d)
    BY <2>3, <2>4, <2>6 DEF FrontAgrees
  <2> QED BY <2>4, <2>5, <2>6, CleanType
<1> QED BY <1>1, <1>3, <1>4, <1>5

LEMMA CellMarked ==
    ASSUME ConsoleConstants, NEW c \in ConsoleState, NEW row \in Rows, NEW col \in Columns
    PROVE  LET d == MarkDirtyCell(c, row, col) IN
           /\ d \in ConsoleState /\ SameText(d, c) /\ d.back = c.back
           /\ ~c.suppressed /\ FrontBut(c, row, col) => FrontAgrees(d)
<1> DEFINE d == IF c.dirty.active /\ c.dirty.row # row THEN PresentDirtyLine(c) ELSE c
           low == IF d.dirty.active THEN (IF d.dirty.min < col THEN d.dirty.min ELSE col) ELSE col
           high == IF d.dirty.active THEN (IF d.dirty.max > col THEN d.dirty.max ELSE col) ELSE col
           dirty == [active |-> TRUE, row |-> row, min |-> low, max |-> high]
           e == [d EXCEPT !.dirty = dirty]
<1>1. /\ d \in ConsoleState /\ SameText(d, c) /\ d.back = c.back
      /\ d.dirty.active => d.dirty.row = row
      /\ ~c.suppressed /\ FrontBut(c, row, col) => FrontBut(d, row, col)
  BY LinePresented DEF SameText
<1>2. MarkDirtyCell(c, row, col) = e
  BY DEF MarkDirtyCell
<1> HIDE DEF d
<1>3. d.dirty.min \in Columns /\ d.dirty.max \in Columns /\ d.dirty.active \in BOOLEAN
  BY <1>1, ConsoleFields
<1>4. low \in Columns /\ high \in Columns /\ low <= col /\ col <= high
      /\ (d.dirty.active => low <= d.dirty.min /\ d.dirty.max <= high)
  BY <1>3, Shapes DEF Columns
<1> HIDE DEF low, high
<1>5. e \in ConsoleState /\ SameText(e, d) /\ e.back = d.back /\ e.front = d.front /\ e.dirty = dirty
  BY <1>1, <1>4 DEF ConsoleState, SameText
<1> HIDE DEF e
<1>6. ASSUME FrontBut(d, row, col) PROVE FrontAgrees(e)
  <2> SUFFICES ASSUME NEW r \in Rows, NEW k \in Columns
               PROVE  \/ e.front[r][k] = e.back[r][k]
                      \/ e.dirty.active /\ e.dirty.row = r /\ e.dirty.min <= k /\ k <= e.dirty.max
    BY DEF FrontAgrees
  <2>1. CASE r = row /\ k = col
    BY <1>4, <1>5, <2>1
  <2>2. CASE <<r, k>> # <<row, col>>
    <3>1. \/ d.front[r][k] = d.back[r][k]
          \/ d.dirty.active /\ d.dirty.row = r /\ d.dirty.min <= k /\ k <= d.dirty.max
      BY <1>6, <2>2 DEF FrontBut
    <3>2. k \in Nat /\ low \in Nat /\ high \in Nat /\ d.dirty.min \in Nat /\ d.dirty.max \in Nat
      BY <1>3, <1>4, Shapes DEF Columns
    <3> QED BY <1>1, <1>4, <1>5, <3>1, <3>2
  <2> QED BY <2>1, <2>2
<1> QED BY <1>1, <1>2, <1>5, <1>6 DEF SameText

\* A character is stored where the cursor is and drawn if that is in view.
InView(c) == c.top <= c.line /\ c.line < c.top + ShownRows

LEMMA CharacterStored ==
    ASSUME ConsoleConstants, NEW c \in ConsoleState, NEW ch \in Chars, c.column < ShownColumns
    PROVE  LET e == StorePrintable(c, ch) IN
           /\ e \in ConsoleState
           /\ e.line = c.line /\ e.total = c.total /\ e.top = c.top /\ e.follows = c.follows
           /\ e.suppressed = c.suppressed /\ e.column = c.column + 1
           /\ e.cells = [c.cells EXCEPT ![c.line] = [c.cells[c.line] EXCEPT ![c.column] = ch]]
           /\ InView(c) => e.back = [c.back EXCEPT ![c.line - c.top] = [c.back[c.line - c.top] EXCEPT ![c.column] = ch]]
           /\ ~InView(c) => e.back = c.back
           /\ ~c.suppressed /\ FrontAgrees(c) => FrontAgrees(e)
<1> DEFINE cells == [c.cells EXCEPT ![c.line] = [c.cells[c.line] EXCEPT ![c.column] = ch]]
           row == c.line - c.top
           col == c.column
           stored == [c EXCEPT !.cells = cells]
           back == [c.back EXCEPT ![row] = [c.back[row] EXCEPT ![col] = ch]]
           drawn == [stored EXCEPT !.back = back]
           seen == IF InView(c) THEN MarkDirtyCell(drawn, row, col) ELSE stored
<1>0. /\ c.line \in 0..(ScrollbackRows - 1) /\ c.column \in Columns /\ c.top \in Nat /\ ch \in Cell
      /\ c.cells \in [0..(ScrollbackRows - 1) -> Line] /\ c.back \in [Rows -> Line]
      /\ c.column + 1 \in 0..ShownColumns
  <2>1. c.line \in 0..(ScrollbackRows - 1) /\ c.column \in 0..ShownColumns /\ c.top \in Nat
        /\ c.cells \in [0..(ScrollbackRows - 1) -> Line] /\ c.back \in [Rows -> Line]
    BY ConsoleFields
  <2>2. ShownColumns \in Nat /\ c.column < ShownColumns
    BY Shapes
  <2>3. c.column \in Columns /\ c.column + 1 \in 0..ShownColumns
    BY <2>1, <2>2 DEF Columns
  <2> QED BY <2>1, <2>3 DEF Cell
<1>1. cells \in [0..(ScrollbackRows - 1) -> Line]
  BY <1>0 DEF Line
<1>2. stored = [c EXCEPT !.cells[c.line][c.column] = ch]
  BY <1>0 DEF ConsoleState
<1>3. InView(c) => row \in Rows
  BY <1>0, Shapes DEF InView, Rows
<1>4. InView(c) => back \in [Rows -> Line]
  BY <1>0, <1>3 DEF Line
<1>5. StorePrintable(c, ch) = [seen EXCEPT !.column = c.column + 1]
  <2>1. stored.back = c.back
    BY DEF ConsoleState
  <2>2. InView(c) => drawn = [stored EXCEPT !.back[row][c.column] = ch]
    BY <1>3, <2>1 DEF ConsoleState
  <2> HIDE DEF stored, drawn, row
  <2>3. CASE InView(c)
    BY <1>2, <2>2, <2>3 DEF StorePrintable, InView, row
  <2>4. CASE ~InView(c)
    BY <1>2, <2>4 DEF StorePrintable, InView
  <2> QED BY <2>3, <2>4
<1> HIDE DEF cells, back
<1>6. stored \in ConsoleState /\ stored.back = c.back /\ stored.front = c.front /\ stored.dirty = c.dirty
      /\ stored.line = c.line /\ stored.total = c.total /\ stored.top = c.top /\ stored.follows = c.follows
      /\ stored.suppressed = c.suppressed /\ stored.cells = cells
  BY <1>1 DEF ConsoleState, Line
<1>7. InView(c) => /\ drawn \in ConsoleState /\ drawn.back = back /\ drawn.front = c.front /\ drawn.dirty = c.dirty
                   /\ drawn.line = c.line /\ drawn.total = c.total /\ drawn.top = c.top /\ drawn.follows = c.follows
                   /\ drawn.suppressed = c.suppressed /\ drawn.cells = cells
  BY <1>1, <1>4 DEF ConsoleState, Line
<1> HIDE DEF stored, drawn
<1>8. ASSUME InView(c), FrontAgrees(c) PROVE FrontBut(drawn, row, col)
  <2>1. \A r \in Rows, k \in Columns : <<r, k>> # <<row, col>> => back[r][k] = c.back[r][k]
    BY <1>0, <1>3, <1>8 DEF back, Line
  <2> QED BY <1>7, <1>8, <2>1 DEF FrontAgrees, FrontBut
<1>9. /\ seen \in ConsoleState /\ seen.line = c.line /\ seen.total = c.total /\ seen.top = c.top
      /\ seen.follows = c.follows /\ seen.suppressed = c.suppressed /\ seen.cells = cells
      /\ InView(c) => seen.back = back
      /\ ~InView(c) => seen.back = c.back
      /\ ~c.suppressed /\ FrontAgrees(c) => FrontAgrees(seen)
  <2>1. CASE InView(c)
    <3>1. seen = MarkDirtyCell(drawn, row, col) /\ row \in Rows /\ col \in Columns
      BY <1>0, <1>3, <2>1
    <3> HIDE DEF seen, row, col
    <3> QED BY <1>7, <1>8, <2>1, <3>1, CellMarked DEF SameText
  <2>2. CASE ~InView(c)
    <3>1. FrontAgrees(c) => FrontAgrees(stored)
      BY <1>6 DEF FrontAgrees
    <3> QED BY <1>6, <2>2, <3>1
  <2> QED BY <2>1, <2>2
<1> HIDE DEF seen, row, col
<1> DEFINE e == [seen EXCEPT !.column = c.column + 1]
<1>10. /\ e \in ConsoleState /\ e.line = seen.line /\ e.total = seen.total /\ e.top = seen.top
       /\ e.follows = seen.follows /\ e.suppressed = seen.suppressed /\ e.cells = seen.cells
       /\ e.back = seen.back /\ e.front = seen.front /\ e.dirty = seen.dirty /\ e.column = c.column + 1
  BY <1>0, <1>9 DEF ConsoleState
<1> HIDE DEF e
<1>11. FrontAgrees(seen) => FrontAgrees(e)
  BY <1>10 DEF FrontAgrees
<1> QED BY <1>5, <1>9, <1>10, <1>11 DEF cells, back, row, col, e

LEMMA ViewAt ==
    ASSUME NEW c, NEW r \in Rows
    PROVE  View(c)[r] = IF c.top + r < c.total /\ c.top + r < ScrollbackRows THEN c.cells[c.top + r] ELSE Blank
BY DEF View

LEMMA LastTop ==
    ASSUME ConsoleConstants, NEW c \in ConsoleState
    PROVE  /\ MaximumViewTop(c) \in Nat
           /\ MaximumViewTop(c) = IF c.total <= ShownRows THEN 0 ELSE c.total - ShownRows
<1>1. c.total \in Nat /\ ShownRows \in Nat
  BY ConsoleFields, Shapes
<1> QED BY <1>1 DEF MaximumViewTop

\* The scrollback of c is the end of the lines written.
TextOf(c, lines) ==
    \A r \in 0..(c.total - 1) : c.cells[r] = lines[Len(lines) - c.total + 1 + r]

Written(c, lines) == lines \in Seq(Line) /\ Len(lines) >= c.total /\ TextOf(c, lines)

LEMMA LastLines ==
    ASSUME NEW sr \in Nat, NEW total \in Nat, NEW m \in Nat, NEW x \in 0..(total - 1),
           total <= sr, m >= total
    PROVE  /\ x \in 0..(sr - 1)
           /\ m - total + 1 + x \in 1..m
           /\ m - total + 1 + x = m <=> x = total - 1
OBVIOUS

LEMMA StoredAgrees ==
    ASSUME ConsoleConstants, NEW c \in ConsoleState, c.line = c.total - 1, NEW ch \in Chars,
           c.column < ShownColumns, NEW lines, Written(c, lines)
    PROVE  /\ Written(StorePrintable(c, ch), Logged(lines, ch, c.column))
           /\ c.back = View(c) => StorePrintable(c, ch).back = View(StorePrintable(c, ch))
<1> DEFINE e == StorePrintable(c, ch)
           new == [c.cells[c.line] EXCEPT ![c.column] = ch]
           n == Len(lines)
           log == Logged(lines, ch, c.column)
<1>0. /\ c.line \in Nat /\ c.line < ScrollbackRows /\ c.total \in Nat /\ c.total >= 1 /\ c.top \in Nat
      /\ c.cells \in [0..(ScrollbackRows - 1) -> Line] /\ c.back \in [Rows -> Line]
      /\ c.total <= ScrollbackRows
      /\ c.column \in Columns /\ ch \in Cell
  <2>1. c.line \in 0..(ScrollbackRows - 1) /\ c.column \in 0..ShownColumns /\ c.total \in 1..ScrollbackRows
        /\ c.top \in Nat /\ c.cells \in [0..(ScrollbackRows - 1) -> Line] /\ c.back \in [Rows -> Line]
    BY ConsoleFields
  <2>2. ShownColumns \in Nat /\ c.column < ShownColumns /\ ScrollbackRows \in Nat
    BY Shapes
  <2>3. \A x \in 0..ShownColumns : x < ShownColumns => x \in Columns
    BY <2>2 DEF Columns
  <2>4. ch \in Cell
    BY DEF Cell
  <2> QED BY <2>1, <2>2, <2>3, <2>4
<1>1. /\ e \in ConsoleState /\ e.line = c.line /\ e.total = c.total /\ e.top = c.top
      /\ e.cells = [c.cells EXCEPT ![c.line] = new]
      /\ InView(c) => e.back = [c.back EXCEPT ![c.line - c.top] = [c.back[c.line - c.top] EXCEPT ![c.column] = ch]]
      /\ ~InView(c) => e.back = c.back
  BY CharacterStored
<1>2. new \in Line /\ \A r \in 0..(ScrollbackRows - 1) : e.cells[r] = IF r = c.line THEN new ELSE c.cells[r]
  <2>1. c.line \in 0..(ScrollbackRows - 1) /\ c.cells[c.line] \in Line
    BY <1>0, Shapes
  <2>2. new \in Line
    BY <1>0, <2>1 DEF Line
  <2> QED BY <1>0, <1>1, <2>1, <2>2
<1> HIDE DEF e
<1>3. /\ lines \in Seq(Line) /\ n \in Nat /\ n >= c.total /\ n \in 1..n
      /\ lines[n] = c.cells[c.line]
  <2>1. lines \in Seq(Line) /\ n \in Nat /\ n >= c.total /\ n \in 1..n
    BY <1>0 DEF Written
  <2>2. c.line \in 0..(c.total - 1) /\ n - c.total + 1 + c.line = n
    BY <1>0, <2>1
  <2> QED BY <2>1, <2>2 DEF Written, TextOf
<1>4. log = [lines EXCEPT ![n] = new]
  BY <1>3 DEF Logged
<1>5. log \in Seq(Line) /\ Len(log) = n /\ \A i \in 1..n : log[i] = IF i = n THEN new ELSE lines[i]
  BY <1>2, <1>3, <1>4
<1> HIDE DEF log
<1>6. ASSUME NEW r \in 0..(e.total - 1) PROVE e.cells[r] = log[Len(log) - e.total + 1 + r]
  <2>1. /\ r \in 0..(ScrollbackRows - 1) /\ r \in 0..(c.total - 1) /\ n - c.total + 1 + r \in 1..n
        /\ (n - c.total + 1 + r = n <=> r = c.line)
    <3>1. PICK sr \in Nat, total \in Nat : sr = ScrollbackRows /\ total = c.total
      BY <1>0, Shapes
    <3>2. total <= sr /\ n >= total /\ c.line = total - 1 /\ r \in 0..(total - 1)
      BY <1>0, <1>1, <1>3, <3>1
    <3>3. r \in 0..(sr - 1) /\ n - total + 1 + r \in 1..n /\ (n - total + 1 + r = n <=> r = total - 1)
      BY <1>3, <3>2, LastLines
    <3> QED BY <3>1, <3>2, <3>3
  <2>2. c.cells[r] = lines[n - c.total + 1 + r]
    BY <2>1 DEF Written, TextOf
  <2> QED BY <1>1, <1>2, <1>5, <2>1, <2>2
<1>7. Written(e, log)
  BY <1>1, <1>3, <1>5, <1>6 DEF Written, TextOf
<1>8. ASSUME c.back = View(c) PROVE e.back = View(e)
  <2>1. ASSUME NEW r \in Rows PROVE e.back[r] = View(e)[r]
    <3>1. r \in Nat /\ r < ShownRows
      BY Shapes DEF Rows
    <3>2. c.back[r] = IF c.top + r < c.total /\ c.top + r < ScrollbackRows THEN c.cells[c.top + r] ELSE Blank
      BY <1>8, ViewAt
    <3>3. View(e)[r] = IF c.top + r < c.total /\ c.top + r < ScrollbackRows THEN e.cells[c.top + r] ELSE Blank
      BY <1>1, ViewAt
    <3>4. CASE c.top + r = c.line
      <4>1. InView(c) /\ c.line - c.top = r
        BY <1>0, <3>1, <3>4, Shapes DEF InView
      <4>2. e.back[r] = new
        BY <1>0, <1>1, <3>2, <3>4, <4>1
      <4>3. c.line \in 0..(ScrollbackRows - 1)
        BY <1>0, Shapes
      <4> QED BY <1>0, <1>2, <3>3, <3>4, <4>2, <4>3
    <3>5. CASE c.top + r # c.line
      <4>1. e.back[r] = c.back[r]
        <5>1. r # c.line - c.top
          BY <1>0, <3>1, <3>5
        <5> QED BY <1>0, <1>1, <5>1
      <4>2. c.top + r < ScrollbackRows => c.top + r \in 0..(ScrollbackRows - 1)
        BY <1>0, <3>1, Shapes
      <4> QED BY <1>2, <3>2, <3>3, <3>5, <4>1, <4>2
    <3> QED BY <3>4, <3>5
  <2>2. e.back \in [Rows -> Line] /\ View(e) \in [Rows -> Line]
    BY <1>1, ViewType, ConsoleFields
  <2> QED BY <2>1, <2>2
<1> QED BY <1>7, <1>8 DEF e, log

-----------------------------------------------------------------------------
(* The console: the invariant.                                             *)

ConsoleTypes ==
    /\ console \in ConsoleState /\ console.line = console.total - 1
    /\ newline \in [at : {"none", "settle", "draw", "store"}, how : {"none", "leave", "scroll", "render", "line"},
                    top : Nat, char : Chars \cup {"none"}]
    /\ ghost \in [lines : Seq(Line), stale : BOOLEAN, missed : BOOLEAN]

\* Where the view and the cursor are, also inside a newline.
ViewPlaced ==
    /\ console.top <= MaximumViewTop(console)
    /\ newline.at = "settle" => newline.top = MaximumViewTop(console)
    /\ newline.at # "settle" /\ console.follows => console.top = MaximumViewTop(console)
    /\ ~Idle => console.column = 0

\* The drawing that was decided brings the back buffer to the view of c.
Drawable(how, c) ==
    /\ how = "scroll" => \A r \in Rows : r < ShownRows - 1 => c.back[r + 1] = View(c)[r]
    /\ how \notin {"scroll", "render"} => c.back = View(c)

BackAgrees ==
    ~ghost.stale =>
        /\ newline.at = "settle" => Drawable(newline.how, [console EXCEPT !.top = newline.top])
        /\ newline.at = "draw" => Drawable(newline.how, console)
        /\ newline.at \in {"none", "store"} => console.back = View(console)

KeyboardInv ==
    /\ keyboard \in [held : SUBSET Keys, prefix : BOOLEAN] /\ pressed \subseteq Keys \X BOOLEAN
    /\ HeldIsPressed

\* The inductive invariant.
ConsoleInv ==
    /\ ConsoleTypes
    /\ ViewPlaced
    /\ Written(console, ghost.lines)
    /\ BackAgrees
    /\ ~ghost.missed => FrontAgrees(console)
    /\ KeyboardInv

LEMMA ConsoleInvSound == ASSUME ConsoleConstants, ConsoleInv PROVE ConsoleSound
<1>1. ConsoleTypeOK
  BY DEF ConsoleInv, ConsoleTypes, ViewPlaced, ConsoleTypeOK, Idle
<1>2. TextKept
  BY DEF ConsoleInv, Written, TextOf, TextKept
<1>3. BackShowsView
  BY DEF ConsoleInv, BackAgrees, BackShowsView, Idle
<1>4. FrontShowsBack
  BY DEF ConsoleInv, FrontAgrees, FrontShowsBack
<1> QED BY <1>1, <1>2, <1>3, <1>4 DEF ConsoleInv, KeyboardInv, ConsoleSound

LEMMA ConsoleInitInv == ASSUME ConsoleConstants, ConsoleInit PROVE ConsoleInv
<1>0. /\ 0 \in 0..(ScrollbackRows - 1) /\ 1 \in 1..ScrollbackRows /\ 0 \in 0..ShownColumns
      /\ Blank \in Line /\ BlankScreen \in [Rows -> Line]
  BY Shapes DEF Blank, BlankScreen, Line, Cell
<1>1. console \in ConsoleState
  BY <1>0, CleanType DEF ConsoleInit, ConsoleState, Line
<1>2. /\ console.line = 0 /\ console.total = 1 /\ console.top = 0 /\ console.follows
      /\ console.back = BlankScreen /\ console.front = BlankScreen
      /\ console.cells = [r \in 0..(ScrollbackRows - 1) |-> Blank]
      /\ newline = NoNewline /\ ghost = [lines |-> <<Blank>>, stale |-> FALSE, missed |-> FALSE]
      /\ keyboard = [held |-> {}, prefix |-> FALSE] /\ pressed = {}
  BY DEF ConsoleInit
<1>3. ConsoleTypes
  BY <1>0, <1>1, <1>2 DEF ConsoleTypes, NoNewline
<1>4. MaximumViewTop(console) = 0
  BY <1>1, <1>2, LastTop, Shapes
<1>5. ViewPlaced
  BY <1>2, <1>4 DEF ViewPlaced, Idle, NoNewline
<1>6. Written(console, ghost.lines)
  <2>1. ghost.lines \in Seq(Line) /\ Len(ghost.lines) = 1 /\ ghost.lines[1] = Blank
    BY <1>0, <1>2
  <2>2. \A r \in 0..(console.total - 1) : r = 0
    BY <1>2
  <2>3. console.cells[0] = Blank
    BY <1>0, <1>2
  <2> QED BY <1>2, <2>1, <2>2, <2>3 DEF Written, TextOf
<1>7. console.back = View(console)
  <2>1. \A r \in Rows : View(console)[r] = Blank
    <3> SUFFICES ASSUME NEW r \in Rows PROVE View(console)[r] = Blank
      OBVIOUS
    <3>1. r \in Nat
      BY Shapes DEF Rows
    <3>2. console.top + r = r /\ r < ScrollbackRows => r \in 0..(ScrollbackRows - 1)
      BY <1>2, <3>1, Shapes
    <3>3. r < ScrollbackRows => console.cells[r] = Blank
      BY <1>2, <3>1, <3>2, Shapes
    <3>4. console.top + r = r
      BY <1>2, <3>1
    <3> QED BY <3>3, <3>4, ViewAt
  <2>2. View(console) \in [Rows -> Line]
    BY <1>1, ViewType
  <2> QED BY <1>2, <2>1, <2>2 DEF BlankScreen
<1>8. BackAgrees
  BY <1>2, <1>7 DEF BackAgrees, NoNewline
<1>9. FrontAgrees(console)
  BY <1>2 DEF FrontAgrees
<1>10. KeyboardInv
  BY <1>2 DEF KeyboardInv, HeldIsPressed
<1> QED BY <1>3, <1>5, <1>6, <1>8, <1>9, <1>10 DEF ConsoleInv

-----------------------------------------------------------------------------
(* The console: a newline.                                                 *)

LEMMA NextLineIs ==
    ASSUME ConsoleConstants, NEW c \in ConsoleState, c.line = c.total - 1
    PROVE  LET d == NextLine(c) IN
           /\ d \in ConsoleState /\ d.line = d.total - 1 /\ d.column = 0 /\ d.follows = c.follows
           /\ d.suppressed = c.suppressed /\ d.back = c.back /\ d.front = c.front /\ d.dirty = c.dirty
           /\ Shifts(c) =>
                /\ c.total = ScrollbackRows /\ d.total = ScrollbackRows
                /\ d.top = IF ~c.follows /\ c.top > 0 THEN c.top - 1 ELSE c.top
                /\ \A r \in 0..(ScrollbackRows - 1) :
                       d.cells[r] = IF r < ScrollbackRows - 1 THEN c.cells[r + 1] ELSE Blank
           /\ ~Shifts(c) =>
                /\ c.total < ScrollbackRows /\ d.total = c.total + 1 /\ d.top = c.top
                /\ \A r \in 0..(ScrollbackRows - 1) :
                       d.cells[r] = IF r = c.total THEN Blank ELSE c.cells[r]
<1> DEFINE d == NextLine(c)
<1>0. PICK sr \in Nat, total \in Nat, line \in Nat, top \in Nat :
          /\ sr = ScrollbackRows /\ total = c.total /\ line = c.line /\ top = c.top
          /\ total >= 1 /\ total <= sr /\ line = total - 1
  BY ConsoleFields, Shapes
<1>1. /\ c.cells \in [0..(sr - 1) -> Line] /\ Blank \in Line /\ c.follows \in BOOLEAN
      /\ 0 \in 0..ShownColumns
  <2>1. c.cells \in [0..(sr - 1) -> Line] /\ c.follows \in BOOLEAN
    BY <1>0, ConsoleFields
  <2>2. 0 \in 0..ShownColumns
    BY Shapes
  <2> QED BY <2>1, <2>2 DEF Blank, Line, Cell
<1>2. CASE Shifts(c)
  <2> DEFINE cells == [r \in 0..(sr - 1) |-> IF r < sr - 1 THEN c.cells[r + 1] ELSE Blank]
             up == IF ~c.follows /\ c.top > 0 THEN c.top - 1 ELSE c.top
             m == [c EXCEPT !.cells = cells, !.top = up, !.column = 0, !.total = sr]
             new == [cells EXCEPT ![line] = Blank]
  <2>1. total = sr /\ line = sr - 1 /\ line \in 0..(sr - 1) /\ sr \in 1..sr
    BY <1>0, <1>2 DEF Shifts
  <2>2. cells \in [0..(sr - 1) -> Line]
    <3>1. ASSUME NEW r \in 0..(sr - 1) PROVE cells[r] \in Line
      <4>1. r < sr - 1 => r + 1 \in 0..(sr - 1)
        BY <1>0
      <4> QED BY <1>1, <4>1
    <3> QED BY <3>1
  <2>3. new = cells
    BY <2>1, <2>2
  <2>4. up \in Nat
    BY <1>0
  <2>5. m = [ShiftScrollbackUp(c) EXCEPT !.column = 0, !.total = ScrollbackRows]
    BY <1>0 DEF ShiftScrollbackUp
  <2>6. \A r \in 0..(sr - 1) : cells[r] = IF r < sr - 1 THEN c.cells[r + 1] ELSE Blank
    OBVIOUS
  <2> HIDE DEF cells, up
  <2>7. /\ m \in ConsoleState /\ m.cells = cells /\ m.top = up /\ m.total = sr /\ m.column = 0
        /\ m.line = line /\ m.follows = c.follows /\ m.suppressed = c.suppressed
        /\ m.back = c.back /\ m.front = c.front /\ m.dirty = c.dirty
    BY <1>0, <1>1, <2>1, <2>2, <2>4 DEF ConsoleState, Line
  <2> HIDE DEF m
  <2>8. d = [m EXCEPT !.cells[m.line] = Blank]
    BY <1>2, <2>5 DEF NextLine
  <2>9. d = [m EXCEPT !.cells = cells]
    BY <2>3, <2>7, <2>8 DEF ConsoleState
  <2>10. d = m
    BY <2>7, <2>9 DEF ConsoleState
  <2> QED BY <1>0, <1>2, <2>1, <2>6, <2>7, <2>10 DEF up
<1>3. CASE ~Shifts(c)
  <2> DEFINE m == [c EXCEPT !.column = 0, !.line = total, !.total = total + 1]
             new == [c.cells EXCEPT ![total] = Blank]
             e == [m EXCEPT !.cells = new]
  <2>1. total < sr /\ total \in 0..(sr - 1) /\ total + 1 \in 1..sr /\ line + 1 = total
    BY <1>0, <1>3 DEF Shifts
  <2>2. new \in [0..(sr - 1) -> Line] /\ \A r \in 0..(sr - 1) : new[r] = IF r = total THEN Blank ELSE c.cells[r]
    BY <1>1, <2>1
  <2> HIDE DEF new
  <2>3. /\ m \in ConsoleState /\ m.cells = c.cells /\ m.top = c.top /\ m.total = total + 1 /\ m.column = 0
        /\ m.line = total /\ m.follows = c.follows /\ m.suppressed = c.suppressed
        /\ m.back = c.back /\ m.front = c.front /\ m.dirty = c.dirty
    BY <1>0, <1>1, <2>1 DEF ConsoleState, Line
  <2>4. m = [c EXCEPT !.column = 0, !.line = @ + 1, !.total = IF c.line + 1 >= @ THEN c.line + 2 ELSE @]
    <3>1. c.line + 1 = total /\ (IF c.line + 1 >= c.total THEN c.line + 2 ELSE c.total) = total + 1
      BY <1>0, <2>1
    <3>2. c = [c EXCEPT !.column = c.column] /\ m = [c EXCEPT !.column = 0, !.line = c.line + 1,
              !.total = IF c.line + 1 >= c.total THEN c.line + 2 ELSE c.total]
      BY <3>1 DEF ConsoleState
    <3> QED BY <3>2 DEF ConsoleState
  <2> HIDE DEF m
  <2>5. d = [m EXCEPT !.cells[m.line] = Blank]
    BY <1>3, <2>4 DEF NextLine
  <2>6. d = e
    BY <2>3, <2>5 DEF ConsoleState, new
  <2>7. /\ e \in ConsoleState /\ e.cells = new /\ e.top = m.top /\ e.total = m.total /\ e.column = 0
        /\ e.line = m.line /\ e.follows = m.follows /\ e.suppressed = m.suppressed
        /\ e.back = m.back /\ e.front = m.front /\ e.dirty = m.dirty
    BY <1>0, <2>2, <2>3 DEF ConsoleState, Line
  <2> HIDE DEF e
  <2> QED BY <1>0, <1>3, <2>1, <2>2, <2>3, <2>6, <2>7
<1> QED BY <1>2, <1>3

LEMMA NextLineText ==
    ASSUME ConsoleConstants, NEW c \in ConsoleState, c.line = c.total - 1, NEW lines, Written(c, lines)
    PROVE  Written(NextLine(c), Append(lines, Blank))
<1> DEFINE d == NextLine(c)
           log == Append(lines, Blank)
<1>1. PICK sr \in Nat, total \in Nat, n \in Nat :
          /\ sr = ScrollbackRows /\ total = c.total /\ n = Len(lines)
          /\ total >= 1 /\ total <= sr /\ n >= total
  BY ConsoleFields, Shapes DEF Written
<1>2. lines \in Seq(Line) /\ Blank \in Line /\ \A r \in 0..(total - 1) : c.cells[r] = lines[n - total + 1 + r]
  BY <1>1 DEF Written, TextOf, Blank, Line, Cell
<1>3. log \in Seq(Line) /\ Len(log) = n + 1 /\ log[n + 1] = Blank /\ \A i \in 1..n : log[i] = lines[i]
  BY <1>1, <1>2
<1> HIDE DEF log
<1>4. CASE Shifts(c)
  <2>1. total = sr /\ d.total = sr
        /\ \A r \in 0..(sr - 1) : d.cells[r] = IF r < sr - 1 THEN c.cells[r + 1] ELSE Blank
    BY <1>1, <1>4, NextLineIs
  <2> HIDE DEF d
  <2>2. ASSUME NEW r \in 0..(d.total - 1) PROVE d.cells[r] = log[Len(log) - d.total + 1 + r]
    <3>1. CASE r = sr - 1
      BY <1>1, <1>3, <2>1, <3>1
    <3>2. CASE r # sr - 1
      <4>1. r \in 0..(sr - 1) /\ r < sr - 1 /\ r + 1 \in 0..(total - 1) /\ n - total + 1 + (r + 1) \in 1..n
            /\ (n + 1) - sr + 1 + r = n - total + 1 + (r + 1)
        BY <1>1, <2>1, <3>2
      <4>2. d.cells[r] = lines[n - total + 1 + (r + 1)]
        BY <1>2, <2>1, <4>1
      <4> QED BY <1>3, <2>1, <4>1, <4>2
    <3> QED BY <3>1, <3>2
  <2>3. Len(log) >= d.total
    BY <1>1, <1>3, <2>1
  <2> QED BY <1>3, <2>2, <2>3 DEF Written, TextOf, d, log
<1>5. CASE ~Shifts(c)
  <2>1. total < sr /\ d.total = total + 1
        /\ \A r \in 0..(sr - 1) : d.cells[r] = IF r = total THEN Blank ELSE c.cells[r]
    BY <1>1, <1>5, NextLineIs
  <2> HIDE DEF d
  <2>2. ASSUME NEW r \in 0..(d.total - 1) PROVE d.cells[r] = log[Len(log) - d.total + 1 + r]
    <3>0. r \in 0..total /\ Len(log) - d.total + 1 + r = n - total + 1 + r
      BY <1>1, <1>3, <2>1
    <3>1. CASE r = total
      <4>1. total \in 0..(sr - 1) /\ n - total + 1 + total = n + 1
        BY <1>1, <2>1
      <4>2. d.cells[r] = Blank
        BY <2>1, <3>1, <4>1
      <4> QED BY <1>3, <3>0, <3>1, <4>1, <4>2
    <3>2. CASE r # total
      <4>0. r \in 0..(total - 1)
        BY <1>1, <3>0, <3>2
      <4>1. r \in 0..(sr - 1) /\ n - total + 1 + r \in 1..n
        BY <1>1, <4>0, LastLines
      <4>2. d.cells[r] = lines[n - total + 1 + r]
        BY <1>2, <2>1, <3>2, <4>0, <4>1
      <4> QED BY <1>3, <3>0, <4>1, <4>2
    <3> QED BY <3>1, <3>2
  <2>3. Len(log) >= d.total
    BY <1>1, <1>3, <2>1
  <2> QED BY <1>3, <2>2, <2>3 DEF Written, TextOf, d, log
<1> QED BY <1>4, <1>5

\* The view after a newline and what is decided about it.
LEMMA NextLineView ==
    ASSUME ConsoleConstants, NEW c \in ConsoleState, c.line = c.total - 1,
           c.top <= MaximumViewTop(c), c.follows => c.top = MaximumViewTop(c),
           NEW how, how = Decision(NextLine(c), c, Shifts(c)),
           NEW e, e = [NextLine(c) EXCEPT !.top = MaximumViewTop(NextLine(c))]
    PROVE  /\ how \in {"leave", "scroll", "render", "line"} /\ (how = "leave" <=> ~c.follows)
           /\ NextLine(c).top <= MaximumViewTop(NextLine(c))
           /\ c.back = View(c) /\ how = "leave" /\ ~(Shifts(c) /\ c.top = 0) => NextLine(c).back = View(NextLine(c))
           /\ c.back = View(c) /\ how # "leave" => Drawable(how, e)
<1> DEFINE d == NextLine(c)
<1>1. PICK sr \in Nat, total \in Nat, top \in Nat, shown \in Nat :
          /\ sr = ScrollbackRows /\ total = c.total /\ top = c.top /\ shown = ShownRows
          /\ total >= 1 /\ total <= sr /\ shown >= 1 /\ shown <= sr
  BY ConsoleFields, Shapes
<1>2. d \in ConsoleState /\ d.follows = c.follows /\ c.follows \in BOOLEAN /\ d.back = c.back
  BY NextLineIs, ConsoleFields
<1>3. MaximumViewTop(c) = IF total <= shown THEN 0 ELSE total - shown
  BY <1>1, LastTop
<1>4. PICK next \in Nat : next = MaximumViewTop(d)
  BY <1>2, LastTop
<1>5. next = IF d.total <= shown THEN 0 ELSE d.total - shown
  BY <1>1, <1>2, <1>4, LastTop
<1>6. Shifts(c) => /\ total = sr /\ d.total = sr /\ d.top = (IF ~c.follows /\ top > 0 THEN top - 1 ELSE top)
                   /\ \A r \in 0..(sr - 1) : d.cells[r] = IF r < sr - 1 THEN c.cells[r + 1] ELSE Blank
  BY <1>1, NextLineIs
<1>7. ~Shifts(c) => /\ total < sr /\ d.total = total + 1 /\ d.top = top
                    /\ \A r \in 0..(sr - 1) : d.cells[r] = IF r = total THEN Blank ELSE c.cells[r]
  BY <1>1, NextLineIs
<1>8. how = IF ~c.follows THEN "leave"
            ELSE IF Shifts(c) \/ (next = top + 1 /\ total >= shown) THEN "scroll"
            ELSE IF next # top THEN "render" ELSE "line"
  BY <1>1, <1>2, <1>4 DEF Decision
<1>9. e = [d EXCEPT !.top = next]
  BY <1>4
<1>10. e \in ConsoleState /\ e.top = next /\ e.total = d.total /\ e.cells = d.cells /\ e.back = d.back
  BY <1>2, <1>9 DEF ConsoleState
<1> HIDE DEF d
<1>11. \A r \in Rows : r \in Nat /\ r < shown
  BY <1>1, Shapes DEF Rows
<1>12. \A r \in Rows : View(c)[r] = IF top + r < total /\ top + r < sr THEN c.cells[top + r] ELSE Blank
  BY <1>1, ViewAt
<1>13. \A r \in Rows : View(d)[r] = IF d.top + r < d.total /\ d.top + r < sr THEN d.cells[d.top + r] ELSE Blank
  BY <1>1, ViewAt
<1>14. \A r \in Rows : View(e)[r] = IF next + r < d.total /\ next + r < sr THEN d.cells[next + r] ELSE Blank
  BY <1>1, <1>10, ViewAt
<1>15. d.top <= next
  BY <1>1, <1>3, <1>5, <1>6, <1>7
<1>16. ASSUME c.back = View(c), ~c.follows, ~(Shifts(c) /\ c.top = 0) PROVE d.back = View(d)
  <2>1. ASSUME NEW r \in Rows PROVE View(c)[r] = View(d)[r]
    <3>1. CASE Shifts(c)
      <4>1. top > 0 /\ d.top = top - 1 /\ top + r <= sr - 1
        BY <1>1, <1>3, <1>6, <1>11, <1>16, <3>1
      <4>2. d.top + r \in 0..(sr - 1) /\ d.top + r < sr - 1 /\ (d.top + r) + 1 = top + r
        BY <1>1, <1>11, <4>1
      <4>3. d.cells[d.top + r] = c.cells[top + r]
        BY <1>6, <3>1, <4>2
      <4> QED BY <1>1, <1>6, <1>11, <1>12, <1>13, <3>1, <4>1, <4>2, <4>3
    <3>2. CASE ~Shifts(c)
      <4>1. top + r < sr => top + r \in 0..(sr - 1)
        BY <1>1, <1>11
      <4>2. top + r < sr => d.cells[top + r] = IF top + r = total THEN Blank ELSE c.cells[top + r]
        BY <1>7, <3>2, <4>1
      <4> QED BY <1>1, <1>7, <1>11, <1>12, <1>13, <3>2, <4>2
    <3> QED BY <3>1, <3>2
  <2>2. View(c) \in [Rows -> Line] /\ View(d) \in [Rows -> Line]
    BY <1>2, ViewType
  <2> QED BY <1>2, <1>16, <2>1, <2>2
<1>17. ASSUME c.back = View(c), c.follows, how = "scroll", NEW r \in Rows, r < ShownRows - 1
       PROVE  e.back[r + 1] = View(e)[r]
  <2>1. r + 1 \in Rows /\ r + 1 < shown
    BY <1>1, <1>11, <1>17 DEF Rows
  <2>2. e.back[r + 1] = View(c)[r + 1]
    BY <1>2, <1>10, <1>17
  <2>3. View(c)[r + 1] = IF top + (r + 1) < total /\ top + (r + 1) < sr THEN c.cells[top + (r + 1)] ELSE Blank
    BY <1>12, <2>1
  <2>4. CASE Shifts(c)
    <3>1. next = top /\ top + (r + 1) < total /\ total = sr /\ d.total = sr
      BY <1>1, <1>3, <1>5, <1>6, <1>11, <1>17, <2>1, <2>4
    <3>2. next + r \in 0..(sr - 1) /\ next + r < sr - 1 /\ (next + r) + 1 = top + (r + 1)
      BY <1>1, <1>11, <3>1
    <3>3. d.cells[next + r] = c.cells[top + (r + 1)]
      BY <1>6, <2>4, <3>2
    <3>4. View(e)[r] = d.cells[next + r]
      BY <1>1, <1>11, <1>14, <3>1, <3>2
    <3> QED BY <1>1, <2>2, <2>3, <3>1, <3>3, <3>4
  <2>5. CASE ~Shifts(c)
    <3>1. next = top + 1 /\ total >= shown
      BY <1>8, <1>17, <2>5
    <3>2. top + (r + 1) < total /\ total < sr /\ d.total = total + 1
      BY <1>1, <1>3, <1>7, <1>11, <1>17, <2>1, <2>5, <3>1
    <3>3. next + r \in 0..(sr - 1) /\ next + r # total /\ next + r = top + (r + 1)
      BY <1>1, <1>11, <3>1, <3>2
    <3>4. d.cells[next + r] = c.cells[top + (r + 1)]
      BY <1>7, <2>5, <3>3
    <3>5. View(e)[r] = d.cells[next + r]
      BY <1>1, <1>11, <1>14, <3>1, <3>2, <3>3
    <3>6. top + (r + 1) < sr
      BY <1>1, <1>11, <3>2
    <3> QED BY <2>2, <2>3, <3>2, <3>3, <3>4, <3>5, <3>6
  <2> QED BY <2>4, <2>5
<1>18. ASSUME c.back = View(c), c.follows, how = "line" PROVE e.back = View(e)
  <2>1. ~Shifts(c) /\ next = top
    BY <1>8, <1>18
  <2>2. ASSUME NEW r \in Rows PROVE View(c)[r] = View(e)[r]
    <3>1. top + r < sr => top + r \in 0..(sr - 1)
      BY <1>1, <1>11
    <3>2. top + r < sr => d.cells[top + r] = IF top + r = total THEN Blank ELSE c.cells[top + r]
      BY <1>7, <2>1, <3>1
    <3> QED BY <1>1, <1>7, <1>11, <1>12, <1>14, <2>1, <3>2
  <2>3. View(c) \in [Rows -> Line] /\ View(e) \in [Rows -> Line]
    BY <1>10, ViewType
  <2> QED BY <1>2, <1>10, <1>18, <2>2, <2>3
<1>19. how \in {"leave", "scroll", "render", "line"} /\ (how = "leave" <=> ~c.follows)
  BY <1>2, <1>8
<1> QED BY <1>2, <1>4, <1>15, <1>16, <1>17, <1>18, <1>19 DEF Drawable, d

LEMMA AdvanceKeeps ==
    ASSUME ConsoleConstants, ConsoleInv, Idle, NEW ch \in Chars \cup {"none"}, Advance(ch),
           UNCHANGED <<keyboard, pressed>>
    PROVE  ConsoleInv'
<1> DEFINE d == NextLine(console)
           how == Decision(d, console, Shifts(console))
           e == [d EXCEPT !.top = MaximumViewTop(d)]
           lost == Shifts(console) /\ ~console.follows /\ console.top = 0
<1>1. /\ console \in ConsoleState /\ console.line = console.total - 1
      /\ console.top <= MaximumViewTop(console)
      /\ console.follows => console.top = MaximumViewTop(console)
      /\ Written(console, ghost.lines) /\ (~ghost.stale => console.back = View(console))
      /\ ghost \in [lines : Seq(Line), stale : BOOLEAN, missed : BOOLEAN]
  BY DEF ConsoleInv, ConsoleTypes, ViewPlaced, BackAgrees, Idle
<1>2. /\ console' = d
      /\ newline' = [at |-> IF how = "leave" THEN "store" ELSE "settle", how |-> how,
                     top |-> MaximumViewTop(d), char |-> ch]
      /\ ghost' = [ghost EXCEPT !.lines = Append(ghost.lines, Blank), !.stale = ghost.stale \/ lost]
  BY <1>1 DEF Advance
<1>3. /\ d \in ConsoleState /\ d.line = d.total - 1 /\ d.column = 0 /\ d.follows = console.follows
      /\ d.back = console.back /\ d.front = console.front /\ d.dirty = console.dirty
  BY <1>1, NextLineIs
<1>4. Written(d, Append(ghost.lines, Blank))
  BY <1>1, NextLineText
<1>5. /\ how \in {"leave", "scroll", "render", "line"} /\ (how = "leave" <=> ~console.follows)
      /\ d.top <= MaximumViewTop(d)
      /\ console.back = View(console) /\ how = "leave" /\ ~lost => d.back = View(d)
      /\ console.back = View(console) /\ how # "leave" => Drawable(how, e)
  BY <1>1, NextLineView
<1>6. MaximumViewTop(d) \in Nat
  BY <1>3, LastTop
<1> HIDE DEF d, how, e, lost
<1>7. /\ ghost' \in [lines : Seq(Line), stale : BOOLEAN, missed : BOOLEAN]
      /\ ghost'.lines = Append(ghost.lines, Blank) /\ ghost'.missed = ghost.missed
      /\ ghost'.stale <=> (ghost.stale \/ lost)
  <2>1. Append(ghost.lines, Blank) \in Seq(Line)
    BY <1>4 DEF Written
  <2>2. (ghost.stale \/ lost) \in BOOLEAN
    BY <1>1 DEF lost
  <2> QED BY <1>1, <1>2, <2>1, <2>2
<1>8. ConsoleTypes'
  BY <1>2, <1>3, <1>5, <1>6, <1>7 DEF ConsoleTypes
<1>9. ViewPlaced'
  BY <1>2, <1>3, <1>5 DEF ViewPlaced, Idle
<1>10. BackAgrees'
  BY <1>1, <1>2, <1>3, <1>5, <1>7 DEF BackAgrees, e
<1>11. Written(console', ghost'.lines)
  BY <1>2, <1>4, <1>7
<1>12. ~ghost'.missed => FrontAgrees(console')
  BY <1>2, <1>3, <1>7 DEF ConsoleInv, FrontAgrees
<1>13. KeyboardInv'
  BY DEF ConsoleInv, KeyboardInv, HeldIsPressed
<1> QED BY <1>8, <1>9, <1>10, <1>11, <1>12, <1>13 DEF ConsoleInv

\* An operator of the view does not see what the view does not depend on.
LEMMA SameView ==
    ASSUME NEW c, NEW d, d.cells = c.cells, d.top = c.top, d.total = c.total
    PROVE  /\ View(d) = View(c) /\ MaximumViewTop(d) = MaximumViewTop(c)
           /\ \A lines : Written(c, lines) => Written(d, lines)
           /\ \A how : d.back = c.back /\ Drawable(how, c) => Drawable(how, d)
<1>1. View(d) = View(c)
  BY DEF View
<1> QED BY <1>1 DEF MaximumViewTop, Written, TextOf, Drawable

LEMMA SettleKeeps == ASSUME ConsoleConstants, ConsoleInv, Settle PROVE ConsoleInv'
<1>1. /\ console \in ConsoleState /\ console.line = console.total - 1
      /\ newline.at = "settle" /\ newline.top = MaximumViewTop(console) /\ console.column = 0
      /\ Written(console, ghost.lines)
      /\ newline \in [at : {"none", "settle", "draw", "store"}, how : {"none", "leave", "scroll", "render", "line"},
                    top : Nat, char : Chars \cup {"none"}]
      /\ ghost \in [lines : Seq(Line), stale : BOOLEAN, missed : BOOLEAN]
  BY DEF ConsoleInv, ConsoleTypes, ViewPlaced, Settle, Idle
<1>2. /\ console' = [console EXCEPT !.top = newline.top] /\ newline' = [newline EXCEPT !.at = "draw"]
      /\ ghost' = ghost /\ keyboard' = keyboard /\ pressed' = pressed
  BY DEF Settle
<1>3. PICK c : c = console'
  OBVIOUS
<1>4. /\ c \in ConsoleState /\ c.top = newline.top /\ c.line = console.line /\ c.total = console.total
      /\ c.column = 0 /\ c.cells = console.cells /\ c.back = console.back /\ c.front = console.front
      /\ c.dirty = console.dirty /\ c.follows = console.follows
  BY <1>1, <1>2, <1>3 DEF ConsoleState
<1>5. MaximumViewTop(c) = newline.top /\ newline.top \in Nat
  BY <1>1, <1>4 DEF MaximumViewTop
<1>6. newline'.at = "draw" /\ newline'.how = newline.how
  BY <1>1, <1>2
<1>7. ConsoleTypes'
  BY <1>1, <1>2, <1>3, <1>4 DEF ConsoleTypes
<1>8. ViewPlaced'
  BY <1>3, <1>4, <1>5, <1>6 DEF ViewPlaced, Idle
<1>9. BackAgrees'
  BY <1>1, <1>2, <1>6 DEF ConsoleInv, BackAgrees
<1>10. Written(console', ghost'.lines)
  BY <1>1, <1>2, <1>3, <1>4 DEF Written, TextOf
<1>11. ~ghost'.missed => FrontAgrees(console')
  BY <1>2, <1>3, <1>4 DEF ConsoleInv, FrontAgrees
<1>12. KeyboardInv'
  BY <1>2 DEF ConsoleInv, KeyboardInv, HeldIsPressed
<1> QED BY <1>7, <1>8, <1>9, <1>10, <1>11, <1>12 DEF ConsoleInv

LEMMA DrawKeeps == ASSUME ConsoleConstants, ConsoleInv, Draw PROVE ConsoleInv'
<1>1. /\ console \in ConsoleState /\ console.line = console.total - 1
      /\ newline.at = "draw" /\ console.column = 0 /\ console.top <= MaximumViewTop(console)
      /\ console.follows => console.top = MaximumViewTop(console)
      /\ Written(console, ghost.lines) /\ (~ghost.stale => Drawable(newline.how, console))
      /\ ~ghost.missed => FrontAgrees(console)
      /\ newline \in [at : {"none", "settle", "draw", "store"}, how : {"none", "leave", "scroll", "render", "line"},
                    top : Nat, char : Chars \cup {"none"}]
      /\ ghost \in [lines : Seq(Line), stale : BOOLEAN, missed : BOOLEAN]
  BY DEF ConsoleInv, ConsoleTypes, ViewPlaced, BackAgrees, Draw, Idle
<1>2. /\ console' = CASE newline.how = "scroll" -> FastTailScrollPresent(console)
                      [] newline.how = "render" -> RenderVisible(console)
                      [] OTHER -> PresentDirtyLine(console)
      /\ newline' = [newline EXCEPT !.at = "store"]
      /\ ghost' = [ghost EXCEPT !.missed = ghost.missed \/ console.suppressed,
                                !.stale = ghost.stale /\ newline.how # "render"]
      /\ keyboard' = keyboard /\ pressed' = pressed
  BY <1>1 DEF Draw
<1>3. PICK c, d : c = console /\ d = console'
  OBVIOUS
<1>4. c \in ConsoleState /\ c.suppressed \in BOOLEAN
  BY <1>1, <1>3, ConsoleFields
<1>5. /\ ghost' \in [lines : Seq(Line), stale : BOOLEAN, missed : BOOLEAN] /\ ghost'.lines = ghost.lines
      /\ ghost'.missed <=> (ghost.missed \/ c.suppressed)
      /\ ghost'.stale <=> (ghost.stale /\ newline.how # "render")
  <2>1. (ghost.missed \/ c.suppressed) \in BOOLEAN /\ (ghost.stale /\ newline.how # "render") \in BOOLEAN
    BY <1>1, <1>4
  <2> QED BY <1>1, <1>2, <1>3, <2>1
<1>6. newline'.at = "store" /\ newline' \in [at : {"none", "settle", "draw", "store"},
          how : {"none", "leave", "scroll", "render", "line"}, top : Nat, char : Chars \cup {"none"}]
  BY <1>1, <1>2
<1>7. /\ d \in ConsoleState /\ SameText(d, c) /\ (~ghost'.stale => d.back = View(c))
      /\ ~c.suppressed /\ FrontAgrees(c) => FrontAgrees(d)
  <2>1. CASE newline.how = "scroll"
    <3>1. d = FastTailScrollPresent(c)
      BY <1>2, <1>3, <2>1
    <3>2. /\ d \in ConsoleState /\ SameText(d, c) /\ (~c.suppressed => FrontAgrees(d))
          /\ \A r \in Rows : d.back[r] = IF r < ShownRows - 1 THEN c.back[r + 1] ELSE View(c)[r]
      BY <1>4, <3>1, TailScrolled
    <3>3. ASSUME ~ghost'.stale PROVE d.back = View(c)
      <4>1. \A r \in Rows : d.back[r] = View(c)[r]
        BY <1>1, <1>3, <1>5, <2>1, <3>2, <3>3 DEF Drawable
      <4>2. d.back \in [Rows -> Line] /\ View(c) \in [Rows -> Line]
        BY <1>4, <3>2, ConsoleFields, ViewType
      <4> QED BY <4>1, <4>2
    <3> QED BY <3>2, <3>3
  <2>2. CASE newline.how = "render"
    <3>1. d = RenderVisible(c)
      BY <1>2, <1>3, <2>2
    <3> QED BY <1>4, <3>1, Rendered
  <2>3. CASE newline.how \notin {"scroll", "render"}
    <3>1. d = PresentDirtyLine(c)
      BY <1>2, <1>3, <2>3
    <3>2. ~ghost'.stale => c.back = View(c)
      BY <1>1, <1>3, <1>5, <2>3 DEF Drawable
    <3> QED BY <1>4, <3>1, <3>2, LinePresented
  <2> QED BY <2>1, <2>2, <2>3
<1>8. View(d) = View(c) /\ MaximumViewTop(d) = MaximumViewTop(c) /\ Written(d, ghost.lines)
  BY <1>1, <1>3, <1>7, SameView DEF SameText
<1>9. ConsoleTypes'
  BY <1>1, <1>3, <1>5, <1>6, <1>7 DEF ConsoleTypes, SameText
<1>10. ViewPlaced'
  BY <1>1, <1>3, <1>6, <1>7, <1>8 DEF ViewPlaced, Idle, SameText
<1>11. BackAgrees'
  BY <1>3, <1>6, <1>7, <1>8 DEF BackAgrees
<1>12. Written(console', ghost'.lines)
  BY <1>3, <1>5, <1>8
<1>13. ~ghost'.missed => FrontAgrees(console')
  BY <1>1, <1>3, <1>5, <1>7
<1>14. KeyboardInv'
  BY <1>2 DEF ConsoleInv, KeyboardInv, HeldIsPressed
<1> QED BY <1>9, <1>10, <1>11, <1>12, <1>13, <1>14 DEF ConsoleInv

\* A character is stored outside a newline or at its end.
LEMMA StoreKeeps ==
    ASSUME ConsoleConstants, ConsoleInv, newline.at \in {"none", "store"}, NEW ch \in Chars,
           console.column < ShownColumns,
           console' = StorePrintable(console, ch),
           ghost' = [ghost EXCEPT !.lines = Logged(ghost.lines, ch, console.column),
                                  !.missed = ghost.missed \/ console.suppressed],
           newline' \in {newline, NoNewline}, newline'.at = "none",
           UNCHANGED <<keyboard, pressed>>
    PROVE  ConsoleInv'
<1>1. /\ console \in ConsoleState /\ console.line = console.total - 1
      /\ console.top <= MaximumViewTop(console)
      /\ console.follows => console.top = MaximumViewTop(console)
      /\ Written(console, ghost.lines) /\ (~ghost.stale => console.back = View(console))
      /\ ~ghost.missed => FrontAgrees(console)
      /\ newline \in [at : {"none", "settle", "draw", "store"}, how : {"none", "leave", "scroll", "render", "line"},
                    top : Nat, char : Chars \cup {"none"}]
      /\ ghost \in [lines : Seq(Line), stale : BOOLEAN, missed : BOOLEAN]
  BY DEF ConsoleInv, ConsoleTypes, ViewPlaced, BackAgrees
<1>2. PICK c, d : c = console /\ d = console'
  OBVIOUS
<1>3. c \in ConsoleState /\ c.suppressed \in BOOLEAN
  BY <1>1, <1>2, ConsoleFields
<1>4. /\ d \in ConsoleState /\ d.line = c.line /\ d.total = c.total /\ d.top = c.top /\ d.follows = c.follows
      /\ ~c.suppressed /\ FrontAgrees(c) => FrontAgrees(d)
  BY <1>2, <1>3, CharacterStored
<1>5. Written(d, Logged(ghost.lines, ch, c.column)) /\ (c.back = View(c) => d.back = View(d))
  BY <1>1, <1>2, StoredAgrees
<1>6. /\ ghost' \in [lines : Seq(Line), stale : BOOLEAN, missed : BOOLEAN]
      /\ ghost'.lines = Logged(ghost.lines, ch, c.column) /\ ghost'.stale = ghost.stale
      /\ ghost'.missed <=> (ghost.missed \/ c.suppressed)
  <2>1. (ghost.missed \/ c.suppressed) \in BOOLEAN /\ Logged(ghost.lines, ch, c.column) \in Seq(Line)
    BY <1>1, <1>3, <1>5 DEF Written
  <2> QED BY <1>1, <1>2, <2>1
<1>7. newline' \in [at : {"none", "settle", "draw", "store"},
          how : {"none", "leave", "scroll", "render", "line"}, top : Nat, char : Chars \cup {"none"}]
  BY <1>1 DEF NoNewline
<1>8. ConsoleTypes'
  BY <1>1, <1>2, <1>4, <1>6, <1>7 DEF ConsoleTypes
<1>9. ViewPlaced'
  BY <1>1, <1>2, <1>4 DEF ViewPlaced, Idle, MaximumViewTop
<1>10. BackAgrees'
  BY <1>1, <1>2, <1>5, <1>6 DEF BackAgrees
<1>11. Written(console', ghost'.lines)
  BY <1>2, <1>5, <1>6
<1>12. ~ghost'.missed => FrontAgrees(console')
  BY <1>1, <1>2, <1>4, <1>6
<1>13. KeyboardInv'
  BY DEF ConsoleInv, KeyboardInv, HeldIsPressed
<1> QED BY <1>8, <1>9, <1>10, <1>11, <1>12, <1>13 DEF ConsoleInv

\* The view is drawn anew, of a console with another view or another text.
LEMMA RedrawnKeeps ==
    ASSUME ConsoleConstants, ConsoleTypes, NEW c \in ConsoleState, c.line = c.total - 1,
           c.top <= MaximumViewTop(c), c.follows => c.top = MaximumViewTop(c),
           newline.at \in {"settle", "draw"} => ghost'.stale,
           newline.at = "settle" => newline.top = MaximumViewTop(c),
           ~Idle => c.column = 0,
           console' = RenderVisible(c), newline' = newline,
           ghost' \in [lines : Seq(Line), stale : BOOLEAN, missed : BOOLEAN],
           ~ghost'.missed => ~c.suppressed,
           Written(c, ghost'.lines), KeyboardInv'
    PROVE  ConsoleInv'
<1>1. PICK d : d = console'
  OBVIOUS
<1>2. /\ d \in ConsoleState /\ SameText(d, c) /\ d.back = View(c)
      /\ ~c.suppressed => FrontAgrees(d)
  BY <1>1, Rendered
<1>3. View(d) = View(c) /\ MaximumViewTop(d) = MaximumViewTop(c) /\ Written(d, ghost'.lines)
  BY <1>2, SameView DEF SameText
<1>4. ConsoleTypes'
  BY <1>1, <1>2 DEF ConsoleTypes, SameText
<1>5. ViewPlaced'
  BY <1>1, <1>2, <1>3 DEF ViewPlaced, Idle, SameText
<1>6. BackAgrees'
  BY <1>1, <1>2, <1>3 DEF BackAgrees
<1> QED BY <1>1, <1>2, <1>3, <1>4, <1>5, <1>6 DEF ConsoleInv

LEMMA StoreAfterNewlineKeeps == ASSUME ConsoleConstants, ConsoleInv, StoreAfterNewline PROVE ConsoleInv'
<1>1. /\ newline.at = "store" /\ console.column = 0 /\ newline.char \in Chars \cup {"none"}
      /\ console \in ConsoleState
      /\ ghost \in [lines : Seq(Line), stale : BOOLEAN, missed : BOOLEAN]
  BY DEF ConsoleInv, ConsoleTypes, ViewPlaced, StoreAfterNewline, Idle
<1>2. newline' = NoNewline /\ NoNewline.at = "none" /\ keyboard' = keyboard /\ pressed' = pressed
  BY DEF StoreAfterNewline, NoNewline
<1>3. CASE newline.char = "none"
  <2>1. console' = console /\ ghost' = ghost
    BY <1>3 DEF StoreAfterNewline
  <2>2. ConsoleTypes'
    BY <1>2, <2>1 DEF ConsoleInv, ConsoleTypes, NoNewline
  <2>3. ViewPlaced' /\ BackAgrees'
    BY <1>1, <1>2, <2>1 DEF ConsoleInv, ViewPlaced, BackAgrees, Idle, MaximumViewTop
  <2> QED BY <1>2, <2>1, <2>2, <2>3 DEF ConsoleInv, KeyboardInv, HeldIsPressed
<1>4. CASE newline.char # "none"
  <2>1. PICK ch \in Chars : ch = newline.char
    BY <1>1, <1>4
  <2>2. /\ console' = StorePrintable(console, ch)
        /\ ghost' = [ghost EXCEPT !.lines = Logged(ghost.lines, ch, console.column),
                                  !.missed = ghost.missed \/ console.suppressed]
    BY <1>1, <1>4, <2>1 DEF StoreAfterNewline
  <2>3. console.column < ShownColumns
    BY <1>1, Shapes
  <2> QED BY <1>1, <1>2, <2>2, <2>3, StoreKeeps
<1> QED BY <1>3, <1>4

LEMMA WriteCharKeeps == ASSUME ConsoleConstants, ConsoleInv, WriteChar PROVE ConsoleInv'
<1>1. Idle /\ keyboard' = keyboard /\ pressed' = pressed
  BY DEF WriteChar, Call
<1>2. PICK ch \in Chars :
        IF console.column >= ShownColumns THEN Advance(ch)
        ELSE /\ console' = StorePrintable(console, ch)
             /\ ghost' = [ghost EXCEPT !.lines = Logged(@, ch, console.column),
                                       !.missed = @ \/ console.suppressed]
             /\ UNCHANGED newline
  BY DEF WriteChar
<1>3. CASE console.column >= ShownColumns
  BY <1>1, <1>2, <1>3, AdvanceKeeps
<1>4. CASE ~(console.column >= ShownColumns)
  <2>1. console.column < ShownColumns
    <3>1. console.column \in 0..ShownColumns /\ ShownColumns \in Nat
      BY ConsoleFields, Shapes DEF ConsoleInv, ConsoleTypes
    <3> QED BY <1>4, <3>1
  <2>2. ghost \in [lines : Seq(Line), stale : BOOLEAN, missed : BOOLEAN]
    BY DEF ConsoleInv, ConsoleTypes
  <2>3. /\ console' = StorePrintable(console, ch) /\ newline' = newline
        /\ ghost' = [ghost EXCEPT !.lines = Logged(ghost.lines, ch, console.column),
                                  !.missed = ghost.missed \/ console.suppressed]
    BY <1>2, <1>4, <2>2
  <2> QED BY <1>1, <2>1, <2>3, StoreKeeps DEF Idle
<1> QED BY <1>3, <1>4

LEMMA WriteNewLineKeeps == ASSUME ConsoleConstants, ConsoleInv, WriteNewLine PROVE ConsoleInv'
BY AdvanceKeeps DEF WriteNewLine, Call

\* Only the cursor, the mode or the keyboard changes.
LEMMA MinorKeeps ==
    ASSUME ConsoleConstants, ConsoleInv, newline' = newline, ghost' = ghost,
           NEW c \in ConsoleState, console' = c, c.cells = console.cells, c.line = console.line,
           c.total = console.total, c.top = console.top,
           c.back = console.back, c.front = console.front, c.dirty = console.dirty,
           newline.at # "settle" /\ c.follows => c.top = MaximumViewTop(c),
           ~Idle => c.column = 0, KeyboardInv'
    PROVE  ConsoleInv'
<1>1. MaximumViewTop(c) = MaximumViewTop(console) /\ View(c) = View(console)
  BY DEF MaximumViewTop, View
<1>2. ConsoleTypes'
  BY DEF ConsoleInv, ConsoleTypes
<1>3. ViewPlaced'
  BY <1>1 DEF ConsoleInv, ViewPlaced, Idle
<1>4. BackAgrees'
  <2>1. console \in ConsoleState
    BY DEF ConsoleInv, ConsoleTypes
  <2> DEFINE a == [console EXCEPT !.top = newline.top]
             b == [c EXCEPT !.top = newline.top]
  <2>2. a.cells = b.cells /\ a.total = b.total /\ a.top = b.top /\ a.back = b.back
    BY <2>1 DEF ConsoleState
  <2>3. \A how : (Drawable(how, a) => Drawable(how, b)) /\ (Drawable(how, console) => Drawable(how, c))
    BY <2>2, SameView
  <2> QED BY <1>1, <2>3 DEF ConsoleInv, BackAgrees
<1>5. Written(console', ghost'.lines)
  BY DEF ConsoleInv, Written, TextOf
<1>6. ~ghost'.missed => FrontAgrees(console')
  BY DEF ConsoleInv, FrontAgrees
<1> QED BY <1>2, <1>3, <1>4, <1>5, <1>6 DEF ConsoleInv

LEMMA WriteReturnKeeps == ASSUME ConsoleConstants, ConsoleInv, WriteReturn PROVE ConsoleInv'
<1>1. console \in ConsoleState /\ 0 \in 0..ShownColumns /\ Idle
  BY Shapes DEF ConsoleInv, ConsoleTypes, WriteReturn, Call
<1>2. PICK c : c = [console EXCEPT !.column = 0]
  OBVIOUS
<1>3. /\ c \in ConsoleState /\ c.cells = console.cells /\ c.line = console.line /\ c.total = console.total
      /\ c.top = console.top /\ c.back = console.back /\ c.front = console.front /\ c.dirty = console.dirty
      /\ c.follows = console.follows
  BY <1>1, <1>2 DEF ConsoleState
<1>4. console' = c /\ newline' = newline /\ ghost' = ghost /\ KeyboardInv'
  BY <1>2 DEF WriteReturn, ConsoleInv, KeyboardInv, HeldIsPressed
<1>5. c.follows => c.top = MaximumViewTop(c)
  BY <1>1, <1>3 DEF ConsoleInv, ViewPlaced, Idle, MaximumViewTop
<1> QED BY <1>1, <1>3, <1>4, <1>5, MinorKeeps

LEMMA DeferPresentKeeps == ASSUME ConsoleConstants, ConsoleInv, DeferPresent PROVE ConsoleInv'
<1>1. console \in ConsoleState /\ Idle
  BY DEF ConsoleInv, ConsoleTypes, DeferPresent, Call
<1>2. PICK c : c = [console EXCEPT !.suppressed = ~console.suppressed]
  OBVIOUS
<1>3. /\ c \in ConsoleState /\ c.cells = console.cells /\ c.line = console.line /\ c.total = console.total
      /\ c.top = console.top /\ c.back = console.back /\ c.front = console.front /\ c.dirty = console.dirty
      /\ c.follows = console.follows
  BY <1>1, <1>2 DEF ConsoleState
<1>4. console' = c /\ newline' = newline /\ ghost' = ghost /\ KeyboardInv'
  BY <1>1, <1>2 DEF DeferPresent, ConsoleInv, KeyboardInv, HeldIsPressed
<1>5. c.follows => c.top = MaximumViewTop(c)
  BY <1>1, <1>3 DEF ConsoleInv, ViewPlaced, Idle, MaximumViewTop
<1> QED BY <1>1, <1>3, <1>4, <1>5, MinorKeeps

LEMMA ClearScreenKeeps == ASSUME ConsoleConstants, ConsoleInv, ClearScreen PROVE ConsoleInv'
<1>1. /\ ConsoleTypes /\ console \in ConsoleState /\ Idle /\ console.suppressed \in BOOLEAN
  BY ConsoleFields DEF ConsoleInv, ConsoleTypes, ClearScreen, Call
<1>2. PICK c : c = Cleared(console)
  OBVIOUS
<1>3. /\ Blank \in Line /\ 0 \in 0..(ScrollbackRows - 1) /\ 0 \in 0..ShownColumns /\ 1 \in 1..ScrollbackRows
      /\ [r \in 0..(ScrollbackRows - 1) |-> Blank] \in [0..(ScrollbackRows - 1) -> Line]
  BY Shapes DEF Blank, Line, Cell
<1>4. /\ c \in ConsoleState /\ c.cells = [r \in 0..(ScrollbackRows - 1) |-> Blank] /\ c.line = 0
      /\ c.total = 1 /\ c.top = 0 /\ c.follows /\ c.suppressed = console.suppressed
  BY <1>1, <1>2, <1>3 DEF Cleared, ConsoleState, Line
<1>5. MaximumViewTop(c) = 0
  BY <1>4, LastTop, Shapes
<1>6. /\ console' = RenderVisible(c) /\ newline' = newline /\ keyboard' = keyboard /\ pressed' = pressed
      /\ ghost' = [lines |-> <<Blank>>, stale |-> FALSE, missed |-> console.suppressed]
  BY <1>2 DEF ClearScreen
<1>7. <<Blank>> \in Seq(Line) /\ Len(<<Blank>>) = 1 /\ <<Blank>>[1] = Blank
  BY <1>3
<1>8. Written(c, ghost'.lines)
  <2>1. \A r \in 0..(c.total - 1) : r = 0
    BY <1>4
  <2>2. c.cells[0] = Blank
    BY <1>3, <1>4
  <2> QED BY <1>4, <1>6, <1>7, <2>1, <2>2 DEF Written, TextOf
<1>9. ghost' \in [lines : Seq(Line), stale : BOOLEAN, missed : BOOLEAN]
  BY <1>1, <1>6, <1>7
<1>10. KeyboardInv'
  BY <1>6 DEF ConsoleInv, KeyboardInv, HeldIsPressed
<1> QED BY <1>1, <1>4, <1>5, <1>6, <1>8, <1>9, <1>10, RedrawnKeeps DEF Idle

LEMMA ScrollToBottomKeeps == ASSUME ConsoleConstants, ConsoleInv, ScrollToBottom PROVE ConsoleInv'
<1>1. /\ ConsoleTypes /\ console \in ConsoleState /\ Idle /\ console.suppressed \in BOOLEAN
      /\ console.line = console.total - 1 /\ Written(console, ghost.lines)
      /\ ghost \in [lines : Seq(Line), stale : BOOLEAN, missed : BOOLEAN]
  BY ConsoleFields DEF ConsoleInv, ConsoleTypes, ScrollToBottom, Call
<1>2. PICK c : c = [console EXCEPT !.top = MaximumViewTop(console), !.follows = TRUE]
  OBVIOUS
<1>3. MaximumViewTop(console) \in Nat
  BY <1>1, LastTop
<1>4. /\ c \in ConsoleState /\ c.cells = console.cells /\ c.line = console.line
      /\ c.total = console.total /\ c.top = MaximumViewTop(console) /\ c.suppressed = console.suppressed
  BY <1>1, <1>2, <1>3 DEF ConsoleState
<1>5. MaximumViewTop(c) = c.top /\ Written(c, ghost.lines) /\ c.top <= MaximumViewTop(c)
  BY <1>1, <1>3, <1>4 DEF MaximumViewTop, Written, TextOf
<1>6. /\ console' = RenderVisible(c) /\ newline' = newline /\ keyboard' = keyboard /\ pressed' = pressed
      /\ ghost' = [ghost EXCEPT !.stale = FALSE, !.missed = c.suppressed]
  BY <1>2 DEF ScrollToBottom, Redrawn
<1>7. ghost' \in [lines : Seq(Line), stale : BOOLEAN, missed : BOOLEAN] /\ ghost'.lines = ghost.lines
      /\ ghost'.missed = c.suppressed
  BY <1>1, <1>4, <1>6
<1>8. KeyboardInv'
  BY <1>6 DEF ConsoleInv, KeyboardInv, HeldIsPressed
<1> QED BY <1>1, <1>4, <1>5, <1>6, <1>7, <1>8, RedrawnKeeps DEF Idle

LEMMA ScrolledTop ==
    ASSUME NEW top \in Nat, NEW max \in Nat, NEW n \in Nat, top <= max
    PROVE  /\ (IF n > top THEN 0 ELSE top - n) \in Nat
           /\ (IF n > top THEN 0 ELSE top - n) <= max
           /\ (IF n > max - top THEN max ELSE top + n) \in Nat
           /\ (IF n > max - top THEN max ELSE top + n) <= max
           /\ (IF n > max - top THEN max ELSE top + n) >= max =>
                  (IF n > max - top THEN max ELSE top + n) = max
OBVIOUS

LEMMA ScrollKeeps ==
    ASSUME ConsoleConstants, ConsoleInv, NEW key \in Keys, PerformScroll(key), newline' = newline, KeyboardInv'
    PROVE  ConsoleInv'
<1> DEFINE up == key \in {"up", "pageUp"}
           moves == IF up THEN console.top # 0 ELSE console.top < MaximumViewTop(console)
           after == IF up THEN ScrolledUp(console, Amount(key)) ELSE ScrolledDown(console, Amount(key))
<1>1. /\ ConsoleTypes /\ console \in ConsoleState /\ console.suppressed \in BOOLEAN
      /\ console.line = console.total - 1 /\ Written(console, ghost.lines)
      /\ console.top <= MaximumViewTop(console)
      /\ ghost \in [lines : Seq(Line), stale : BOOLEAN, missed : BOOLEAN]
  BY ConsoleFields DEF ConsoleInv, ConsoleTypes, ViewPlaced
<1>2. PICK top \in Nat, max \in Nat, n \in Nat : top = console.top /\ max = MaximumViewTop(console) /\ n = Amount(key)
  <2>1. console.top \in Nat /\ MaximumViewTop(console) \in Nat
    BY <1>1, ConsoleFields, LastTop
  <2>2. Amount(key) \in Nat
    BY Shapes DEF Amount, Paged
  <2> QED BY <2>1, <2>2
<1>3. IF moves
      THEN /\ console' = RenderVisible(after)
           /\ ghost' = [ghost EXCEPT !.stale = newline.at \in {"settle", "draw"},
                                     !.missed = console.suppressed]
      ELSE /\ console' = IF up THEN console ELSE [console EXCEPT !.follows = TRUE]
           /\ ghost' = ghost
  BY DEF PerformScroll
<1> HIDE DEF up
<1>4. CASE moves
  <2>1. PICK c : c = after
    OBVIOUS
  <2>2. /\ c \in ConsoleState /\ c.cells = console.cells /\ c.line = console.line /\ c.column = console.column
        /\ c.total = console.total /\ c.suppressed = console.suppressed
        /\ c.top <= max /\ (c.follows => c.top = max)
    <3>1. CASE up
      <4> DEFINE t == IF n > top THEN 0 ELSE top - n
      <4>1. t \in Nat /\ t <= max
        BY <1>1, <1>2, ScrolledTop
      <4>2. c = [console EXCEPT !.top = t, !.follows = FALSE]
        BY <1>2, <2>1, <3>1 DEF ScrolledUp
      <4> HIDE DEF t
      <4> QED BY <1>1, <4>1, <4>2 DEF ConsoleState
    <3>2. CASE ~up
      <4> DEFINE t == IF n > max - top THEN max ELSE top + n
      <4>1. t \in Nat /\ t <= max /\ (t >= max => t = max)
        BY <1>1, <1>2, ScrolledTop
      <4>2. c = [console EXCEPT !.top = t, !.follows = (t >= max)]
        BY <1>2, <2>1, <3>2 DEF ScrolledDown
      <4> HIDE DEF t
      <4>3. (t >= max) \in BOOLEAN
        BY <4>1
      <4> QED BY <1>1, <4>1, <4>2, <4>3 DEF ConsoleState
    <3> QED BY <3>1, <3>2
  <2>3. MaximumViewTop(c) = max /\ Written(c, ghost.lines)
    BY <1>1, <1>2, <2>2 DEF MaximumViewTop, Written, TextOf
  <2>4. /\ console' = RenderVisible(c)
        /\ ghost' = [ghost EXCEPT !.stale = newline.at \in {"settle", "draw"}, !.missed = console.suppressed]
    BY <1>3, <1>4, <2>1
  <2>5. /\ ghost' \in [lines : Seq(Line), stale : BOOLEAN, missed : BOOLEAN] /\ ghost'.lines = ghost.lines
        /\ ghost'.missed = console.suppressed
        /\ newline.at \in {"settle", "draw"} => ghost'.stale
    <3>1. (newline.at \in {"settle", "draw"}) \in BOOLEAN
      OBVIOUS
    <3> QED BY <1>1, <2>4, <3>1
  <2>6. newline.at = "settle" => newline.top = max
    BY <1>2 DEF ConsoleInv, ViewPlaced
  <2>7. ~Idle => c.column = 0
    BY <2>2 DEF ConsoleInv, ViewPlaced
  <2> HIDE DEF moves, after
  <2> QED BY <1>1, <2>2, <2>3, <2>4, <2>5, <2>6, <2>7, RedrawnKeeps
<1>5. CASE ~moves
  <2>1. PICK c : c = IF up THEN console ELSE [console EXCEPT !.follows = TRUE]
    OBVIOUS
  <2>2. /\ c \in ConsoleState /\ c.cells = console.cells /\ c.line = console.line /\ c.total = console.total
        /\ c.top = console.top /\ c.back = console.back /\ c.front = console.front /\ c.dirty = console.dirty
        /\ c.column = console.column
    BY <1>1, <2>1 DEF ConsoleState
  <2>3. newline.at # "settle" /\ c.follows => c.top = MaximumViewTop(c)
    <3>1. MaximumViewTop(c) = max
      BY <1>2, <2>2 DEF MaximumViewTop
    <3>2. CASE up
      BY <1>2, <2>1, <3>1, <3>2 DEF ConsoleInv, ViewPlaced
    <3>3. CASE ~up
      BY <1>1, <1>2, <1>5, <2>2, <3>1, <3>3
    <3> QED BY <3>2, <3>3
  <2>4. console' = c /\ ghost' = ghost
    BY <1>3, <1>5, <2>1
  <2>5. ~Idle => c.column = 0
    BY <2>2 DEF ConsoleInv, ViewPlaced
  <2> HIDE DEF moves, after
  <2> QED BY <2>2, <2>3, <2>4, <2>5, MinorKeeps
<1> QED BY <1>4, <1>5

LEMMA MakeCodeKeeps == ASSUME ConsoleConstants, ConsoleInv, MakeCode PROVE ConsoleInv'
<1>1. PICK key \in Keys :
          /\ pressed' = pressed \cup {<<key, keyboard.prefix>>}
          /\ keyboard' = [held |-> keyboard.held \cup {key}, prefix |-> FALSE]
          /\ PerformScroll(key)
  BY DEF MakeCode
<1>2. keyboard \in [held : SUBSET Keys, prefix : BOOLEAN]
  BY DEF ConsoleInv, KeyboardInv
<1>3. KeyboardInv'
  BY <1>1, <1>2 DEF ConsoleInv, KeyboardInv, HeldIsPressed
<1> QED BY <1>1, <1>3, ScrollKeeps DEF MakeCode

\* Nothing but the keyboard changes.
LEMMA KeyboardKeeps ==
    ASSUME ConsoleConstants, ConsoleInv, UNCHANGED <<console, newline, ghost>>, KeyboardInv'
    PROVE  ConsoleInv'
<1>1. ConsoleTypes' /\ ViewPlaced' /\ BackAgrees' /\ (~ghost'.missed => FrontAgrees(console'))
  BY DEF ConsoleInv, ConsoleTypes, ViewPlaced, BackAgrees, Idle, MaximumViewTop, FrontAgrees
<1> QED BY <1>1 DEF ConsoleInv

LEMMA ExtendedPrefixKeeps == ASSUME ConsoleConstants, ConsoleInv, ExtendedPrefix PROVE ConsoleInv'
<1>1. /\ keyboard' = [keyboard EXCEPT !.prefix = TRUE] /\ UNCHANGED <<console, newline, ghost>>
      /\ pressed' = pressed
  BY DEF ExtendedPrefix
<1>2. KeyboardInv'
  BY <1>1 DEF ConsoleInv, KeyboardInv, HeldIsPressed
<1> QED BY <1>1, <1>2, KeyboardKeeps

LEMMA BreakCodeKeeps == ASSUME ConsoleConstants, ConsoleInv, BreakCode PROVE ConsoleInv'
<1>1. PICK p \in pressed :
          /\ pressed' = pressed \ {p}
          /\ keyboard' = [held |-> keyboard.held \ {p[1]}, prefix |-> FALSE]
  BY DEF BreakCode, Release
<1>2. /\ keyboard \in [held : SUBSET Keys, prefix : BOOLEAN] /\ pressed \subseteq Keys \X BOOLEAN
      /\ HeldIsPressed
  BY DEF ConsoleInv, KeyboardInv
<1>3. KeyboardInv'
  BY <1>1, <1>2 DEF KeyboardInv, HeldIsPressed
<1> QED BY <1>3, KeyboardKeeps DEF BreakCode

LEMMA ConsoleStepInv == ASSUME ConsoleConstants, ConsoleInv, [ConsoleNext]_consoleVars PROVE ConsoleInv'
<1>1. CASE UNCHANGED consoleVars
  <2>1. KeyboardInv'
    BY <1>1 DEF consoleVars, ConsoleInv, KeyboardInv, HeldIsPressed
  <2> QED BY <1>1, <2>1, KeyboardKeeps DEF consoleVars
<1>2. CASE ConsoleNext
  BY <1>2, WriteCharKeeps, WriteNewLineKeeps, WriteReturnKeeps, ClearScreenKeeps, ScrollToBottomKeeps,
     DeferPresentKeeps, SettleKeeps, DrawKeeps, StoreAfterNewlineKeeps, ExtendedPrefixKeeps,
     MakeCodeKeeps, BreakCodeKeeps DEF ConsoleNext
<1> QED BY <1>1, <1>2

\* Text, view, back buffer and screen agree at every step, whatever the sizes of
\* the scrollback and of the screen, the characters and the keys, although the
\* keyboard interrupt scrolls between the steps of a newline
\* (KernelConsoleScrolling.c, KernelConsoleDrawing.c, KernelKeyboard.c).
THEOREM ConsoleAlwaysSound == ASSUME ConsoleConstants PROVE ConsoleSpec => []ConsoleSound
<1>1. ConsoleInit => ConsoleInv
  BY ConsoleInitInv
<1>2. ConsoleInv /\ [ConsoleNext]_consoleVars => ConsoleInv'
  BY ConsoleStepInv
<1>3. ConsoleInv => ConsoleSound
  BY ConsoleInvSound
<1> QED BY <1>1, <1>2, <1>3, PTL DEF ConsoleSpec

-----------------------------------------------------------------------------
(* Interrupt dispatch: counting.                                           *)

IrqVectors == {v \in Vectors : IsIrqVector(v)}

LEMMA VectorsAre ==
    ASSUME InterruptsConstants
    PROVE  /\ IsFiniteSet(Vectors) /\ IrqVectors \subseteq Vectors
           /\ \A v \in Vectors : v \in Nat /\ (v >= IrqBase \/ v = PageFault)
           /\ \A i \in Irqs : i \in Nat /\ i < 16 /\ IrqBase + i \in Vectors
           /\ {PageFault, LinuxVector, TimerVector, SpuriousApic, IrqBase + SpuriousIrq} \subseteq Vectors
<1>1. Vectors \subseteq 0..255
  BY DEF InterruptsConstants, Vectors, PageFault, LinuxVector, TimerVector, SpuriousApic, IrqBase, SpuriousIrq
<1>2. IsFiniteSet(Vectors)
  <2>0. 0 \in Int /\ 255 \in Int
    OBVIOUS
  <2>1. IsFiniteSet(0..255)
    BY <2>0, FS_Interval
  <2> QED BY <1>1, <2>1, FS_Subset
<1> QED BY <1>1, <1>2 DEF InterruptsConstants, Vectors, IrqVectors, PageFault, LinuxVector, TimerVector,
           SpuriousApic, IrqBase, SpuriousIrq

\* Dispatched for the counters h.
Times(h, vs) == {x \in vs \X (1..MaxInterrupts) : x[2] <= h[x[1]]}

LEMMA TimesFinite ==
    ASSUME InterruptsConstants, NEW h, NEW vs \in SUBSET Vectors
    PROVE  IsFiniteSet(Times(h, vs)) /\ Cardinality(Times(h, vs)) \in Nat
<1>0. IsFiniteSet(Vectors) /\ MaxInterrupts \in Int
  BY VectorsAre DEF InterruptsConstants
<1>1. IsFiniteSet(vs) /\ IsFiniteSet(1..MaxInterrupts)
  BY <1>0, FS_Subset, FS_Interval
<1>2. IsFiniteSet(vs \X (1..MaxInterrupts))
  BY <1>1, FS_Product
<1>3. Times(h, vs) \subseteq vs \X (1..MaxInterrupts)
  BY DEF Times
<1> QED BY <1>2, <1>3, FS_Subset, FS_CardinalityType

LEMMA OnceMore ==
    ASSUME InterruptsConstants, NEW h \in [Vectors -> Nat], NEW v \in Vectors, h[v] < MaxInterrupts,
           NEW vs \in SUBSET Vectors
    PROVE  Cardinality(Times([h EXCEPT ![v] = @ + 1], vs))
             = Cardinality(Times(h, vs)) + (IF v \in vs THEN 1 ELSE 0)
<1> DEFINE g == [h EXCEPT ![v] = @ + 1]
           x == <<v, h[v] + 1>>
<1>1. h[v] \in Nat /\ MaxInterrupts \in Nat /\ h[v] + 1 \in 1..MaxInterrupts
  BY DEF InterruptsConstants
<1>2. CASE v \notin vs
  <2>1. Times(g, vs) = Times(h, vs)
    BY <1>2 DEF Times
  <2> QED BY <1>2, <2>1, TimesFinite
<1>3. CASE v \in vs
  <2>1. x \in Times(g, vs) /\ x \notin Times(h, vs)
    BY <1>1, <1>3 DEF Times
  <2>2. ASSUME NEW w \in vs, NEW n \in 1..MaxInterrupts
        PROVE  <<w, n>> \in Times(g, vs) <=> <<w, n>> \in Times(h, vs) \cup {x}
    <3>1. n \in Nat /\ h[w] \in Nat
      OBVIOUS
    <3>2. <<w, n>> \in Times(h, vs) <=> n <= h[w]
      BY DEF Times
    <3>3. <<w, n>> \in Times(g, vs) <=> n <= g[w]
      BY DEF Times
    <3>4. g[w] = IF w = v THEN h[w] + 1 ELSE h[w]
      OBVIOUS
    <3>5. <<w, n>> = x <=> w = v /\ n = h[w] + 1
      OBVIOUS
    <3> QED BY <3>1, <3>2, <3>3, <3>4, <3>5
  <2>3. Times(g, vs) = Times(h, vs) \cup {x}
    <3>1. Times(g, vs) \subseteq vs \X (1..MaxInterrupts) /\ Times(h, vs) \cup {x} \subseteq vs \X (1..MaxInterrupts)
      BY <1>1, <1>3 DEF Times
    <3>2. ASSUME NEW y \in vs \X (1..MaxInterrupts)
          PROVE  y \in Times(g, vs) <=> y \in Times(h, vs) \cup {x}
      <4>1. PICK w \in vs, n \in 1..MaxInterrupts : y = <<w, n>>
        OBVIOUS
      <4> HIDE DEF g, x
      <4> QED BY <2>2, <4>1
    <3> HIDE DEF g, x
    <3> QED BY <3>1, <3>2
  <2> HIDE DEF g, x
  <2> QED BY <1>3, <2>1, <2>3, TimesFinite, FS_AddElement DEF g
<1> QED BY <1>2, <1>3

LEMMA NeverDispatched ==
    ASSUME InterruptsConstants, NEW vs \in SUBSET Vectors
    PROVE  Cardinality(Times([v \in Vectors |-> 0], vs)) = 0
<1>1. Times([v \in Vectors |-> 0], vs) = {}
  BY DEF Times, InterruptsConstants
<1> QED BY <1>1, FS_EmptySet

-----------------------------------------------------------------------------
(* Interrupt dispatch: the invariant.                                      *)

Frame == [vector : Vectors, if : BOOLEAN]

CoreRecord == [if : BOOLEAN, frames : Seq(Frame), halted : BOOLEAN]

PicRecord == [irr : SUBSET Irqs, isr : SUBSET Irqs, imr : SUBSET Irqs, pit : BOOLEAN, state : PicState]

ApicRecord ==
    [irr : SUBSET {TimerVector}, isr : SUBSET {TimerVector}, armed : BOOLEAN, initialized : BOOLEAN]

DispatchTypes ==
    /\ core \in CoreRecord /\ pic \in PicRecord /\ apic \in ApicRecord
    /\ ints \in InterruptState /\ hits \in [Vectors -> Nat]

\* Interrupts are off in a handler: at most one is being handled, and in its
\* handler at most one page fault.
Nested ==
    /\ core.if => core.frames = <<>>
    /\ Len(core.frames) \in 0..2
    /\ Len(core.frames) = 2 => /\ core.frames[1].vector >= IrqBase
                               /\ core.frames[2] = [vector |-> PageFault, if |-> FALSE]

\* What is in service is the interrupt being handled, and the cascade for it.
InService ==
    /\ pic.isr # {} => /\ core.frames # <<>> /\ IsIrqVector(core.frames[1].vector)
                       /\ \E i \in Irqs : /\ core.frames[1].vector = IrqBase + i
                                          /\ pic.isr = {i} \cup (IF i >= 8 THEN {2} ELSE {})
    /\ apic.isr # {} => core.frames # <<>> /\ core.frames[1].vector = TimerVector
    /\ apic.armed \/ apic.irr # {} \/ apic.isr # {} => apic.initialized

\* A PIC interrupt that is being handled and not yet ended.
Open == IF core.frames # <<>> /\ IsIrqVector(core.frames[1].vector) THEN 1 ELSE 0

BooksOf(s) ==
    /\ s.total = s.exceptions + s.hardware /\ s.eoi = s.picEoi + s.apicEoi
    /\ s.account.total = s.total /\ s.account.exceptions = s.exceptions
    /\ s.account.hardware = s.hardware /\ s.account.eoi = s.eoi
    /\ s.registered = Cardinality(s.handlers)

Counting ==
    /\ BooksOf(ints) /\ ints.nesting = Len(core.frames)
    /\ ints.total <= MaxInterrupts /\ \A v \in Vectors : hits[v] <= ints.total
    /\ ints.total = Cardinality(Times(hits, Vectors))
    /\ ints.picEoi + Open = Cardinality(Times(hits, IrqVectors))

\* The inductive invariant.
DispatchInv == DispatchTypes /\ Nested /\ InService /\ Counting /\ PicStateTruthful

LEMMA ActiveIsOpen ==
    ASSUME InterruptsConstants, DispatchTypes, Nested
    PROVE  ActiveIrqs = Open
<1> DEFINE S == {i \in DOMAIN core.frames : IsIrqVector(core.frames[i].vector)}
<1>1. core.frames \in Seq(Frame) /\ Len(core.frames) \in 0..2 /\ DOMAIN core.frames = 1..Len(core.frames)
      /\ (core.frames = <<>> <=> Len(core.frames) = 0)
  <2>1. core.frames \in Seq(Frame)
    BY DEF DispatchTypes, CoreRecord
  <2>2. Len(core.frames) \in Nat /\ DOMAIN core.frames = 1..Len(core.frames)
        /\ (core.frames = <<>> <=> Len(core.frames) = 0)
    BY <2>1
  <2> QED BY <2>1, <2>2 DEF Nested
<1>2. ~IsIrqVector(PageFault)
  BY DEF IsIrqVector, PageFault, IrqBase, IrqLimit
<1>3. S = IF core.frames # <<>> /\ IsIrqVector(core.frames[1].vector) THEN {1} ELSE {}
  <2>1. Len(core.frames) = 2 => core.frames[2].vector = PageFault
    BY DEF Nested
  <2>2. \A i \in S : i = 1
    BY <1>1, <1>2, <2>1
  <2> QED BY <1>1, <2>2
<1> QED BY <1>3, FS_EmptySet, FS_Singleton DEF ActiveIrqs, Open

LEMMA DispatchInvSound == ASSUME InterruptsConstants, DispatchInv PROVE InterruptsSound
<1>1. ActiveIrqs = Open
  BY ActiveIsOpen DEF DispatchInv
<1>2. DispatchTypeOK
  <2>1. \A v \in Vectors : hits[v] \in 0..MaxInterrupts
    <3>1. \A v \in Vectors : hits[v] \in Nat /\ hits[v] <= ints.total
      BY DEF DispatchInv, DispatchTypes, Counting
    <3>2. ints.total \in Nat /\ ints.total <= MaxInterrupts /\ MaxInterrupts \in Nat
      BY DEF DispatchInv, DispatchTypes, Counting, InterruptState, InterruptsConstants
    <3> QED BY <3>1, <3>2
  <2> QED BY <2>1 DEF DispatchInv, DispatchTypes, Counting, BooksOf, DispatchTypeOK, PicRecord
<1>3. IdleIsAcknowledged
  BY DEF DispatchInv, InService, IdleIsAcknowledged
<1>4. AccountsAgree
  BY <1>1 DEF DispatchInv, Counting, BooksOf, AccountsAgree, Dispatched, Times, IrqVectors
<1> QED BY <1>2, <1>3, <1>4 DEF DispatchInv, InterruptsSound

LEMMA DispatchInitInv == ASSUME InterruptsConstants, DispatchInit PROVE DispatchInv
<1>1. PICK masked \in {{}, Irqs} :
         pic = [irr |-> {}, isr |-> {}, imr |-> masked, pit |-> FALSE,
                state |-> [initialized |-> FALSE, disabled |-> FALSE, current |-> {}]]
  BY DEF DispatchInit
<1>2. /\ core = [if |-> FALSE, frames |-> <<>>, halted |-> FALSE]
      /\ apic = [irr |-> {}, isr |-> {}, armed |-> FALSE, initialized |-> FALSE]
      /\ ints = [Clear EXCEPT !.initialized = FALSE] /\ hits = [v \in Vectors |-> 0]
  BY DEF DispatchInit
<1>3. DispatchTypes
  <2>1. ints \in InterruptState
    BY <1>2 DEF InterruptState, Clear
  <2>2. pic \in PicRecord
    BY <1>1 DEF PicState, PicRecord
  <2>3. core \in CoreRecord
    BY <1>2 DEF CoreRecord
  <2>4. hits \in [Vectors -> Nat]
    BY <1>2
  <2> QED BY <1>2, <2>1, <2>2, <2>3, <2>4 DEF DispatchTypes, ApicRecord
<1>4. Nested /\ InService /\ PicStateTruthful
  BY <1>1, <1>2 DEF Nested, InService, PicStateTruthful
<1>5. Counting
  <2>1. Cardinality(Times(hits, Vectors)) = 0 /\ Cardinality(Times(hits, IrqVectors)) = 0
    BY <1>2, NeverDispatched, VectorsAre
  <2>2. Open = 0 /\ Len(core.frames) = 0
    BY <1>2 DEF Open
  <2>3. BooksOf(ints) /\ ints.total = 0 /\ ints.picEoi = 0 /\ ints.nesting = 0
    BY <1>2, FS_EmptySet DEF BooksOf, Clear
  <2> QED BY <1>2, <2>1, <2>2, <2>3 DEF Counting, InterruptsConstants
<1> QED BY <1>3, <1>4, <1>5 DEF DispatchInv

-----------------------------------------------------------------------------
(* Interrupt dispatch: entering a handler.                                 *)

AccountRecord == [total : Nat, exceptions : Nat, hardware : Nat, eoi : Nat]

SetAccount(a, x, y, z) == [a EXCEPT !.total = x, !.exceptions = y, !.hardware = z]

SetBooks(s, n, m, x, h, a) ==
    [s EXCEPT !.nesting = n, !.total = m, !.exceptions = x, !.hardware = h, !.account = a]

\* What Enter does to the state, for an exception (e = 1) and for any other vector.
BookEntry(s, e) ==
    [s EXCEPT !.nesting = @ + 1, !.total = @ + 1,
              !.exceptions = @ + e, !.hardware = @ + (1 - e), !.account.total = @ + 1,
              !.account.exceptions = @ + e, !.account.hardware = @ + (1 - e)]

LEMMA BookEntryIs ==
    ASSUME NEW s \in InterruptState, NEW e
    PROVE  BookEntry(s, e) = SetBooks(s, s.nesting + 1, s.total + 1, s.exceptions + e, s.hardware + (1 - e),
                                      SetAccount(s.account, s.account.total + 1, s.account.exceptions + e,
                                                 s.account.hardware + (1 - e)))
BY DEF BookEntry, SetBooks, SetAccount, InterruptState

LEMMA Booked ==
    ASSUME NEW s \in InterruptState, BooksOf(s), NEW e \in 0..1, NEW t, t = BookEntry(s, e)
    PROVE  /\ t \in InterruptState /\ BooksOf(t)
           /\ t.nesting = s.nesting + 1 /\ t.total = s.total + 1 /\ t.picEoi = s.picEoi
<1>1. /\ s.nesting \in Nat /\ s.total \in Nat /\ s.exceptions \in Nat /\ s.hardware \in Nat
      /\ s.account \in AccountRecord
  BY DEF InterruptState, AccountRecord
<1>2. /\ s.account.total = s.total /\ s.account.exceptions = s.exceptions
      /\ s.account.hardware = s.hardware
  BY DEF BooksOf
<1>3. PICK n \in Nat, m \in Nat, x \in Nat, h \in Nat :
        n = s.nesting + 1 /\ m = s.total + 1 /\ x = s.exceptions + e /\ h = s.hardware + (1 - e)
  <2>1. \A k \in Nat : k + 1 \in Nat /\ k + e \in Nat /\ k + (1 - e) \in Nat
    OBVIOUS
  <2> QED BY <1>1, <2>1
<1>4. m = x + h
  BY <1>1, <1>3 DEF BooksOf
<1>5. PICK c \in AccountRecord : c = s.account
  BY <1>1
<1>6. PICK a : a = SetAccount(c, m, x, h)
  OBVIOUS
<1>7. /\ a \in AccountRecord /\ a.total = m /\ a.exceptions = x /\ a.hardware = h
      /\ a.eoi = s.account.eoi
  <2>1. a \in AccountRecord
    BY <1>6 DEF SetAccount, AccountRecord
  <2>2. a.total = m /\ a.exceptions = x /\ a.hardware = h /\ a.eoi = c.eoi
    BY <1>6 DEF SetAccount, AccountRecord
  <2> QED BY <1>5, <2>1, <2>2
<1>8. t = SetBooks(s, n, m, x, h, a)
  BY <1>2, <1>3, <1>5, <1>6, BookEntryIs
<1>9. /\ t \in InterruptState
      /\ t.nesting = n /\ t.total = m /\ t.exceptions = x /\ t.hardware = h
      /\ t.picEoi = s.picEoi /\ t.apicEoi = s.apicEoi /\ t.eoi = s.eoi
      /\ t.registered = s.registered /\ t.handlers = s.handlers /\ t.account = a
  <2>1. InterruptState =
          [initialized : BOOLEAN, handlers : SUBSET Vectors, registered : Nat, nesting : Nat,
           total : Nat, exceptions : Nat, hardware : Nat, picEoi : Nat, apicEoi : Nat, eoi : Nat,
           account : AccountRecord]
    BY DEF InterruptState, AccountRecord
  <2> QED BY <1>7, <1>8, <2>1 DEF SetBooks
<1>10. BooksOf(t)
  BY <1>4, <1>7, <1>9 DEF BooksOf
<1> QED BY <1>3, <1>9, <1>10

LEMMA EnterKeeps ==
    ASSUME InterruptsConstants, DispatchInv, NEW v \in Vectors, NEW if \in BOOLEAN,
           ints.total < MaxInterrupts, Enter(v, if),
           \/ core.frames = <<>>
           \/ /\ Len(core.frames) = 1 /\ core.frames[1].vector >= IrqBase
              /\ v = PageFault /\ if = FALSE
    PROVE  /\ core' \in CoreRecord
           /\ ints' \in InterruptState /\ hits' \in [Vectors -> Nat]
           /\ core'.frames = Append(core.frames, [vector |-> v, if |-> if])
           /\ Nested' /\ Counting'
<1> DEFINE fr == [vector |-> v, if |-> if]
           e == IF v < IrqBase THEN 1 ELSE 0
<1>0. fr \in Frame /\ v \in Nat
  BY VectorsAre DEF Frame
<1>1. /\ core \in CoreRecord
      /\ ints \in InterruptState /\ hits \in [Vectors -> Nat] /\ BooksOf(ints)
  BY DEF DispatchInv, DispatchTypes, Counting
<1>2. PICK n \in Nat : n = ints.total
  BY <1>1 DEF InterruptState
<1>3. core' = [core EXCEPT !.if = FALSE, !.frames = Append(core.frames, fr)]
  BY <1>1 DEF Enter
<1>4. core' \in CoreRecord /\ core'.if = FALSE
      /\ core'.frames = Append(core.frames, fr)
  <2>1. Append(core.frames, fr) \in Seq(Frame)
    BY <1>0, <1>1 DEF CoreRecord
  <2> QED BY <1>1, <1>3, <2>1 DEF CoreRecord
<1>5. hits' = [hits EXCEPT ![v] = @ + 1] /\ hits' \in [Vectors -> Nat]
  BY <1>1 DEF Enter
<1>6. /\ ints' \in InterruptState /\ BooksOf(ints')
      /\ ints'.nesting = ints.nesting + 1 /\ ints'.total = n + 1 /\ ints'.picEoi = ints.picEoi
  <2>1. e \in 0..1 /\ (IF (v < IrqBase) = TRUE THEN 1 ELSE 0) = e
        /\ (IF (v < IrqBase) = FALSE THEN 1 ELSE 0) = 1 - e
    BY <1>0 DEF IrqBase
  <2>2. ints' = BookEntry(ints, e)
    BY <2>1 DEF Enter, BookEntry
  <2> HIDE DEF e
  <2>3. PICK c \in 0..1 : c = e
    BY <2>1
  <2>4. /\ ints' \in InterruptState /\ BooksOf(ints')
        /\ ints'.nesting = ints.nesting + 1 /\ ints'.total = ints.total + 1 /\ ints'.picEoi = ints.picEoi
    BY <1>1, <2>2, <2>3, Booked
  <2> QED BY <1>2, <2>4
<1>7. Nested' /\ Len(core'.frames) = Len(core.frames) + 1
      /\ core'.frames[1] = IF core.frames = <<>> THEN fr ELSE core.frames[1]
  <2>1. core.frames \in Seq(Frame)
    BY <1>1 DEF CoreRecord
  <2>2. CASE core.frames = <<>>
    <3>1. core'.frames = <<fr>>
      BY <1>4, <2>2
    <3> QED BY <1>4, <2>2, <3>1 DEF Nested
  <2>3. CASE /\ Len(core.frames) = 1 /\ core.frames[1].vector >= IrqBase
             /\ v = PageFault /\ if = FALSE
    <3>1. /\ core'.frames[1] = core.frames[1] /\ core'.frames[2] = fr /\ Len(core'.frames) = 2
          /\ core.frames # <<>>
      BY <1>4, <2>1, <2>3
    <3>2. core'.frames # <<>>
      BY <1>4, <2>1
    <3>3. core'.frames[1].vector >= IrqBase /\ core'.frames[2] = [vector |-> PageFault, if |-> FALSE]
      BY <2>3, <3>1
    <3>4. Nested'
      BY <1>4, <3>1, <3>3 DEF Nested
    <3> QED BY <2>3, <3>1, <3>4
  <2> QED BY <2>2, <2>3
<1>8. Counting'
  <2>1. n < MaxInterrupts /\ n + 1 <= MaxInterrupts /\ MaxInterrupts \in Nat
    BY <1>2 DEF InterruptsConstants
  <2>2. \A w \in Vectors : hits[w] \in Nat /\ hits[w] <= n
    BY <1>1, <1>2 DEF DispatchInv, Counting
  <2>3. \A w \in Vectors : hits'[w] <= n + 1
    BY <1>5, <1>1, <2>2
  <2>4. hits[v] < MaxInterrupts
    BY <2>1, <2>2
  <2>5. IrqVectors \in SUBSET Vectors /\ Vectors \in SUBSET Vectors
    BY VectorsAre
  <2>6. Cardinality(Times(hits', Vectors)) = Cardinality(Times(hits, Vectors)) + 1
    BY <1>1, <1>5, <2>4, <2>5, OnceMore
  <2>7. Cardinality(Times(hits', IrqVectors))
          = Cardinality(Times(hits, IrqVectors)) + (IF v \in IrqVectors THEN 1 ELSE 0)
    BY <1>1, <1>5, <2>4, <2>5, OnceMore
  <2>8. Open' = Open + (IF v \in IrqVectors THEN 1 ELSE 0)
    <3>1. core'.frames # <<>>
      BY <1>1, <1>4
    <3>2. CASE core.frames = <<>>
      <4>1. core'.frames[1].vector = v /\ Open = 0
        BY <1>7, <3>2 DEF Open
      <4> QED BY <3>1, <4>1 DEF Open, IrqVectors
    <3>3. CASE Len(core.frames) = 1 /\ v = PageFault
      <4>0. core.frames \in Seq(Frame)
        BY <1>1 DEF CoreRecord
      <4>1. core.frames # <<>> /\ core'.frames[1] = core.frames[1]
        BY <1>7, <3>3, <4>0
      <4>2. v \notin IrqVectors
        BY <3>3 DEF IrqVectors, IsIrqVector, PageFault, IrqBase
      <4> QED BY <3>1, <4>1, <4>2 DEF Open
    <3> QED BY <3>2, <3>3
  <2>9. /\ ints.picEoi \in Nat /\ Open \in Nat /\ ints.nesting = Len(core.frames)
        /\ Len(core.frames) \in Nat /\ n = Cardinality(Times(hits, Vectors))
        /\ ints.picEoi + Open = Cardinality(Times(hits, IrqVectors))
    BY <1>1, <1>2 DEF DispatchInv, Counting, InterruptState, Open
  <2>10. ints'.picEoi + Open' = Cardinality(Times(hits', IrqVectors))
    BY <1>6, <2>7, <2>8, <2>9
  <2>11. ints'.nesting = Len(core'.frames) /\ ints'.total = Cardinality(Times(hits', Vectors))
    BY <1>6, <1>7, <2>6, <2>9
  <2> QED BY <1>6, <2>1, <2>3, <2>10, <2>11 DEF Counting, Times, IrqVectors
<1> QED BY <1>4, <1>5, <1>6, <1>7, <1>8

-----------------------------------------------------------------------------
(* Interrupt dispatch: an interrupt is taken.                              *)

LEMMA Interruptible ==
    ASSUME InterruptsConstants, DispatchInv, CanInterrupt
    PROVE  core.frames = <<>> /\ pic.isr = {} /\ apic.isr = {} /\ ints.total < MaxInterrupts
BY DEF CanInterrupt, DispatchInv, Nested, InService

LEMMA LeastInput ==
    ASSUME NEW S, S # {}, S \subseteq 0..15
    PROVE  Min(S) \in S
<1>1. \E x \in S : \A y \in S : x <= y
  <2> SUFFICES ASSUME \A x \in S : \E y \in S : y < x PROVE FALSE
    OBVIOUS
  <2> DEFINE B(k) == \A x \in S : k <= x
  <2>1. ASSUME NEW k \in 0..15, B(k) PROVE B(k + 1)
    OBVIOUS
  <2>2. B(0)
    OBVIOUS
  <2>3. PICK x \in S : x \in 0..15
    OBVIOUS
  <2>4. ~B(16)
    BY <2>3
  <2> HIDE DEF B
  <2>5. B(0) => B(4)
    <3>1. 0 \in 0..15 /\ 0 + 1 = 1
      OBVIOUS
    <3>2. 1 \in 0..15 /\ 1 + 1 = 2
      OBVIOUS
    <3>3. 2 \in 0..15 /\ 2 + 1 = 3
      OBVIOUS
    <3>4. 3 \in 0..15 /\ 3 + 1 = 4
      OBVIOUS
    <3> QED BY <2>1, <3>1, <3>2, <3>3, <3>4
  <2>6. B(4) => B(8)
    <3>1. 4 \in 0..15 /\ 4 + 1 = 5
      OBVIOUS
    <3>2. 5 \in 0..15 /\ 5 + 1 = 6
      OBVIOUS
    <3>3. 6 \in 0..15 /\ 6 + 1 = 7
      OBVIOUS
    <3>4. 7 \in 0..15 /\ 7 + 1 = 8
      OBVIOUS
    <3> QED BY <2>1, <3>1, <3>2, <3>3, <3>4
  <2>7. B(8) => B(12)
    <3>1. 8 \in 0..15 /\ 8 + 1 = 9
      OBVIOUS
    <3>2. 9 \in 0..15 /\ 9 + 1 = 10
      OBVIOUS
    <3>3. 10 \in 0..15 /\ 10 + 1 = 11
      OBVIOUS
    <3>4. 11 \in 0..15 /\ 11 + 1 = 12
      OBVIOUS
    <3> QED BY <2>1, <3>1, <3>2, <3>3, <3>4
  <2>8. B(12) => B(16)
    <3>1. 12 \in 0..15 /\ 12 + 1 = 13
      OBVIOUS
    <3>2. 13 \in 0..15 /\ 13 + 1 = 14
      OBVIOUS
    <3>3. 14 \in 0..15 /\ 14 + 1 = 15
      OBVIOUS
    <3>4. 15 \in 0..15 /\ 15 + 1 = 16
      OBVIOUS
    <3> QED BY <2>1, <3>1, <3>2, <3>3, <3>4
  <2> QED BY <2>2, <2>4, <2>5, <2>6, <2>7, <2>8
<1> QED BY <1>1 DEF Min

\* The frames after a first interrupt.
LEMMA TakenAlone ==
    ASSUME InterruptsConstants, DispatchInv, CanInterrupt, NEW v \in Vectors, Enter(v, TRUE)
    PROVE  /\ core' \in CoreRecord /\ ints' \in InterruptState /\ hits' \in [Vectors -> Nat]
           /\ core'.frames # <<>> /\ core'.frames[1].vector = v /\ Nested' /\ Counting'
<1>1. core.frames = <<>> /\ ints.total < MaxInterrupts
  BY Interruptible
<1>2. /\ core' \in CoreRecord /\ ints' \in InterruptState /\ hits' \in [Vectors -> Nat]
      /\ core'.frames = Append(core.frames, [vector |-> v, if |-> TRUE])
      /\ Nested' /\ Counting'
  BY <1>1, EnterKeeps
<1>3. core'.frames = <<[vector |-> v, if |-> TRUE]>>
  BY <1>1, <1>2
<1> QED BY <1>2, <1>3

LEMMA PicInterruptKeeps ==
    ASSUME InterruptsConstants, DispatchInv, PicInterrupt
    PROVE  DispatchInv'
<1>1. PICK irq : irq = Min(Offered(pic))
  OBVIOUS
<1>2. /\ CanInterrupt /\ Offered(pic) # {}
      /\ pic' = [pic EXCEPT !.irr = @ \ {irq}, !.isr = @ \cup {irq} \cup (IF irq >= 8 THEN {2} ELSE {})]
      /\ Enter(IrqBase + irq, TRUE) /\ apic' = apic
  BY <1>1 DEF PicInterrupt
<1>3. /\ pic \in PicRecord /\ apic \in ApicRecord /\ pic.isr = {} /\ apic.isr = {} /\ PicStateTruthful
      /\ (apic.armed \/ apic.irr # {} \/ apic.isr # {} => apic.initialized)
  BY <1>2, Interruptible DEF DispatchInv, DispatchTypes, InService
<1>4. irq \in Irqs /\ IrqBase + irq \in Vectors /\ irq \in 0..15 /\ 2 \in Irqs
  <2>1. Offered(pic) \subseteq Irqs
    BY <1>3 DEF Offered, PicRecord
  <2>2. Irqs \subseteq 0..15 /\ 2 \in Irqs
    BY DEF InterruptsConstants
  <2>3. irq \in Offered(pic)
    BY <1>1, <1>2, <2>1, <2>2, LeastInput
  <2> QED BY <2>1, <2>2, <2>3, VectorsAre
<1>5. /\ core' \in CoreRecord /\ ints' \in InterruptState /\ hits' \in [Vectors -> Nat]
      /\ core'.frames # <<>> /\ core'.frames[1].vector = IrqBase + irq /\ Nested' /\ Counting'
  BY <1>2, <1>4, TakenAlone
<1>6. /\ pic' \in PicRecord /\ pic'.isr = {irq} \cup (IF irq >= 8 THEN {2} ELSE {})
      /\ pic'.state = pic.state /\ pic'.imr = pic.imr
  BY <1>2, <1>3, <1>4 DEF PicRecord
<1>7. IsIrqVector(IrqBase + irq)
  BY <1>4 DEF IsIrqVector, IrqBase, IrqLimit
<1>8. InService'
  BY <1>2, <1>3, <1>4, <1>5, <1>6, <1>7 DEF InService
<1>9. PicStateTruthful'
  BY <1>3, <1>6 DEF PicStateTruthful
<1> QED BY <1>2, <1>3, <1>5, <1>6, <1>8, <1>9 DEF DispatchInv, DispatchTypes

LEMMA SpuriousInterruptKeeps ==
    ASSUME InterruptsConstants, DispatchInv, SpuriousInterrupt \/ SoftwareInterrupt
    PROVE  DispatchInv'
<1>1. PICK v \in {IrqBase + SpuriousIrq, LinuxVector} : Enter(v, TRUE)
  BY DEF SpuriousInterrupt, SoftwareInterrupt
<1>2. CanInterrupt /\ pic' = pic /\ apic' = apic
  BY DEF SpuriousInterrupt, SoftwareInterrupt
<1>3. v \in Vectors
  BY VectorsAre
<1>4. /\ core' \in CoreRecord /\ ints' \in InterruptState /\ hits' \in [Vectors -> Nat]
      /\ Nested' /\ Counting'
  BY <1>1, <1>2, <1>3, TakenAlone
<1>5. InService'
  BY <1>2, Interruptible DEF DispatchInv, InService
<1> QED BY <1>2, <1>4, <1>5 DEF DispatchInv, DispatchTypes, PicStateTruthful

LEMMA ApicInterruptKeeps ==
    ASSUME InterruptsConstants, DispatchInv, ApicInterrupt
    PROVE  DispatchInv'
<1>1. CanInterrupt /\ pic' = pic
  BY DEF ApicInterrupt
<1>2. /\ apic \in ApicRecord /\ pic.isr = {} /\ apic.isr = {}
      /\ (apic.armed \/ apic.irr # {} \/ apic.isr # {} => apic.initialized)
  BY <1>1, Interruptible DEF DispatchInv, DispatchTypes, InService
<1>3. CASE \E v \in apic.irr : apic' = [apic EXCEPT !.irr = @ \ {v}, !.isr = @ \cup {v}] /\ Enter(v, TRUE)
  <2>1. apic.irr \subseteq {TimerVector}
    BY <1>2 DEF ApicRecord
  <2>2. apic' = [apic EXCEPT !.irr = @ \ {TimerVector}, !.isr = @ \cup {TimerVector}]
        /\ Enter(TimerVector, TRUE) /\ apic.irr # {}
    BY <1>3, <2>1
  <2>3. apic' \in ApicRecord /\ apic'.initialized = apic.initialized
    BY <1>2, <2>2 DEF ApicRecord
  <2>4. TimerVector \in Vectors
    BY VectorsAre
  <2>5. /\ core' \in CoreRecord /\ ints' \in InterruptState /\ hits' \in [Vectors -> Nat]
        /\ core'.frames # <<>> /\ core'.frames[1].vector = TimerVector /\ Nested' /\ Counting'
    BY <1>1, <2>2, <2>4, TakenAlone
  <2>6. InService'
    BY <1>1, <1>2, <2>2, <2>3, <2>5 DEF InService
  <2> QED BY <1>1, <2>3, <2>5, <2>6 DEF DispatchInv, DispatchTypes, PicStateTruthful
<1>4. CASE Enter(SpuriousApic, TRUE) /\ apic' = apic
  <2>1. SpuriousApic \in Vectors
    BY VectorsAre
  <2>2. /\ core' \in CoreRecord /\ ints' \in InterruptState /\ hits' \in [Vectors -> Nat]
        /\ Nested' /\ Counting'
    BY <1>1, <1>4, <2>1, TakenAlone
  <2>3. InService'
    BY <1>1, <1>2, <1>4 DEF InService
  <2> QED BY <1>1, <1>4, <2>2, <2>3 DEF DispatchInv, DispatchTypes, PicStateTruthful
<1> QED BY <1>3, <1>4 DEF ApicInterrupt

LEMMA PageFaultKeeps ==
    ASSUME InterruptsConstants, DispatchInv, PageFaultException
    PROVE  DispatchInv'
<1>1. /\ ints.total < MaxInterrupts /\ Enter(PageFault, core.if) /\ pic' = pic /\ apic' = apic
      /\ \A i \in DOMAIN core.frames : core.frames[i].vector # PageFault
  BY DEF PageFaultException
<1>2. core \in CoreRecord /\ Nested /\ InService
  BY DEF DispatchInv, DispatchTypes
<1>3. core.frames \in Seq(Frame) /\ core.if \in BOOLEAN
  BY <1>2 DEF CoreRecord
<1>4. CASE core.frames = <<>>
  <2>1. PageFault \in Vectors
    BY VectorsAre
  <2>2. /\ core' \in CoreRecord /\ ints' \in InterruptState /\ hits' \in [Vectors -> Nat]
        /\ Nested' /\ Counting'
    BY <1>1, <1>3, <1>4, <2>1, EnterKeeps
  <2>3. InService'
    BY <1>1, <1>2, <1>4 DEF InService
  <2> QED BY <1>1, <2>2, <2>3 DEF DispatchInv, DispatchTypes, PicStateTruthful
<1>5. CASE core.frames # <<>>
  <2>1. Len(core.frames) = 1 /\ core.frames[1].vector >= IrqBase /\ core.if = FALSE
    <3>1. Len(core.frames) \in 1..2 /\ DOMAIN core.frames = 1..Len(core.frames)
      BY <1>2, <1>3, <1>5 DEF Nested
    <3>2. Len(core.frames) # 2
      BY <1>1, <1>2, <3>1 DEF Nested
    <3>3. Len(core.frames) = 1
      BY <3>1, <3>2
    <3>4. core.frames[1] \in Frame /\ core.frames[1].vector # PageFault
      BY <1>1, <1>3, <3>1, <3>3
    <3>5. core.frames[1].vector \in Vectors
      BY <3>4 DEF Frame
    <3>6. core.if = FALSE
      BY <1>2, <1>3, <1>5 DEF Nested
    <3> QED BY <3>3, <3>4, <3>5, <3>6, VectorsAre
  <2>2. PageFault \in Vectors
    BY VectorsAre
  <2>3. /\ core' \in CoreRecord /\ ints' \in InterruptState /\ hits' \in [Vectors -> Nat]
        /\ core'.frames = Append(core.frames, [vector |-> PageFault, if |-> core.if]) /\ Nested' /\ Counting'
    BY <1>1, <1>3, <2>1, <2>2, EnterKeeps
  <2>4. core'.frames # <<>> /\ core'.frames[1] = core.frames[1]
    BY <1>3, <2>1, <2>3
  <2>5. InService'
    BY <1>1, <1>2, <1>5, <2>4 DEF InService
  <2> QED BY <1>1, <2>3, <2>5 DEF DispatchInv, DispatchTypes, PicStateTruthful
<1> QED BY <1>4, <1>5

-----------------------------------------------------------------------------
(* Interrupt dispatch: a handler returns.                                  *)

SetEoi(s, p, q, n, a) == [s EXCEPT !.picEoi = p, !.apicEoi = q, !.eoi = n, !.account = a]

SetAccountEoi(a, n) == [a EXCEPT !.eoi = n]

LEMMA EndedIs ==
    ASSUME NEW s \in InterruptState, NEW v
    PROVE  Ended(v, s) =
             IF IsIrqVector(v)
             THEN SetEoi(s, s.picEoi + 1, s.apicEoi, s.eoi + 1, SetAccountEoi(s.account, s.account.eoi + 1))
             ELSE IF apic.initialized
             THEN SetEoi(s, s.picEoi, s.apicEoi + 1, s.eoi + 1, SetAccountEoi(s.account, s.account.eoi + 1))
             ELSE s
BY DEF Ended, SetEoi, SetAccountEoi, InterruptState

LEMMA EndedBooked ==
    ASSUME NEW s \in InterruptState, BooksOf(s), NEW v, NEW t, t = Ended(v, s)
    PROVE  /\ t \in InterruptState /\ BooksOf(t) /\ t.nesting = s.nesting /\ t.total = s.total
           /\ t.picEoi = s.picEoi + (IF IsIrqVector(v) THEN 1 ELSE 0)
<1>1. /\ s.picEoi \in Nat /\ s.apicEoi \in Nat /\ s.eoi \in Nat /\ s.account \in AccountRecord
      /\ s.account.eoi = s.eoi /\ s.eoi = s.picEoi + s.apicEoi
  BY DEF InterruptState, AccountRecord, BooksOf
<1>2. CASE ~IsIrqVector(v) /\ ~apic.initialized
  BY <1>1, <1>2, EndedIs
<1>3. CASE IsIrqVector(v) \/ apic.initialized
  <2>1. PICK p \in Nat, q \in Nat :
          /\ IF IsIrqVector(v) THEN p = s.picEoi + 1 /\ q = s.apicEoi
                               ELSE p = s.picEoi /\ q = s.apicEoi + 1
          /\ p = s.picEoi + (IF IsIrqVector(v) THEN 1 ELSE 0)
    <3>1. \A k \in Nat : k + 1 \in Nat /\ k + 0 = k
      OBVIOUS
    <3> QED BY <1>1, <3>1
  <2>2. PICK n \in Nat : n = s.eoi + 1
    BY <1>1
  <2>3. n = p + q
    BY <1>1, <2>1, <2>2
  <2>4. PICK c \in AccountRecord : c = s.account
    BY <1>1
  <2>5. PICK a : a = SetAccountEoi(c, n)
    OBVIOUS
  <2>6. a \in AccountRecord /\ a.total = c.total /\ a.exceptions = c.exceptions
        /\ a.hardware = c.hardware /\ a.eoi = n
    BY <2>5 DEF SetAccountEoi, AccountRecord
  <2>7. t = SetEoi(s, p, q, n, a)
    BY <1>1, <1>3, <2>1, <2>2, <2>4, <2>5, EndedIs
  <2>8. /\ t \in InterruptState
        /\ t.nesting = s.nesting /\ t.total = s.total /\ t.exceptions = s.exceptions
        /\ t.hardware = s.hardware /\ t.picEoi = p /\ t.apicEoi = q /\ t.eoi = n
        /\ t.registered = s.registered /\ t.handlers = s.handlers /\ t.account = a
    <3>1. InterruptState =
            [initialized : BOOLEAN, handlers : SUBSET Vectors, registered : Nat, nesting : Nat,
             total : Nat, exceptions : Nat, hardware : Nat, picEoi : Nat, apicEoi : Nat, eoi : Nat,
             account : AccountRecord]
      BY DEF InterruptState, AccountRecord
    <3> QED BY <2>6, <2>7, <3>1 DEF SetEoi
  <2>9. BooksOf(t)
    BY <2>3, <2>4, <2>6, <2>8 DEF BooksOf
  <2> QED BY <2>1, <2>8, <2>9
<1> QED BY <1>2, <1>3

\* One handler less.
LEMMA LeftHandler ==
    ASSUME NEW s \in InterruptState, BooksOf(s), NEW n \in Nat, NEW t, t = [s EXCEPT !.nesting = n]
    PROVE  /\ t \in InterruptState /\ BooksOf(t) /\ t.nesting = n /\ t.total = s.total
           /\ t.picEoi = s.picEoi
<1>1. /\ t \in InterruptState
      /\ t.nesting = n /\ t.total = s.total /\ t.exceptions = s.exceptions
      /\ t.hardware = s.hardware /\ t.picEoi = s.picEoi /\ t.apicEoi = s.apicEoi /\ t.eoi = s.eoi
      /\ t.registered = s.registered /\ t.handlers = s.handlers /\ t.account = s.account
  BY DEF InterruptState
<1> QED BY <1>1 DEF BooksOf

LEMMA ReturnedIs ==
    ASSUME core \in CoreRecord, Nested, core.frames # <<>>, core' = Returned(core)
    PROVE  /\ core' \in CoreRecord /\ core'.if = core.frames[Len(core.frames)].if
           /\ Len(core.frames) = 1 => core'.frames = <<>>
           /\ Len(core.frames) = 2 => core'.frames # <<>> /\ core'.frames[1] = core.frames[1]
           /\ Len(core.frames) \in {1, 2} /\ core.frames[Len(core.frames)] \in Frame
           /\ Len(core'.frames) = Len(core.frames) - 1
<1>1. core.frames \in Seq(Frame) /\ Len(core.frames) \in {1, 2}
  <2>1. core.frames \in Seq(Frame)
    BY DEF CoreRecord
  <2>2. Len(core.frames) # 0
    BY <2>1
  <2> QED BY <2>1, <2>2 DEF Nested
<1>2. core.frames[Len(core.frames)] \in Frame /\ core.frames[1] \in Frame
  BY <1>1
<1>3. PICK f \in Seq(Frame) : f = core.frames
  BY <1>1
<1>4. PICK fs \in Seq(Frame) :
        /\ fs = SubSeq(f, 1, Len(f) - 1)
        /\ Len(f) = 1 => fs = <<>>
        /\ Len(f) = 2 => fs # <<>> /\ fs[1] = f[1]
        /\ Len(fs) = Len(f) - 1
  <2>1. Len(f) \in {1, 2} /\ \A i \in 1 .. Len(f) - 1 : f[i] \in Frame
    BY <1>1, <1>3
  <2>2. PICK n \in {0, 1} : n = Len(f) - 1
    BY <2>1
  <2>3. PICK fs : fs = SubSeq(f, 1, n)
    OBVIOUS
  <2>4. /\ fs \in Seq(Frame) /\ Len(fs) = IF 1 <= n THEN n - 1 + 1 ELSE 0
        /\ \A i \in 1 .. n - 1 + 1 : fs[i] = f[1 + i - 1]
    <3>1. 1 \in Int /\ n \in Int /\ \A i \in 1 .. n : f[i] \in Frame
      BY <2>1, <2>2
    <3> QED BY <2>3, <3>1, SubSeqProperties
  <2>5. Len(fs) = n /\ (n = 1 => fs[1] = f[1])
    <3>1. CASE n = 0
      BY <2>4, <3>1
    <3>2. CASE n = 1
      <4>1. 1 <= n /\ n - 1 + 1 = 1 /\ 1 \in 1 .. n - 1 + 1 /\ 1 + 1 - 1 = 1
        BY <3>2
      <4>2. Len(fs) = 1 /\ fs[1] = f[1 + 1 - 1]
        BY <2>4, <4>1
      <4> QED BY <3>2, <4>1, <4>2
    <3> QED BY <2>2, <3>1, <3>2
  <2>6. (n = 0 => fs = <<>>) /\ (n = 1 => fs # <<>>)
    BY <2>4, <2>5
  <2>7. (Len(f) = 1 => n = 0) /\ (Len(f) = 2 => n = 1)
    BY <2>2
  <2> QED BY <2>2, <2>3, <2>4, <2>5, <2>6, <2>7
<1>5. core' = [core EXCEPT !.if = core.frames[Len(core.frames)].if, !.frames = fs]
  BY <1>3, <1>4 DEF Returned, CoreRecord
<1>6. core.frames[Len(core.frames)].if \in BOOLEAN
  BY <1>2 DEF Frame
<1>7. core' \in CoreRecord /\ core'.if = core.frames[Len(core.frames)].if /\ core'.frames = fs
  BY <1>5, <1>6 DEF CoreRecord
<1> QED BY <1>1, <1>2, <1>3, <1>4, <1>7

LEMMA ExceptionReturnKeeps ==
    ASSUME InterruptsConstants, DispatchInv, ExceptionReturn
    PROVE  DispatchInv'
<1>1. /\ core.frames # <<>> /\ core.frames[Len(core.frames)].vector < IrqBase
      /\ core' = Returned(core) /\ ints' = [ints EXCEPT !.nesting = @ - 1]
      /\ pic' = pic /\ apic' = apic /\ hits' = hits
  BY DEF ExceptionReturn
<1>2. core \in CoreRecord /\ ints \in InterruptState /\ BooksOf(ints) /\ Nested /\ InService /\ Counting
  BY DEF DispatchInv, DispatchTypes, Counting
<1>3. /\ core' \in CoreRecord /\ core'.if = core.frames[Len(core.frames)].if
      /\ Len(core.frames) = 1 => core'.frames = <<>>
      /\ Len(core.frames) = 2 => core'.frames # <<>> /\ core'.frames[1] = core.frames[1]
      /\ Len(core.frames) \in {1, 2} /\ core.frames[Len(core.frames)] \in Frame
      /\ Len(core'.frames) = Len(core.frames) - 1
  BY <1>1, <1>2, ReturnedIs
<1>4. Nested'
  BY <1>2, <1>3 DEF Nested
<1>5. Open' = Open /\ InService'
  <2>1. CASE Len(core.frames) = 1
    <3>1. core'.frames = <<>> /\ core.frames # <<>> /\ core.frames[1].vector < IrqBase
      BY <1>1, <1>3, <2>1
    <3>2. core.frames[1].vector \in Nat
      <4>1. core.frames[1].vector \in Vectors
        BY <1>3, <2>1 DEF Frame
      <4> QED BY <4>1, VectorsAre
    <3>3. ~IsIrqVector(core.frames[1].vector) /\ core.frames[1].vector # TimerVector
      BY <3>1, <3>2 DEF IsIrqVector, IrqBase, TimerVector
    <3> QED BY <1>1, <1>2, <3>1, <3>3 DEF Open, InService
  <2>2. CASE Len(core.frames) = 2
    <3>1. core'.frames # <<>> /\ core.frames # <<>> /\ core'.frames[1] = core.frames[1]
      BY <1>1, <1>3, <2>2
    <3> QED BY <1>1, <1>2, <3>1 DEF Open, InService
  <2> QED BY <1>3, <2>1, <2>2
<1>6. /\ ints' \in InterruptState /\ BooksOf(ints') /\ ints'.nesting = Len(core'.frames)
      /\ ints'.total = ints.total /\ ints'.picEoi = ints.picEoi
  <2>1. PICK n \in Nat : n = Len(core.frames) - 1
    BY <1>3
  <2>2. ints' = [ints EXCEPT !.nesting = n]
    BY <1>1, <1>2, <2>1 DEF Counting, InterruptState
  <2>3. /\ ints' \in InterruptState /\ BooksOf(ints') /\ ints'.nesting = n
        /\ ints'.total = ints.total /\ ints'.picEoi = ints.picEoi
    <3>1. PICK s \in InterruptState : s = ints
      BY <1>2
    <3>2. BooksOf(s) /\ ints' = [s EXCEPT !.nesting = n]
      BY <1>2, <2>2, <3>1
    <3> QED BY <3>1, <3>2, LeftHandler
  <2> QED BY <1>3, <2>1, <2>3
<1>7. Counting'
  BY <1>1, <1>2, <1>5, <1>6 DEF Counting, Times
<1> QED BY <1>1, <1>3, <1>4, <1>5, <1>6, <1>7 DEF DispatchInv, DispatchTypes, PicStateTruthful

LEMMA EndOne ==
    ASSUME NEW isr, NEW chip, NEW j \in Int, isr \cap chip = {j}
    PROVE  EndHighest(isr, chip) = isr \ {j}
<1>1. Min({j}) = j
  BY DEF Min
<1> QED BY <1>1 DEF EndHighest

LEMMA EndNone == ASSUME NEW chip PROVE EndHighest({}, chip) = {}
BY DEF EndHighest

\* One EOI for an input of the first PIC, one to each PIC for an input of the second.
LEMMA AllEnded ==
    ASSUME InterruptsConstants, NEW p \in PicRecord, NEW irq \in Int,
           p.isr = {} \/ (irq \in Irqs /\ p.isr = {irq} \cup (IF irq >= 8 THEN {2} ELSE {}))
    PROVE  LET q == PicSendEoi(p, irq)
           IN  q \in PicRecord /\ q.isr = {} /\ q.state = p.state /\ q.imr = p.imr
<1> DEFINE slaveDone == IF irq >= 8 THEN EndHighest(p.isr, Slave) ELSE p.isr
           done == EndHighest(slaveDone, Master)
<1>1. done = {}
  <2>1. CASE p.isr = {}
    BY <2>1, EndNone
  <2>2. CASE irq \in Irqs /\ p.isr = {irq} \cup (IF irq >= 8 THEN {2} ELSE {})
    <3>1. irq \in 0..15 /\ 2 \in Irqs /\ 2 \in Master /\ 2 \notin Slave
      BY <2>2 DEF InterruptsConstants, Master, Slave
    <3>2. CASE irq >= 8
      <4>1. p.isr = {irq, 2} /\ irq \in Slave /\ irq \notin Master /\ irq # 2
        BY <2>2, <3>1, <3>2 DEF Slave, Master
      <4>2. p.isr \cap Slave = {irq}
        BY <3>1, <4>1
      <4>3. slaveDone = {2}
        BY <3>2, <4>1, <4>2, EndOne
      <4>4. slaveDone \cap Master = {2} /\ 2 \in Int
        BY <3>1, <4>3
      <4> HIDE DEF slaveDone
      <4> QED BY <4>3, <4>4, EndOne
    <3>3. CASE ~(irq >= 8)
      <4>1. slaveDone = {irq} /\ irq \in Master
        BY <2>2, <3>1, <3>3 DEF Master
      <4>2. slaveDone \cap Master = {irq}
        BY <4>1
      <4> HIDE DEF slaveDone
      <4> QED BY <4>1, <4>2, EndOne
    <3> QED BY <3>2, <3>3
  <2> QED BY <2>1, <2>2
<1>2. PicSendEoi(p, irq) = [p EXCEPT !.isr = {}]
  BY <1>1 DEF PicSendEoi
<1> QED BY <1>2 DEF PicRecord

LEMMA InterruptReturnKeeps ==
    ASSUME InterruptsConstants, DispatchInv, InterruptReturn
    PROVE  DispatchInv'
<1>1. PICK v : v = core.frames[Len(core.frames)].vector
  OBVIOUS
<1>2. /\ core.frames # <<>> /\ v >= IrqBase
      /\ pic' = IF IsIrqVector(v) THEN PicSendEoi(pic, v - IrqBase) ELSE pic
      /\ apic' = IF ~IsIrqVector(v) /\ apic.initialized /\ apic.isr # {}
                 THEN [apic EXCEPT !.isr = @ \ {Max(@)}] ELSE apic
      /\ ints' = [Ended(v, ints) EXCEPT !.nesting = IF @ > 0 THEN @ - 1 ELSE @]
      /\ core' = Returned(core) /\ hits' = hits
  BY <1>1 DEF InterruptReturn
<1>3. /\ core \in CoreRecord /\ pic \in PicRecord /\ apic \in ApicRecord /\ ints \in InterruptState
      /\ hits \in [Vectors -> Nat] /\ BooksOf(ints) /\ Nested /\ InService /\ Counting /\ PicStateTruthful
  BY DEF DispatchInv, DispatchTypes, Counting
<1>4. /\ core' \in CoreRecord /\ core'.if = core.frames[Len(core.frames)].if
      /\ Len(core.frames) = 1 => core'.frames = <<>>
      /\ Len(core.frames) \in {1, 2} /\ core.frames[Len(core.frames)] \in Frame
      /\ Len(core'.frames) = Len(core.frames) - 1
  BY <1>2, <1>3, ReturnedIs
<1>5. v \in Vectors /\ v \in Int /\ Len(core.frames) = 1 /\ v = core.frames[1].vector
  <2>1. v \in Vectors /\ v \in Nat
    BY <1>1, <1>4, VectorsAre DEF Frame
  <2>2. Len(core.frames) = 2 => core.frames[2].vector = PageFault
    BY <1>3 DEF Nested
  <2>3. ~(PageFault >= IrqBase)
    BY DEF PageFault, IrqBase
  <2> QED BY <1>1, <1>2, <1>4, <2>1, <2>2, <2>3
<1>6. core'.frames = <<>> /\ Len(core'.frames) = 0
  BY <1>4, <1>5
<1>7. pic' \in PicRecord /\ pic'.isr = {} /\ pic'.state = pic.state /\ pic'.imr = pic.imr
  <2>1. CASE IsIrqVector(v)
    <3>1. v - IrqBase \in Int /\ \A i \in Irqs : v = IrqBase + i => i = v - IrqBase
      BY <1>5 DEF InterruptsConstants, IrqBase
    <3>2. pic.isr = {} \/ (v - IrqBase \in Irqs
                             /\ pic.isr = {v - IrqBase} \cup (IF v - IrqBase >= 8 THEN {2} ELSE {}))
      BY <1>3, <1>5, <3>1 DEF InService
    <3>3. PICK irq \in Int : irq = v - IrqBase
      BY <3>1
    <3> QED BY <1>2, <1>3, <2>1, <3>2, <3>3, AllEnded
  <2>2. CASE ~IsIrqVector(v)
    BY <1>2, <1>3, <1>5, <2>2 DEF InService
  <2> QED BY <2>1, <2>2
<1>8. /\ apic' \in ApicRecord /\ apic'.isr = {} /\ apic'.irr = apic.irr /\ apic'.armed = apic.armed
      /\ apic'.initialized = apic.initialized
  <2>1. CASE apic.isr = {}
    BY <1>2, <1>3, <2>1
  <2>2. CASE apic.isr # {}
    <3>1. v = TimerVector /\ apic.initialized /\ apic.isr = {TimerVector}
      BY <1>3, <1>5, <2>2 DEF InService, ApicRecord
    <3>2. ~IsIrqVector(TimerVector) /\ TimerVector \in Int
      BY DEF IsIrqVector, IrqBase, IrqLimit, TimerVector
    <3>3. Max({TimerVector}) = TimerVector
      BY <3>2 DEF Max
    <3>4. apic' = [apic EXCEPT !.isr = {}]
      <4>1. apic' = [apic EXCEPT !.isr = apic.isr \ {Max(apic.isr)}]
        BY <1>2, <1>3, <2>2, <3>1, <3>2 DEF ApicRecord
      <4> QED BY <3>1, <3>3, <4>1
    <3> QED BY <1>3, <3>4 DEF ApicRecord
  <2> QED BY <2>1, <2>2
<1>9. Nested' /\ InService' /\ PicStateTruthful'
  BY <1>3, <1>6, <1>7, <1>8 DEF Nested, InService, PicStateTruthful
<1>10. /\ ints' \in InterruptState /\ BooksOf(ints') /\ ints'.nesting = 0 /\ ints'.total = ints.total
       /\ ints'.picEoi = ints.picEoi + (IF IsIrqVector(v) THEN 1 ELSE 0)
  <2>1. PICK s \in InterruptState : s = ints
    BY <1>3
  <2>2. PICK t : t = Ended(v, s)
    OBVIOUS
  <2>3. /\ t \in InterruptState /\ BooksOf(t) /\ t.nesting = s.nesting /\ t.total = s.total
        /\ t.picEoi = s.picEoi + (IF IsIrqVector(v) THEN 1 ELSE 0)
    BY <1>3, <2>1, <2>2, EndedBooked
  <2>4. t.nesting = 1
    BY <1>3, <1>5, <2>1, <2>3 DEF Counting
  <2>5. ints' = [t EXCEPT !.nesting = 0]
    <3>1. ints' = [t EXCEPT !.nesting = IF t.nesting > 0 THEN t.nesting - 1 ELSE t.nesting]
      BY <1>2, <2>1, <2>2, <2>3 DEF InterruptState
    <3>2. (IF t.nesting > 0 THEN t.nesting - 1 ELSE t.nesting) = 0
      BY <2>4
    <3> QED BY <3>1, <3>2
  <2>6. /\ ints' \in InterruptState /\ BooksOf(ints') /\ ints'.nesting = 0
        /\ ints'.total = t.total /\ ints'.picEoi = t.picEoi
    BY <2>3, <2>5, LeftHandler
  <2> QED BY <2>1, <2>3, <2>6
<1>11. Counting'
  <2>1. Open = (IF IsIrqVector(v) THEN 1 ELSE 0) /\ Open' = 0
    BY <1>2, <1>5, <1>6 DEF Open
  <2>2. ints.picEoi \in Nat /\ ints.picEoi + Open = Cardinality(Times(hits, IrqVectors))
    BY <1>3 DEF Counting, InterruptState
  <2>3. ints'.picEoi + Open' = Cardinality(Times(hits, IrqVectors))
    BY <1>10, <2>1, <2>2
  <2> QED BY <1>2, <1>3, <1>6, <1>10, <2>3 DEF Counting, Times
<1> QED BY <1>2, <1>3, <1>4, <1>7, <1>8, <1>9, <1>10, <1>11 DEF DispatchInv, DispatchTypes

-----------------------------------------------------------------------------
(* Interrupt dispatch: the hardware and the kernel's own code.             *)

\* A step that takes and returns from no interrupt, and counts none.
LEMMA QuietKeeps ==
    ASSUME DispatchInv, ints' = ints, hits' = hits, core'.frames = core.frames,
           core' \in CoreRecord, core'.if => core.frames = <<>>,
           pic' \in PicRecord, pic'.isr = pic.isr \/ pic'.isr = {}, PicStateTruthful',
           apic' \in ApicRecord, apic'.isr = apic.isr,
           apic'.armed \/ apic'.irr # {} \/ apic'.isr # {} => apic'.initialized
    PROVE  DispatchInv'
<1>1. DispatchTypes'
  BY DEF DispatchInv, DispatchTypes
<1>2. Nested'
  BY DEF DispatchInv, Nested
<1>3. InService'
  BY DEF DispatchInv, InService
<1>4. Counting'
  BY DEF DispatchInv, Counting, Open, Times
<1> QED BY <1>1, <1>2, <1>3, <1>4 DEF DispatchInv

LEMMA HardwareKeeps ==
    ASSUME InterruptsConstants, DispatchInv, RaiseIrq \/ PitFires \/ ApicTimerFires \/ ExceptionPanics
    PROVE  DispatchInv'
<1>1. /\ core \in CoreRecord /\ pic \in PicRecord /\ apic \in ApicRecord /\ PicStateTruthful
      /\ core.if => core.frames = <<>>
      /\ (apic.armed \/ apic.irr # {} \/ apic.isr # {} => apic.initialized)
  BY DEF DispatchInv, DispatchTypes, Nested, InService
<1>2. CASE RaiseIrq \/ PitFires
  <2>1. core' = core /\ apic' = apic /\ ints' = ints /\ hits' = hits
    BY <1>2 DEF RaiseIrq, PitFires
  <2>2. pic' \in PicRecord /\ pic'.isr = pic.isr /\ pic'.imr = pic.imr /\ pic'.state = pic.state
    <3>1. CASE RaiseIrq
      <4>1. PICK irq \in Irqs : pic' = [pic EXCEPT !.irr = @ \cup {irq}]
        BY <3>1 DEF RaiseIrq
      <4> QED BY <1>1, <4>1 DEF PicRecord
    <3>2. CASE PitFires
      <4>1. pic' = [pic EXCEPT !.pit = FALSE, !.irr = @ \cup {0}] /\ 0 \in Irqs
        BY <3>2 DEF PitFires, InterruptsConstants
      <4> QED BY <1>1, <4>1 DEF PicRecord
    <3> QED BY <1>2, <3>1, <3>2
  <2>3. PicStateTruthful'
    BY <1>1, <2>2 DEF PicStateTruthful
  <2> QED BY <1>1, <2>1, <2>2, <2>3, QuietKeeps
<1>3. CASE ApicTimerFires
  <2>1. core' = core /\ pic' = pic /\ ints' = ints /\ hits' = hits
    BY <1>3 DEF ApicTimerFires
  <2>2. /\ apic' \in ApicRecord /\ apic'.isr = apic.isr /\ apic'.initialized = apic.initialized
        /\ apic.armed
    BY <1>1, <1>3 DEF ApicTimerFires, ApicRecord
  <2>3. PicStateTruthful'
    BY <1>1, <2>1 DEF PicStateTruthful
  <2> QED BY <1>1, <2>1, <2>2, <2>3, QuietKeeps
<1>4. CASE ExceptionPanics
  <2>1. pic' = pic /\ apic' = apic /\ ints' = ints /\ hits' = hits /\ core' = [core EXCEPT !.halted = TRUE]
    BY <1>4 DEF ExceptionPanics
  <2>2. core' \in CoreRecord /\ core'.frames = core.frames /\ core'.if = core.if
    BY <1>1, <2>1 DEF CoreRecord
  <2>3. PicStateTruthful'
    BY <1>1, <2>1 DEF PicStateTruthful
  <2> QED BY <1>1, <2>1, <2>2, <2>3, QuietKeeps
<1> QED BY <1>2, <1>3, <1>4

LEMMA MasksUpdated ==
    ASSUME NEW p \in PicRecord, NEW q, q = UpdateMasksFromHardware(p)
    PROVE  /\ q \in PicRecord /\ q.isr = p.isr /\ q.imr = p.imr /\ q.pit = p.pit /\ q.irr = p.irr
           /\ q.state \in PicState /\ q.state.initialized = p.state.initialized
           /\ q.state.current = p.imr /\ (q.state.disabled <=> p.imr = Irqs)
<1>1. p.imr \in SUBSET Irqs /\ p.state \in PicState /\ (p.imr = Irqs) \in BOOLEAN
  BY DEF PicRecord
<1>2. PICK s : s = [p.state EXCEPT !.current = p.imr, !.disabled = (p.imr = Irqs)]
  OBVIOUS
<1>3. /\ s \in PicState /\ s.initialized = p.state.initialized /\ s.current = p.imr
      /\ (s.disabled <=> p.imr = Irqs)
  BY <1>1, <1>2 DEF PicState
<1>4. q = [p EXCEPT !.state = s]
  BY <1>2 DEF UpdateMasksFromHardware, PicRecord
<1> QED BY <1>3, <1>4 DEF PicRecord

LEMMA AllMasked ==
    ASSUME NEW p \in PicRecord, NEW q, q = MaskAll(p)
    PROVE  /\ q \in PicRecord /\ q.isr = p.isr /\ q.imr = Irqs
           /\ q.state \in PicState /\ q.state.initialized = p.state.initialized
           /\ q.state.current = Irqs /\ q.state.disabled
<1>1. PICK m : m = [p EXCEPT !.imr = Irqs]
  OBVIOUS
<1>2. m \in PicRecord /\ m.isr = p.isr /\ m.imr = Irqs /\ m.state = p.state
  BY <1>1 DEF PicRecord
<1>3. q = UpdateMasksFromHardware(m)
  BY <1>1 DEF MaskAll
<1> QED BY <1>2, <1>3, MasksUpdated

LEMMA MaskSet ==
    ASSUME NEW p \in PicRecord, NEW irq, NEW masked \in BOOLEAN, NEW q, q = SetIrqMask(p, irq, masked)
    PROVE  /\ q \in PicRecord /\ q.isr = p.isr
           /\ q.state.current = q.imr /\ (q.state.disabled <=> q.imr = Irqs)
<1>1. PICK m : m = [p EXCEPT !.imr = IF masked THEN @ \cup ({irq} \cap Irqs) ELSE @ \ {irq}]
  OBVIOUS
<1>2. m \in PicRecord /\ m.isr = p.isr
  BY <1>1 DEF PicRecord
<1>3. q = UpdateMasksFromHardware(m)
  BY <1>1 DEF SetIrqMask
<1> QED BY <1>2, <1>3, MasksUpdated

LEMMA PicInitKeeps ==
    ASSUME InterruptsConstants, DispatchInv, PicInitAndDisable
    PROVE  DispatchInv'
<1>1. /\ core' = core /\ apic' = apic /\ ints' = ints /\ hits' = hits
      /\ pic' = LET reset == MaskAll([pic EXCEPT !.irr = {}, !.isr = {}])
                IN  [reset EXCEPT !.state.initialized = TRUE]
  BY DEF PicInitAndDisable
<1>2. /\ core \in CoreRecord /\ pic \in PicRecord /\ apic \in ApicRecord
      /\ core.if => core.frames = <<>>
      /\ (apic.armed \/ apic.irr # {} \/ apic.isr # {} => apic.initialized)
  BY DEF DispatchInv, DispatchTypes, Nested, InService
<1>3. PICK p : p = [pic EXCEPT !.irr = {}, !.isr = {}]
  OBVIOUS
<1>4. p \in PicRecord /\ p.isr = {}
  BY <1>2, <1>3 DEF PicRecord
<1>5. PICK q : q = MaskAll(p)
  OBVIOUS
<1>6. /\ q \in PicRecord /\ q.isr = {} /\ q.imr = Irqs
      /\ q.state \in PicState /\ q.state.current = Irqs /\ q.state.disabled
  BY <1>4, <1>5, AllMasked
<1>7. PICK s : s = [q.state EXCEPT !.initialized = TRUE]
  OBVIOUS
<1>8. s \in PicState /\ s.current = Irqs /\ s.disabled
  BY <1>6, <1>7 DEF PicState
<1>9. pic' = [q EXCEPT !.state = s]
  BY <1>1, <1>3, <1>5, <1>6, <1>7 DEF PicRecord
<1>10. pic' \in PicRecord /\ pic'.isr = {} /\ pic'.imr = Irqs /\ pic'.state = s
  BY <1>6, <1>8, <1>9 DEF PicRecord
<1>11. PicStateTruthful'
  BY <1>8, <1>10 DEF PicStateTruthful
<1> QED BY <1>1, <1>2, <1>10, <1>11, QuietKeeps

LEMMA ApicInitKeeps ==
    ASSUME InterruptsConstants, DispatchInv, ApicInit
    PROVE  DispatchInv'
<1>1. /\ core' = core /\ pic' = pic /\ ints' = ints /\ hits' = hits /\ ~apic.initialized
  BY DEF ApicInit
<1>2. /\ core \in CoreRecord /\ pic \in PicRecord /\ apic \in ApicRecord /\ PicStateTruthful
      /\ core.if => core.frames = <<>>
      /\ apic.irr = {} /\ apic.isr = {}
  BY <1>1 DEF DispatchInv, DispatchTypes, Nested, InService
<1>3. PICK works \in BOOLEAN : apic' = [apic EXCEPT !.initialized = works, !.armed = FALSE]
  BY DEF ApicInit
<1>4. apic' \in ApicRecord /\ apic'.isr = {} /\ apic'.irr = {} /\ ~apic'.armed
  BY <1>2, <1>3 DEF ApicRecord
<1>5. PicStateTruthful'
  BY <1>1, <1>2 DEF PicStateTruthful
<1> QED BY <1>1, <1>2, <1>4, <1>5, QuietKeeps

LEMMA MaskingKeeps ==
    ASSUME InterruptsConstants, DispatchInv, SetEnabled \/ SetIrqMasked
    PROVE  DispatchInv'
<1>1. /\ core \in CoreRecord /\ pic \in PicRecord /\ apic \in ApicRecord /\ PicStateTruthful
      /\ core.if => core.frames = <<>>
      /\ (apic.armed \/ apic.irr # {} \/ apic.isr # {} => apic.initialized)
  BY DEF DispatchInv, DispatchTypes, Nested, InService
<1>2. apic' = apic /\ ints' = ints /\ hits' = hits
  BY DEF SetEnabled, SetIrqMasked
<1>3. CASE SetEnabled
  <2>1. core.frames = <<>> /\ pic' = pic /\ core' = [core EXCEPT !.if = ~@]
    BY <1>3 DEF SetEnabled, KernelCall, Kernel
  <2>2. core' \in CoreRecord /\ core'.frames = core.frames
    <3>1. core' = [core EXCEPT !.if = ~core.if] /\ (~core.if) \in BOOLEAN
      BY <1>1, <2>1 DEF CoreRecord
    <3> QED BY <1>1, <3>1 DEF CoreRecord
  <2>3. PicStateTruthful'
    BY <1>1, <2>1 DEF PicStateTruthful
  <2> QED BY <1>1, <1>2, <2>1, <2>2, <2>3, QuietKeeps
<1>4. CASE SetIrqMasked
  <2>1. core' = core
    BY <1>4 DEF SetIrqMasked
  <2>2. PICK irq \in MaskCalls, masked \in BOOLEAN : pic' = pic \/ pic' = SetIrqMask(pic, irq, masked)
    BY <1>4 DEF SetIrqMasked
  <2>3. pic' \in PicRecord /\ pic'.isr = pic.isr /\ PicStateTruthful'
    <3>1. CASE pic' = pic
      BY <1>1, <3>1 DEF PicStateTruthful
    <3>2. CASE pic' = SetIrqMask(pic, irq, masked)
      <4>1. /\ pic' \in PicRecord /\ pic'.isr = pic.isr
            /\ pic'.state.current = pic'.imr /\ (pic'.state.disabled <=> pic'.imr = Irqs)
        BY <1>1, <3>2, MaskSet
      <4> QED BY <4>1 DEF PicStateTruthful
    <3> QED BY <2>2, <3>1, <3>2
  <2> QED BY <1>1, <1>2, <2>1, <2>3, QuietKeeps
<1> QED BY <1>3, <1>4

LEMMA HandlerRegistered ==
    ASSUME NEW s \in InterruptState, BooksOf(s), NEW v \in Vectors, NEW t, t = RegisterHandler(v, s),
           IsFiniteSet(Vectors)
    PROVE  /\ t \in InterruptState /\ BooksOf(t) /\ t.nesting = s.nesting /\ t.total = s.total
           /\ t.picEoi = s.picEoi
<1>1. s.handlers \subseteq Vectors /\ s.registered \in Nat /\ s.registered = Cardinality(s.handlers)
  BY DEF InterruptState, BooksOf
<1>2. PICK n \in Nat : n = s.registered + (IF v \in s.handlers THEN 0 ELSE 1)
  <2>1. \A k \in Nat : k + 0 = k /\ k + 1 \in Nat
    OBVIOUS
  <2> QED BY <1>1, <2>1
<1>3. PICK hs \in SUBSET Vectors : hs = s.handlers \cup {v}
  BY <1>1
<1>4. n = Cardinality(hs)
  <2>1. IsFiniteSet(s.handlers)
    BY <1>1, FS_Subset
  <2>2. Cardinality(s.handlers \cup {v})
          = IF v \in s.handlers THEN Cardinality(s.handlers) ELSE Cardinality(s.handlers) + 1
    BY <2>1, FS_AddElement
  <2> QED BY <1>1, <1>2, <1>3, <2>2
<1>5. t = [s EXCEPT !.handlers = hs, !.registered = n]
  BY <1>2, <1>3 DEF RegisterHandler, InterruptState
<1>6. /\ t \in InterruptState /\ t.handlers = hs /\ t.registered = n
      /\ t.nesting = s.nesting /\ t.total = s.total /\ t.exceptions = s.exceptions
      /\ t.hardware = s.hardware /\ t.picEoi = s.picEoi /\ t.apicEoi = s.apicEoi /\ t.eoi = s.eoi
      /\ t.account = s.account
  BY <1>5 DEF InterruptState
<1> QED BY <1>4, <1>6 DEF BooksOf

\* A call of the kernel's code that registers a handler and sets what QuietKeeps sets.
LEMMA RegisteringKeeps ==
    ASSUME InterruptsConstants, DispatchInv, hits' = hits, core'.frames = core.frames,
           NEW v \in Vectors, ints' = RegisterHandler(v, ints),
           core' \in CoreRecord, core'.if => core.frames = <<>>,
           pic' \in PicRecord, pic'.isr = pic.isr \/ pic'.isr = {}, PicStateTruthful',
           apic' \in ApicRecord, apic'.isr = apic.isr,
           apic'.armed \/ apic'.irr # {} \/ apic'.isr # {} => apic'.initialized
    PROVE  DispatchInv'
<1>1. /\ ints' \in InterruptState /\ BooksOf(ints') /\ ints'.nesting = ints.nesting
      /\ ints'.total = ints.total /\ ints'.picEoi = ints.picEoi
  <2>1. ints \in InterruptState /\ BooksOf(ints) /\ IsFiniteSet(Vectors)
    BY VectorsAre DEF DispatchInv, DispatchTypes, Counting
  <2>2. PICK s, t : s = ints /\ t = ints'
    OBVIOUS
  <2> QED BY <2>1, <2>2, HandlerRegistered
<1>2. DispatchTypes'
  BY <1>1 DEF DispatchInv, DispatchTypes
<1>3. Nested'
  BY DEF DispatchInv, Nested
<1>4. InService'
  BY DEF DispatchInv, InService
<1>5. Counting'
  BY <1>1 DEF DispatchInv, Counting, Open, Times
<1> QED BY <1>2, <1>3, <1>4, <1>5 DEF DispatchInv

LEMMA KeyboardUnmaskKeeps ==
    ASSUME InterruptsConstants, DispatchInv, KeyboardUnmask
    PROVE  DispatchInv'
<1>1. /\ ints' = RegisterHandler(IrqBase + 1, ints) /\ pic' = SetIrqMask(pic, 1, FALSE)
      /\ core' = core /\ apic' = apic /\ hits' = hits
  BY DEF KeyboardUnmask
<1>2. /\ core \in CoreRecord /\ pic \in PicRecord /\ apic \in ApicRecord
      /\ core.if => core.frames = <<>>
      /\ (apic.armed \/ apic.irr # {} \/ apic.isr # {} => apic.initialized)
  BY DEF DispatchInv, DispatchTypes, Nested, InService
<1>3. /\ pic' \in PicRecord /\ pic'.isr = pic.isr
      /\ pic'.state.current = pic'.imr /\ (pic'.state.disabled <=> pic'.imr = Irqs)
  BY <1>1, <1>2, MaskSet
<1>4. PicStateTruthful' /\ IrqBase + 1 \in Vectors
  BY <1>3, VectorsAre DEF PicStateTruthful, InterruptsConstants
<1> QED BY <1>1, <1>2, <1>3, <1>4, RegisteringKeeps

LEMMA StartPicProofKeeps ==
    ASSUME InterruptsConstants, DispatchInv, StartPicTimerProof
    PROVE  DispatchInv'
<1>1. /\ core.frames = <<>> /\ ints' = RegisterHandler(IrqBase, ints) /\ core' = [core EXCEPT !.if = TRUE]
      /\ pic' = SetIrqMask([MaskAll(pic) EXCEPT !.pit = TRUE], 0, FALSE)
      /\ apic' = apic /\ hits' = hits
  BY DEF StartPicTimerProof, KernelCall, Kernel
<1>2. /\ core \in CoreRecord /\ pic \in PicRecord /\ apic \in ApicRecord
      /\ (apic.armed \/ apic.irr # {} \/ apic.isr # {} => apic.initialized)
  BY DEF DispatchInv, DispatchTypes, InService
<1>3. PICK p : p = MaskAll(pic)
  OBVIOUS
<1>4. p \in PicRecord /\ p.isr = pic.isr
  BY <1>2, <1>3, AllMasked
<1>5. PICK q : q = [p EXCEPT !.pit = TRUE]
  OBVIOUS
<1>6. q \in PicRecord /\ q.isr = pic.isr
  BY <1>4, <1>5 DEF PicRecord
<1>7. /\ pic' \in PicRecord /\ pic'.isr = pic.isr
      /\ pic'.state.current = pic'.imr /\ (pic'.state.disabled <=> pic'.imr = Irqs)
  <2>1. pic' = SetIrqMask(q, 0, FALSE)
    BY <1>1, <1>3, <1>5
  <2> QED BY <1>6, <2>1, MaskSet
<1>8. PicStateTruthful' /\ IrqBase \in Vectors
  <2>1. 0 \in Irqs /\ IrqBase + 0 = IrqBase
    BY DEF InterruptsConstants, IrqBase
  <2> QED BY <1>7, <2>1, VectorsAre DEF PicStateTruthful
<1>9. core' \in CoreRecord /\ core'.frames = core.frames
  BY <1>1, <1>2 DEF CoreRecord
<1> QED BY <1>1, <1>2, <1>7, <1>8, <1>9, RegisteringKeeps

LEMMA StartApicProofKeeps ==
    ASSUME InterruptsConstants, DispatchInv, StartApicTimerProof
    PROVE  DispatchInv'
<1>1. /\ core.frames = <<>> /\ ints' = RegisterHandler(TimerVector, ints) /\ pic' = pic /\ hits' = hits
      /\ \/ apic.initialized /\ apic' = [apic EXCEPT !.armed = TRUE] /\ core' = [core EXCEPT !.if = TRUE]
         \/ apic' = apic /\ core' = core
  BY DEF StartApicTimerProof, KernelCall, Kernel
<1>2. /\ core \in CoreRecord /\ pic \in PicRecord /\ apic \in ApicRecord /\ PicStateTruthful
      /\ (apic.armed \/ apic.irr # {} \/ apic.isr # {} => apic.initialized)
  BY DEF DispatchInv, DispatchTypes, InService
<1>3. core' \in CoreRecord /\ core'.frames = core.frames
  BY <1>1, <1>2 DEF CoreRecord
<1>4. /\ apic' \in ApicRecord /\ apic'.isr = apic.isr
      /\ (apic'.armed \/ apic'.irr # {} \/ apic'.isr # {} => apic'.initialized)
  BY <1>1, <1>2 DEF ApicRecord
<1>5. PicStateTruthful' /\ TimerVector \in Vectors
  BY <1>1, <1>2, VectorsAre DEF PicStateTruthful
<1> QED BY <1>1, <1>2, <1>3, <1>4, <1>5, RegisteringKeeps

LEMMA FinishProofKeeps ==
    ASSUME InterruptsConstants, DispatchInv, FinishTimerProof
    PROVE  DispatchInv'
<1>1. /\ core.frames = <<>> /\ ints' = ints /\ hits' = hits /\ core' = [core EXCEPT !.if = FALSE]
      /\ \/ pic' = MaskAll(pic) /\ apic' = apic
         \/ pic' = pic /\ apic' = [apic EXCEPT !.armed = FALSE]
  BY DEF FinishTimerProof, Kernel
<1>2. /\ core \in CoreRecord /\ pic \in PicRecord /\ apic \in ApicRecord /\ PicStateTruthful
      /\ (apic.armed \/ apic.irr # {} \/ apic.isr # {} => apic.initialized)
  BY DEF DispatchInv, DispatchTypes, InService
<1>3. core' \in CoreRecord /\ core'.frames = core.frames
  BY <1>1, <1>2 DEF CoreRecord
<1>4. CASE pic' = MaskAll(pic) /\ apic' = apic
  <2>1. /\ pic' \in PicRecord /\ pic'.isr = pic.isr /\ pic'.imr = Irqs
        /\ pic'.state.current = Irqs /\ pic'.state.disabled
    BY <1>2, <1>4, AllMasked
  <2>2. PicStateTruthful'
    BY <2>1 DEF PicStateTruthful
  <2> QED BY <1>1, <1>2, <1>3, <1>4, <2>1, <2>2, QuietKeeps
<1>5. CASE pic' = pic /\ apic' = [apic EXCEPT !.armed = FALSE]
  <2>1. /\ apic' \in ApicRecord /\ apic'.isr = apic.isr
        /\ (apic'.armed \/ apic'.irr # {} \/ apic'.isr # {} => apic'.initialized)
    BY <1>2, <1>5 DEF ApicRecord
  <2>2. PicStateTruthful'
    BY <1>2, <1>5 DEF PicStateTruthful
  <2> QED BY <1>1, <1>2, <1>3, <1>5, <2>1, <2>2, QuietKeeps
<1> QED BY <1>1, <1>4, <1>5

LEMMA InterruptsInitKeeps ==
    ASSUME InterruptsConstants, DispatchInv, InterruptsInit
    PROVE  DispatchInv'
<1>1. /\ core.frames = <<>> /\ ints' = Clear /\ hits' = [v \in Vectors |-> 0]
      /\ core' = core /\ pic' = pic /\ apic' = apic
  BY DEF InterruptsInit, KernelCall, Kernel
<1>2. ints' \in InterruptState /\ hits' \in [Vectors -> Nat]
  BY <1>1 DEF InterruptState, Clear
<1>3. DispatchTypes'
  BY <1>1, <1>2 DEF DispatchInv, DispatchTypes
<1>4. Nested' /\ InService' /\ PicStateTruthful'
  BY <1>1 DEF DispatchInv, Nested, InService, PicStateTruthful
<1>5. Counting'
  <2>1. Cardinality(Times(hits', Vectors)) = 0 /\ Cardinality(Times(hits', IrqVectors)) = 0
    BY <1>1, NeverDispatched, VectorsAre
  <2>2. Open' = 0 /\ Len(core'.frames) = 0
    BY <1>1 DEF Open
  <2>3. BooksOf(ints') /\ ints'.total = 0 /\ ints'.picEoi = 0 /\ ints'.nesting = 0
    BY <1>1, FS_EmptySet DEF BooksOf, Clear
  <2>4. \A v \in Vectors : hits'[v] = 0
    BY <1>1
  <2> QED BY <2>1, <2>2, <2>3, <2>4 DEF Counting, InterruptsConstants, Times, IrqVectors
<1> QED BY <1>3, <1>4, <1>5 DEF DispatchInv

-----------------------------------------------------------------------------
(* Interrupt dispatch: the theorem.                                        *)

LEMMA DispatchStep ==
    ASSUME InterruptsConstants, DispatchInv, [DispatchNext]_interruptVars
    PROVE  DispatchInv'
<1>1. CASE PicInterrupt \/ SpuriousInterrupt \/ ApicInterrupt \/ SoftwareInterrupt \/ PageFaultException
  BY <1>1, PicInterruptKeeps, SpuriousInterruptKeeps, ApicInterruptKeeps, PageFaultKeeps
<1>2. CASE ExceptionReturn \/ InterruptReturn
  BY <1>2, ExceptionReturnKeeps, InterruptReturnKeeps
<1>3. CASE RaiseIrq \/ PitFires \/ ApicTimerFires \/ ExceptionPanics
  BY <1>3, HardwareKeeps
<1>4. CASE InterruptsInit \/ PicInitAndDisable \/ ApicInit \/ SetEnabled \/ SetIrqMasked
  BY <1>4, InterruptsInitKeeps, PicInitKeeps, ApicInitKeeps, MaskingKeeps
<1>5. CASE KeyboardUnmask \/ StartPicTimerProof \/ StartApicTimerProof \/ FinishTimerProof
  BY <1>5, KeyboardUnmaskKeeps, StartPicProofKeeps, StartApicProofKeeps, FinishProofKeeps
<1>6. CASE UNCHANGED interruptVars
  BY <1>6 DEF interruptVars, DispatchInv, DispatchTypes, Nested, InService, Counting, PicStateTruthful,
              Open, Times
<1> QED BY <1>1, <1>2, <1>3, <1>4, <1>5, <1>6 DEF DispatchNext

\* Every interrupt, and every page fault nested in a handler, is acknowledged
\* once to the controller it came from and counted once, nothing stays in service
\* when no handler runs, and gPicState is what the PICs hold
\* (OrynKernelInterruptsDispatch, SendInterruptEoi, OrynKernelPicSendEoi).
THEOREM InterruptsAlwaysSound ==
    ASSUME InterruptsConstants
    PROVE  DispatchSpec => []InterruptsSound
<1>1. DispatchInit => DispatchInv
  BY DispatchInitInv
<1>2. DispatchInv /\ [DispatchNext]_interruptVars => DispatchInv'
  BY DispatchStep
<1>3. DispatchInv => InterruptsSound
  BY DispatchInvSound
<1> QED BY <1>1, <1>2, <1>3, PTL DEF DispatchSpec

-----------------------------------------------------------------------------
(* Block devices and partition tables.                                     *)

Registries ==
    [Devices : Seq(DeviceKinds), Attempts : Nat, Failures : Nat, Reads : Nat,
     BoundsFailures : Nat, Flushes : Nat, FlushFailures : Nat]

DriverRequests == [device : {<<d>> : d \in DeviceKinds}, lba : Nat, count : Nat]

PartitionEntries == [from : {"mbr", "gpt"}, Index : Nat, FirstLba : Nat, BlockCount : Nat]

Tables ==
    [Type : {"none", "mbr", "gpt"}, Valid : BOOLEAN, MbrParsed : BOOLEAN, GptParsed : BOOLEAN,
     Entries : Seq(PartitionEntries), Failures : Nat, result : BOOLEAN]

\* A request lies inside its device, and the narrow callback can hold it.
InsideDevice(q) ==
    \E d \in DeviceKinds :
        /\ q.device = <<d>>
        /\ q.count > 0 /\ q.lba + q.count <= GetBlockCount(d)
        /\ d.ReadRange \/ q.lba < Narrow

\* A request that a driver may have got: none yet, or one inside its device.
Sendable(q) ==
    \/ q = NoRequest
    \/ q \in DriverRequests /\ InsideDevice(q)

\* A table has room for its entries, and they are of one scheme.
OneScheme(t) ==
    /\ t \in Tables /\ Len(t.Entries) <= MaxEntries
    /\ \A i \in 1 .. Len(t.Entries) : t.Entries[i].from = t.Type

\* The registry has room for its devices and counts every attempt to enter one.
RegistryKept(r) ==
    /\ r \in Registries /\ Len(r.Devices) <= MaxDevices
    /\ r.Attempts = r.Failures + Len(r.Devices)

\* The inductive invariant.
StorageInv ==
    /\ RegistryKept(registry)
    /\ Sendable(sent)
    /\ OneScheme(table)
    /\ storageCalls \in 0 .. MaxStorageCalls

\* Natural numbers are well ordered: a set of them has a least one.
LEMMA LeastNatural ==
    ASSUME NEW T, T \subseteq Nat, T # {}
    PROVE  \E n \in T : \A m \in T : n <= m
<1> DEFINE F == {1 .. n : n \in T}
<1>1. IsWellFoundedOn(StrictSubsetOrdering(Nat), FiniteSubsetsOf(Nat))
  BY FS_StrictSubsetOrderingWellFounded
<1>2. F \subseteq FiniteSubsetsOf(Nat) /\ F # {}
  <2>1. \A n \in T : IsFiniteSet(1 .. n) /\ 1 .. n \subseteq Nat
    BY FS_Interval
  <2> QED BY <2>1 DEF FiniteSubsetsOf
<1>3. PICK x \in F : \A y \in F : <<y, x>> \notin StrictSubsetOrdering(Nat)
  <2> HIDE DEF F
  <2> QED BY <1>1, <1>2, WFMin
<1>4. PICK n \in T : x = 1 .. n
  BY <1>3
<1>5. ASSUME NEW m \in T, m < n PROVE FALSE
  <2>1. 1 .. m \in F
    OBVIOUS
  <2>2. m \in Nat /\ n \in Nat /\ n \in 1 .. n /\ n \notin 1 .. m
    BY <1>5
  <2>3. 1 .. m \subseteq 1 .. n /\ 1 .. m # 1 .. n /\ 1 .. n \in SUBSET Nat /\ 1 .. m \in SUBSET Nat
    BY <1>5, <2>2
  <2>4. <<1 .. m, 1 .. n>> \in StrictSubsetOrdering(Nat)
    BY <2>3 DEF StrictSubsetOrdering
  <2> QED BY <1>3, <1>4, <2>1, <2>4
<1>6. \A m \in T : m \in Nat /\ n \in Nat
  OBVIOUS
<1> QED BY <1>5, <1>6

LEMMA MinOfTwo ==
    ASSUME NEW a \in Nat, NEW b \in Nat
    PROVE  Min({a, b}) \in {a, b} /\ Min({a, b}) <= a /\ Min({a, b}) <= b
<1>1. CASE a <= b
  BY <1>1 DEF Min
<1>2. CASE b < a
  BY <1>2 DEF Min
<1> QED BY <1>1, <1>2

LEMMA BoundedMax ==
    ASSUME NEW N \in Nat, NEW T, T \subseteq 0 .. N, T # {}
    PROVE  Max(T) \in T /\ \A m \in T : m <= Max(T)
<1> DEFINE U == {N - k : k \in T}
<1>1. U \subseteq Nat /\ U # {}
  <2>1. \A k \in T : k \in Nat /\ N - k \in Nat
    OBVIOUS
  <2> QED BY <2>1
<1>2. PICK u \in U : \A m \in U : u <= m
  <2> HIDE DEF U
  <2> QED BY <1>1, LeastNatural
<1>3. PICK k \in T : u = N - k
  BY <1>2
<1>4. \A m \in T : m \in Int /\ k \in Int /\ N - m \in U
  OBVIOUS
<1>5. \A m \in T : m <= k
  BY <1>2, <1>3, <1>4
<1> QED BY <1>5 DEF Max

\* Every rank up to the size of a finite set of numbers is somebody's.
LEMMA RankTaken ==
    ASSUME NEW W, W \subseteq Nat, IsFiniteSet(W), NEW n \in 1 .. Cardinality(W)
    PROVE  \E i \in W : Cardinality({j \in W : j <= i}) = n
<1> DEFINE Upto(i) == {j \in W : j <= i}
           R == [i \in W |-> Cardinality(Upto(i))]
           c == Cardinality(W)
<1>1. c \in Nat
  BY FS_CardinalityType
<1>2. \A i \in W : IsFiniteSet(Upto(i)) /\ Cardinality(Upto(i)) \in 1 .. c
  <2> TAKE i \in W
  <2>1. IsFiniteSet(Upto(i)) /\ Cardinality(Upto(i)) <= c
    BY FS_Subset
  <2>2. Cardinality(Upto(i)) \in Nat
    BY <2>1, FS_CardinalityType
  <2>3. i \in Upto(i)
    OBVIOUS
  <2>4. Cardinality(Upto(i)) # 0
    BY <2>1, <2>3, FS_EmptySet
  <2> HIDE DEF Upto, c
  <2> QED BY <1>1, <2>1, <2>2, <2>4
<1>3. \A i, k \in W : i < k => Cardinality(Upto(i)) # Cardinality(Upto(k))
  <2> SUFFICES ASSUME NEW i \in W, NEW k \in W, i < k, Cardinality(Upto(i)) = Cardinality(Upto(k))
               PROVE  FALSE
    OBVIOUS
  <2>0. i \in Nat /\ k \in Nat /\ \A j \in W : j \in Nat
    OBVIOUS
  <2>1. \A j \in W : j <= i => j <= k
    BY <2>0
  <2>2. k \in Upto(k) /\ k \notin Upto(i)
    OBVIOUS
  <2>3. Upto(i) \in SUBSET Upto(k)
    BY <2>1
  <2>4. Upto(k) = Upto(i)
    <3> HIDE DEF Upto
    <3> QED BY <1>2, <2>3, FS_Subset
  <2> QED BY <2>2, <2>4
<1>4. \A i, k \in W : Cardinality(Upto(i)) = Cardinality(Upto(k)) => i = k
  <2> SUFFICES ASSUME NEW i \in W, NEW k \in W, Cardinality(Upto(i)) = Cardinality(Upto(k)), i # k
               PROVE  FALSE
    OBVIOUS
  <2>1. i < k \/ k < i
    OBVIOUS
  <2> HIDE DEF Upto
  <2> QED BY <1>3, <2>1
<1>5. R \in Injection(W, 1 .. c)
  <2> HIDE DEF Upto, c
  <2> QED BY <1>2, <1>4 DEF Injection, IsInjective
<1>6. IsFiniteSet(1 .. c) /\ Cardinality(1 .. c) = c
  <2> HIDE DEF c
  <2>0. 1 \in Int /\ c \in Int
    BY <1>1
  <2>1. IsFiniteSet(1 .. c) /\ Cardinality(1 .. c) = IF 1 > c THEN 0 ELSE c - 1 + 1
    BY <2>0, FS_Interval
  <2> QED BY <1>1, <2>1
<1>7. R \in Surjection(W, 1 .. c)
  <2> HIDE DEF R
  <2> QED BY <1>5, <1>6, FS_Injection
<1>8. PICK i \in W : R[i] = n
  <2> HIDE DEF R, c
  <2> QED BY <1>7 DEF Surjection, c
<1> QED BY <1>8

LEMMA PlacesFit ==
    ASSUME StorageConstants, NEW t \in Tables, t.Entries = <<>>,
           NEW W, W \subseteq Nat, IsFiniteSet(W)
    PROVE  /\ PlacesAdded(t, W) \in Seq(W)
           /\ Len(PlacesAdded(t, W)) <= MaxEntries
<1>1. PICK k : k = Min({Cardinality(W), MaxEntries})
  OBVIOUS
<1>2. Cardinality(W) \in Nat /\ MaxEntries \in Nat
  BY FS_CardinalityType DEF StorageConstants
<1>3. k \in Nat /\ k <= Cardinality(W) /\ k <= MaxEntries
  BY <1>1, <1>2, MinOfTwo
<1>4. MaxEntries - Len(t.Entries) = MaxEntries
  BY <1>2
<1>5. PlacesAdded(t, W) = [n \in 1 .. k |-> CHOOSE i \in W : Cardinality({j \in W : j <= i}) = n]
  BY <1>1, <1>4 DEF PlacesAdded
<1>6. \A n \in 1 .. k : (CHOOSE i \in W : Cardinality({j \in W : j <= i}) = n) \in W
  <2> TAKE n \in 1 .. k
  <2>1. n \in 1 .. Cardinality(W)
    BY <1>2, <1>3
  <2> QED BY <2>1, RankTaken
<1>7. PlacesAdded(t, W) \in [1 .. k -> W]
  BY <1>5, <1>6
<1>8. PlacesAdded(t, W) \in Seq(W)
  BY <1>3, <1>7, IsASeq
<1>9. Len(PlacesAdded(t, W)) = k
  BY <1>3, <1>7, <1>8, LenProperties
<1> QED BY <1>3, <1>8, <1>9

WithEntries(t, es) == [t EXCEPT !.Entries = @ \o es]

LEMMA EntriesAdded ==
    ASSUME NEW t \in Tables, t.Entries = <<>>, NEW es \in Seq(PartitionEntries)
    PROVE  /\ WithEntries(t, es) \in Tables
           /\ WithEntries(t, es).Entries = es /\ WithEntries(t, es).Type = t.Type
<1>1. <<>> \o es = es
  BY ConcatEmptySeq
<1>2. WithEntries(t, es) = [t EXCEPT !.Entries = es]
  BY <1>1 DEF WithEntries
<1> QED BY <1>2 DEF Tables

\* The entries at the places a parser keeps.
LEMMA EntriesAt ==
    ASSUME NEW W, NEW at \in Seq(W), Len(at) <= MaxEntries, NEW kind,
           NEW es \in [DOMAIN at -> PartitionEntries], \A n \in DOMAIN at : es[n].from = kind
    PROVE  /\ es \in Seq(PartitionEntries) /\ Len(es) <= MaxEntries
           /\ \A n \in 1 .. Len(es) : es[n].from = kind
<1>1. Len(at) \in Nat /\ DOMAIN at = 1 .. Len(at)
  BY LenProperties
<1>2. es \in Seq(PartitionEntries)
  BY <1>1
<1>3. Len(es) = Len(at)
  BY <1>1, <1>2, LenProperties
<1> QED BY <1>1, <1>2, <1>3

LEMMA DiskIs ==
    ASSUME StorageConstants, NEW disk \in Disks
    PROVE  /\ disk.signature \in BOOLEAN /\ disk.header \in BOOLEAN /\ disk.sizeOk \in BOOLEAN
           /\ disk.entryLba \in Nat
           /\ disk.mbr \in Seq([type : Nat, first : Nat, count : Nat])
           /\ disk.gpt \in Seq([zero : BOOLEAN, first : Nat, last : Nat])
BY DEF StorageConstants

LEMMA MbrEntriesAdded ==
    ASSUME StorageConstants, NEW disk \in Disks, NEW t \in Tables, t.Entries = <<>>,
           NEW u, u = AddMbrEntries(t, disk)
    PROVE  /\ u \in Tables /\ Len(u.Entries) <= MaxEntries /\ u.Type = t.Type
           /\ \A i \in 1 .. Len(u.Entries) : u.Entries[i].from = "mbr"
<1>1. PICK mbr \in Seq([type : Nat, first : Nat, count : Nat]) : disk.mbr = mbr
  BY DiskIs
<1> DEFINE W == {i \in DOMAIN mbr : mbr[i].type # 0 /\ mbr[i].count # 0}
           At(i) == Entry("mbr", i, mbr[i].first, mbr[i].count)
<1>2. Len(mbr) \in Nat /\ DOMAIN mbr = 1 .. Len(mbr) /\ mbr \in [1 .. Len(mbr) -> [type : Nat, first : Nat, count : Nat]]
  BY LenProperties
<1>3. W \subseteq Nat /\ IsFiniteSet(W)
  <2>1. 1 \in Int /\ Len(mbr) \in Int
    BY <1>2
  <2>2. IsFiniteSet(1 .. Len(mbr))
    BY <2>1, FS_Interval
  <2>3. W \in SUBSET (1 .. Len(mbr))
    BY <1>2
  <2> HIDE DEF W
  <2>4. IsFiniteSet(W)
    BY <2>2, <2>3, FS_Subset
  <2> QED BY <2>3, <2>4
<1>4. \A i \in W : At(i) \in PartitionEntries /\ At(i).from = "mbr"
  <2> TAKE i \in W
  <2>1. i \in Nat /\ mbr[i] \in [type : Nat, first : Nat, count : Nat]
    BY <1>2, <1>3
  <2> QED BY <2>1 DEF Entry, PartitionEntries
<1>5. PICK at : at = PlacesAdded(t, W)
  OBVIOUS
<1>6. PICK es : es = [n \in DOMAIN at |-> At(at[n])]
  OBVIOUS
<1>7. u = WithEntries(t, es)
  BY <1>1, <1>5, <1>6 DEF AddMbrEntries, WithEntries
<1> HIDE DEF W, At
<1>8. at \in Seq(W) /\ Len(at) <= MaxEntries
  BY <1>3, <1>5, PlacesFit
<1>9. /\ es \in Seq(PartitionEntries) /\ Len(es) <= MaxEntries
      /\ \A n \in 1 .. Len(es) : es[n].from = "mbr"
  <2>1. \A n \in DOMAIN at : at[n] \in W
    BY <1>8, LenProperties
  <2>2. es \in [DOMAIN at -> PartitionEntries] /\ \A n \in DOMAIN at : es[n].from = "mbr"
    BY <1>4, <1>6, <2>1
  <2> QED BY <1>8, <2>2, EntriesAt
<1> QED BY <1>7, <1>9, EntriesAdded

LEMMA GptEntriesAdded ==
    ASSUME StorageConstants, NEW disk \in Disks, NEW t \in Tables, t.Entries = <<>>,
           NEW n \in Nat, n <= Len(disk.gpt), NEW u, u = AddGptEntries(t, disk, n)
    PROVE  /\ u \in Tables /\ Len(u.Entries) <= MaxEntries /\ u.Type = t.Type
           /\ \A i \in 1 .. Len(u.Entries) : u.Entries[i].from = "gpt"
<1>1. PICK gpt \in Seq([zero : BOOLEAN, first : Nat, last : Nat]) : disk.gpt = gpt
  BY DiskIs
<1> DEFINE W == {i \in 1 .. n : ~gpt[i].zero}
           At(i) == Entry("gpt", i, gpt[i].first, (gpt[i].last - gpt[i].first + 1) % Wide)
<1>2. Len(gpt) \in Nat /\ gpt \in [1 .. Len(gpt) -> [zero : BOOLEAN, first : Nat, last : Nat]]
  BY LenProperties
<1>3. W \subseteq Nat /\ IsFiniteSet(W)
  <2>1. 1 \in Int /\ n \in Int
    OBVIOUS
  <2>2. IsFiniteSet(1 .. n)
    BY <2>1, FS_Interval
  <2>3. W \in SUBSET (1 .. n)
    OBVIOUS
  <2> HIDE DEF W
  <2>4. IsFiniteSet(W)
    BY <2>2, <2>3, FS_Subset
  <2> QED BY <2>3, <2>4
<1>4. \A i \in W : At(i) \in PartitionEntries /\ At(i).from = "gpt"
  <2> TAKE i \in W
  <2>1. i \in 1 .. Len(gpt) /\ i \in Nat
    BY <1>1, <1>2
  <2>2. PICK e \in [zero : BOOLEAN, first : Nat, last : Nat] : e = gpt[i]
    BY <1>2, <2>1
  <2>3. PICK x \in Int : x = gpt[i].last - gpt[i].first + 1
    <3>1. e.last \in Nat /\ e.first \in Nat
      OBVIOUS
    <3> QED BY <2>2, <3>1
  <2>4. x % Wide \in Nat
    <3>1. Wide \in Nat /\ Wide > 0
      BY DEF StorageConstants
    <3> QED BY <3>1
  <2>5. At(i) = Entry("gpt", i, e.first, x % Wide)
    BY <2>2, <2>3
  <2> HIDE DEF At
  <2> QED BY <2>1, <2>2, <2>4, <2>5 DEF Entry, PartitionEntries
<1>5. PICK at : at = PlacesAdded(t, W)
  OBVIOUS
<1>6. PICK es : es = [k \in DOMAIN at |-> At(at[k])]
  OBVIOUS
<1>7. u = WithEntries(t, es)
  BY <1>1, <1>5, <1>6 DEF AddGptEntries, WithEntries
<1> HIDE DEF W, At
<1>8. at \in Seq(W) /\ Len(at) <= MaxEntries
  BY <1>3, <1>5, PlacesFit
<1>9. /\ es \in Seq(PartitionEntries) /\ Len(es) <= MaxEntries
      /\ \A k \in 1 .. Len(es) : es[k].from = "gpt"
  <2>1. \A k \in DOMAIN at : at[k] \in W
    BY <1>8, LenProperties
  <2>2. es \in [DOMAIN at -> PartitionEntries] /\ \A k \in DOMAIN at : es[k].from = "gpt"
    BY <1>4, <1>6, <2>1
  <2> QED BY <1>8, <2>2, EntriesAt
<1> QED BY <1>7, <1>9, EntriesAdded

\* A GPT is read as far as its sectors can be, and no further than it is long.
LEMMA GptIsRead ==
    ASSUME StorageConstants, NEW d, NEW disk \in Disks
    PROVE  /\ GptSectors(disk) \in Seq(Nat) /\ Len(GptSectors(disk)) <= Len(disk.gpt)
           /\ GptReadable(d, disk) \in 0 .. Len(GptSectors(disk))
<1>1. PICK n : n = Min({Len(disk.gpt), MaxEntries})
  OBVIOUS
<1>2. Len(disk.gpt) \in Nat /\ MaxEntries \in Nat
  BY DiskIs, LenProperties DEF StorageConstants
<1>3. n \in Nat /\ n <= Len(disk.gpt)
  BY <1>1, <1>2, MinOfTwo
<1>4. GptSectors(disk) \in [1 .. n -> Nat]
  <2>1. disk.entryLba \in Nat /\ Wide \in Nat /\ Wide > 0
    BY DiskIs DEF StorageConstants
  <2>2. PICK lba \in Nat : lba = disk.entryLba
    BY <2>1
  <2>3. \A i \in 1 .. n : lba + (i - 1) \in Int /\ (lba + (i - 1)) % Wide \in Nat
    BY <1>3, <2>1
  <2>4. GptSectors(disk) = [i \in 1 .. n |-> (lba + (i - 1)) % Wide]
    BY <1>1, <2>2 DEF GptSectors
  <2> QED BY <2>3, <2>4
<1>5. GptSectors(disk) \in Seq(Nat)
  BY <1>3, <1>4
<1>6. Len(GptSectors(disk)) = n
  BY <1>3, <1>4, <1>5, LenProperties
<1>7. PICK T : T = {k \in 0 .. n : \A i \in 1 .. k : Readable(d, GptSectors(disk)[i])}
  OBVIOUS
<1>8. T \subseteq 0 .. n /\ 0 \in T
  BY <1>3, <1>7
<1>9. Max(T) \in T
  BY <1>3, <1>8, BoundedMax
<1>10. GptReadable(d, disk) = Max(T)
  BY <1>6, <1>7 DEF GptReadable
<1> QED BY <1>3, <1>5, <1>6, <1>8, <1>9, <1>10

LEMMA EmptyTable == ASSUME StorageConstants PROVE OneScheme(NoTable) /\ NoTable.Entries = <<>>
<1>1. <<>> \in Seq(PartitionEntries) /\ Len(<<>>) = 0
  OBVIOUS
<1>2. NoTable \in Tables /\ NoTable.Entries = <<>>
  BY <1>1 DEF NoTable, Tables
<1> QED BY <1>1, <1>2 DEF OneScheme, StorageConstants

\* What a parse does to a table besides its entries.
Claimed(t, type, gpt) ==
    IF gpt THEN [t EXCEPT !.Type = type, !.Valid = TRUE, !.GptParsed = TRUE]
    ELSE [t EXCEPT !.Type = type, !.Valid = TRUE, !.MbrParsed = TRUE]

WithResult(t, r) == [t EXCEPT !.result = r]

LEMMA ClaimedIs ==
    ASSUME NEW t \in Tables, NEW type \in {"mbr", "gpt"}, NEW gpt \in BOOLEAN
    PROVE  /\ Claimed(t, type, gpt) \in Tables
           /\ Claimed(t, type, gpt).Entries = t.Entries /\ Claimed(t, type, gpt).Type = type
BY DEF Claimed, Tables

LEMMA ResultSet ==
    ASSUME NEW t, OneScheme(t), NEW r \in BOOLEAN
    PROVE  /\ OneScheme(WithResult(t, r)) /\ WithResult(t, r).Entries = t.Entries
           /\ WithResult(t, r).result = r
<1>1. t \in Tables
  BY DEF OneScheme
<1>2. /\ WithResult(t, r) \in Tables /\ WithResult(t, r).Entries = t.Entries
      /\ WithResult(t, r).Type = t.Type /\ WithResult(t, r).result = r
  BY <1>1 DEF WithResult, Tables
<1> QED BY <1>2 DEF OneScheme

\* A GPT that was not taken leaves no entries behind for the boot sector's.
LEMMA ParseGptIs ==
    ASSUME StorageConstants, NEW d, NEW disk \in Disks
    PROVE  /\ OneScheme(ParseGpt(d, disk, NoTable))
           /\ ParseGpt(d, disk, NoTable).result \/ ParseGpt(d, disk, NoTable).Entries = <<>>
<1>1. PICK t : t = Claimed(NoTable, "gpt", TRUE)
  OBVIOUS
<1>2. t \in Tables /\ t.Entries = <<>> /\ t.Type = "gpt"
  BY <1>1, EmptyTable, ClaimedIs DEF OneScheme
<1>3. PICK n : n = GptReadable(d, disk)
  OBVIOUS
<1>4. n \in Nat /\ n <= Len(disk.gpt)
  <2>1. Len(disk.gpt) \in Nat /\ Len(GptSectors(disk)) \in Nat
    BY DiskIs, GptIsRead, LenProperties
  <2> QED BY <1>3, <2>1, GptIsRead
<1>5. PICK u : u = AddGptEntries(t, disk, n)
  OBVIOUS
<1>6. /\ u \in Tables /\ Len(u.Entries) <= MaxEntries /\ u.Type = t.Type
      /\ \A i \in 1 .. Len(u.Entries) : u.Entries[i].from = "gpt"
  BY <1>2, <1>4, <1>5, GptEntriesAdded
<1>7. OneScheme(u)
  BY <1>2, <1>6 DEF OneScheme
<1>8. GptEntries(d, disk, NoTable) = u
  BY <1>1, <1>3, <1>5 DEF GptEntries, Claimed
<1>9. CASE ~GptHeaderValid(d, disk)
  BY <1>9, EmptyTable DEF ParseGpt
<1>10. CASE GptHeaderValid(d, disk)
  <2>1. ParseGpt(d, disk, NoTable) = WithResult(u, u.Entries # <<>>)
    BY <1>8, <1>10 DEF ParseGpt, WithResult
  <2>2. PICK r \in BOOLEAN : r = (u.Entries # <<>>)
    OBVIOUS
  <2>3. /\ OneScheme(WithResult(u, r)) /\ WithResult(u, r).Entries = u.Entries
        /\ WithResult(u, r).result = r
    BY <1>7, ResultSet
  <2> QED BY <2>1, <2>2, <2>3
<1> QED BY <1>9, <1>10

LEMMA ParseMbrIs ==
    ASSUME StorageConstants, NEW d, NEW disk \in Disks, NEW t, OneScheme(t), t.Entries = <<>>
    PROVE  OneScheme(ParseMbr(d, disk, t))
<1>1. PICK c : c = Claimed(t, "mbr", FALSE)
  OBVIOUS
<1>2. c \in Tables /\ c.Entries = <<>> /\ c.Type = "mbr"
  BY <1>1, ClaimedIs DEF OneScheme
<1>3. PICK u : u = AddMbrEntries(c, disk)
  OBVIOUS
<1>4. /\ u \in Tables /\ Len(u.Entries) <= MaxEntries /\ u.Type = c.Type
      /\ \A i \in 1 .. Len(u.Entries) : u.Entries[i].from = "mbr"
  BY <1>2, <1>3, MbrEntriesAdded
<1>5. OneScheme(u)
  BY <1>2, <1>4 DEF OneScheme
<1>6. CASE ~Readable(d, 0) \/ ~disk.signature
  <2>1. ParseMbr(d, disk, t) = WithResult(t, FALSE)
    BY <1>6 DEF ParseMbr, WithResult
  <2> QED BY <2>1, ResultSet
<1>7. CASE ~(~Readable(d, 0) \/ ~disk.signature)
  <2>1. ParseMbr(d, disk, t) = WithResult(u, u.Entries # <<>>)
    BY <1>1, <1>3, <1>7 DEF ParseMbr, WithResult, Claimed
  <2>2. PICK r \in BOOLEAN : r = (u.Entries # <<>>)
    OBVIOUS
  <2> QED BY <1>5, <2>1, <2>2, ResultSet
<1> QED BY <1>6, <1>7

LEMMA HandedInside ==
    ASSUME StorageConstants, NEW d \in DeviceKinds, NEW lba \in Nat, NEW count \in Nat,
           ValidateRange64(d, lba, count), NEW q \in Handed(d, lba, count)
    PROVE  q \in DriverRequests /\ InsideDevice(q)
<1>1. q = [device |-> <<d>>, lba |-> lba, count |-> count] /\ (d.ReadRange \/ lba < Narrow)
  BY DEF Handed
<1>2. PICK blocks \in Nat : blocks = GetBlockCount(d)
  BY DEF GetBlockCount, StorageConstants
<1>3. count # 0 /\ lba < blocks /\ count <= blocks - lba
  BY <1>2 DEF ValidateRange64
<1>4. count > 0 /\ lba + count <= blocks
  BY <1>3
<1>5. q.device = <<d>> /\ q.lba = lba /\ q.count = count /\ q \in DriverRequests
  BY <1>1 DEF DriverRequests
<1> QED BY <1>1, <1>2, <1>4, <1>5 DEF InsideDevice

\* The sectors a parse asks for are numbers.
LEMMA ReadsAreNumbers ==
    ASSUME StorageConstants, NEW d, NEW disk \in Disks
    PROVE  ParseReads(d, disk) \in Seq(Nat)
<1>1. PICK at \in Seq(Nat) : at = GptSectors(disk)
  BY GptIsRead
<1>2. PICK m \in Nat : m = GptReadable(d, disk)
  <2>1. Len(at) \in Nat
    BY LenProperties
  <2> QED BY <1>1, <2>1, GptIsRead
<1>3. PICK n : n = Min({Len(at), m + 1})
  OBVIOUS
<1>4. n \in Nat /\ n <= Len(at)
  <2>1. Len(at) \in Nat /\ m + 1 \in Nat
    BY LenProperties
  <2>2. n \in {Len(at), m + 1} /\ n <= Len(at)
    BY <1>3, <2>1, MinOfTwo
  <2> QED BY <2>1, <2>2
<1>5. SubSeq(at, 1, n) \in Seq(Nat)
  <2>1. \A i \in 1 .. n : at[i] \in Nat
    BY <1>4, LenProperties
  <2> QED BY <1>4, <2>1, SubSeqProperties
<1>6. PICK gpt \in Seq(Nat) : gpt = <<1>> \o (IF GptHeaderValid(d, disk) THEN SubSeq(at, 1, n) ELSE <<>>)
  <2>1. <<1>> \in Seq(Nat) /\ <<>> \in Seq(Nat)
    OBVIOUS
  <2> QED BY <1>5, <2>1, ConcatProperties
<1>7. ParseReads(d, disk) = IF ParseGpt(d, disk, NoTable).result THEN gpt ELSE Append(gpt, 0)
  BY <1>1, <1>2, <1>3, <1>6 DEF ParseReads
<1>8. Append(gpt, 0) \in Seq(Nat)
  BY AppendProperties
<1> QED BY <1>7, <1>8

\* Counting reads and failures changes no other counter.
CountedReads(r, good, bad) == [r EXCEPT !.Reads = @ + good, !.BoundsFailures = @ + bad]

LEMMA ReadsCounted ==
    ASSUME NEW r \in Registries, NEW good \in Nat, NEW bad \in Nat
    PROVE  /\ CountedReads(r, good, bad) \in Registries
           /\ CountedReads(r, good, bad).Devices = r.Devices
           /\ CountedReads(r, good, bad).Attempts = r.Attempts
           /\ CountedReads(r, good, bad).Failures = r.Failures
<1>1. PICK a \in Nat, b \in Nat : a = r.Reads /\ b = r.BoundsFailures
  BY DEF Registries
<1>2. a + good \in Nat /\ b + bad \in Nat
  OBVIOUS
<1>3. CountedReads(r, good, bad) = [r EXCEPT !.Reads = a + good, !.BoundsFailures = b + bad]
  BY <1>1 DEF CountedReads
<1> QED BY <1>2, <1>3 DEF Registries

LEMMA AfterReadsIs ==
    ASSUME StorageConstants, registry \in Registries, Sendable(sent),
           NEW d \in DeviceKinds, NEW reads \in Seq(Nat)
    PROVE  /\ Sendable(AfterReads(d, reads).sent)
           /\ \E good, bad \in Nat : AfterReads(d, reads).reg = CountedReads(registry, good, bad)
<1>1. Len(reads) \in Nat /\ DOMAIN reads = 1 .. Len(reads) /\ \A i \in DOMAIN reads : reads[i] \in Nat
  BY LenProperties
<1>2. PICK R : R = {i \in DOMAIN reads : ValidateRange64(d, reads[i], 1)}
  OBVIOUS
<1>3. PICK H : H = {i \in R : Handed(d, reads[i], 1) # {}}
  OBVIOUS
<1>4. PICK B : B = DOMAIN reads \ R
  OBVIOUS
<1>5. Cardinality(R) \in Nat /\ Cardinality(B) \in Nat
  <2>1. 1 \in Int /\ Len(reads) \in Int
    BY <1>1
  <2>2. IsFiniteSet(DOMAIN reads)
    BY <1>1, <2>1, FS_Interval
  <2>3. R \in SUBSET DOMAIN reads /\ B \in SUBSET DOMAIN reads
    BY <1>2, <1>4
  <2> QED BY <2>2, <2>3, FS_Subset, FS_CardinalityType
<1>6. AfterReads(d, reads).reg = CountedReads(registry, Cardinality(R), Cardinality(B))
  BY <1>2, <1>4 DEF AfterReads, CountedReads
<1>7. AfterReads(d, reads).sent = IF H = {} THEN sent ELSE CHOOSE q \in Handed(d, reads[Max(H)], 1) : TRUE
  BY <1>2, <1>3 DEF AfterReads
<1>8. CASE H # {}
  <2>1. PICK i : i = Max(H)
    OBVIOUS
  <2>2. i \in H
    <3>1. H \subseteq 0 .. Len(reads)
      BY <1>1, <1>2, <1>3
    <3> QED BY <1>1, <1>8, <2>1, <3>1, BoundedMax
  <2>3. ValidateRange64(d, reads[i], 1) /\ Handed(d, reads[i], 1) # {} /\ reads[i] \in Nat
    BY <1>1, <1>2, <1>3, <2>2
  <2>4. PICK q \in Handed(d, reads[i], 1) : q = AfterReads(d, reads).sent
    BY <1>7, <1>8, <2>1, <2>3
  <2>5. q \in DriverRequests /\ InsideDevice(q)
    BY <2>3, HandedInside
  <2> QED BY <1>5, <1>6, <2>4, <2>5 DEF Sendable
<1> QED BY <1>5, <1>6, <1>7, <1>8

LEMMA ParseKeeps ==
    ASSUME StorageConstants, RegistryKept(registry), Sendable(sent),
           NEW d \in DeviceKinds, NEW disk \in Disks, Parse(d, disk)
    PROVE  RegistryKept(registry)' /\ Sendable(sent)' /\ OneScheme(table)'
<1>1. PICK after : after = AfterReads(d, ParseReads(d, disk))
  OBVIOUS
<1>2. registry' = after.reg /\ sent' = after.sent
  BY <1>1 DEF Parse
<1>3. PICK good \in Nat, bad \in Nat : after.reg = CountedReads(registry, good, bad)
  BY <1>1, ReadsAreNumbers, AfterReadsIs DEF RegistryKept
<1>4. Sendable(after.sent)
  BY <1>1, ReadsAreNumbers, AfterReadsIs DEF RegistryKept
<1>5. RegistryKept(after.reg)
  <2>1. registry \in Registries
    BY DEF RegistryKept
  <2>2. /\ after.reg \in Registries /\ after.reg.Devices = registry.Devices
        /\ after.reg.Attempts = registry.Attempts /\ after.reg.Failures = registry.Failures
    BY <1>3, <2>1, ReadsCounted
  <2> QED BY <2>2 DEF RegistryKept
<1>6. PICK gpt : gpt = ParseGpt(d, disk, NoTable)
  OBVIOUS
<1>7. OneScheme(gpt) /\ (gpt.result \/ gpt.Entries = <<>>)
  BY <1>6, ParseGptIs
<1>8. PICK mbr : mbr = ParseMbr(d, disk, gpt)
  OBVIOUS
<1>9. table' = IF gpt.result THEN gpt ELSE IF mbr.result THEN mbr ELSE [mbr EXCEPT !.Failures = 1]
  BY <1>6, <1>8 DEF Parse
<1>10. gpt.result \/ OneScheme(mbr)
  BY <1>7, <1>8, ParseMbrIs
<1>11. OneScheme(mbr) => OneScheme([mbr EXCEPT !.Failures = 1])
  BY DEF OneScheme, Tables
<1>12. OneScheme(table')
  BY <1>7, <1>9, <1>10, <1>11
<1> QED BY <1>2, <1>4, <1>5, <1>12

\* Counting once in a counter other than those of the attempts.
LEMMA OneCounted ==
    ASSUME NEW r, RegistryKept(r), NEW s, NEW n \in Nat,
           \/ s = [r EXCEPT !.Reads = n] \/ s = [r EXCEPT !.BoundsFailures = n]
           \/ s = [r EXCEPT !.Flushes = n] \/ s = [r EXCEPT !.FlushFailures = n]
    PROVE  RegistryKept(s)
<1>1. r \in Registries
  BY DEF RegistryKept
<1>2. /\ s \in Registries /\ s.Devices = r.Devices
      /\ s.Attempts = r.Attempts /\ s.Failures = r.Failures
  BY <1>1 DEF Registries
<1> QED BY <1>2 DEF RegistryKept

LEMMA CountersAre ==
    ASSUME NEW r, RegistryKept(r)
    PROVE  /\ r.Reads + 1 \in Nat /\ r.BoundsFailures + 1 \in Nat
           /\ r.Flushes + 1 \in Nat /\ r.FlushFailures + 1 \in Nat
<1>1. r.Reads \in Nat /\ r.BoundsFailures \in Nat /\ r.Flushes \in Nat /\ r.FlushFailures \in Nat
  BY DEF RegistryKept, Registries
<1> QED BY <1>1

LEMMA ReadKeeps ==
    ASSUME StorageConstants, RegistryKept(registry), Sendable(sent),
           NEW d \in DeviceKinds, NEW lba \in Nat, NEW n \in Nat, ReadSectors64(d, lba, n)
    PROVE  RegistryKept(registry)' /\ Sendable(sent)' /\ table' = table
<1>1. CASE ValidateRange64(d, lba, n)
  <2>1. registry' = [registry EXCEPT !.Reads = @ + 1] /\ (sent' = sent \/ sent' \in Handed(d, lba, n))
    BY <1>1 DEF ReadSectors64
  <2>2. Sendable(sent')
    BY <1>1, <2>1, HandedInside DEF Sendable
  <2>3. RegistryKept(registry')
    <3>1. PICK n1 \in Nat : n1 = registry.Reads + 1
      BY CountersAre
    <3>2. registry' = [registry EXCEPT !.Reads = n1]
      BY <2>1, <3>1
    <3> QED BY <3>2, OneCounted
  <2> QED BY <2>2, <2>3 DEF ReadSectors64
<1>2. CASE ~ValidateRange64(d, lba, n)
  <2>1. registry' = [registry EXCEPT !.BoundsFailures = @ + 1] /\ sent' = sent
    BY <1>2 DEF ReadSectors64, BoundsFailed
  <2>2. RegistryKept(registry')
    <3>1. PICK n1 \in Nat : n1 = registry.BoundsFailures + 1
      BY CountersAre
    <3>2. registry' = [registry EXCEPT !.BoundsFailures = n1]
      BY <2>1, <3>1
    <3> QED BY <3>2, OneCounted
  <2> QED BY <2>1, <2>2 DEF ReadSectors64
<1> QED BY <1>1, <1>2

LEMMA FlushKeeps ==
    ASSUME RegistryKept(registry), NEW d, FlushDevice(d)
    PROVE  RegistryKept(registry)' /\ sent' = sent /\ table' = table
<1>1. \/ registry' = [registry EXCEPT !.Flushes = @ + 1]
      \/ registry' = [registry EXCEPT !.FlushFailures = @ + 1]
  BY DEF FlushDevice
<1>2. RegistryKept(registry')
  <2>1. PICK n \in Nat, k \in Nat : n = registry.Flushes + 1 /\ k = registry.FlushFailures + 1
    BY CountersAre
  <2>2. registry' = [registry EXCEPT !.Flushes = n] \/ registry' = [registry EXCEPT !.FlushFailures = k]
    BY <1>1, <2>1
  <2> QED BY <2>2, OneCounted
<1> QED BY <1>2 DEF FlushDevice

\* The registry after an attempt to enter a device.
Attempted(r, ds, a, f, b) ==
    [r EXCEPT !.Devices = ds, !.Attempts = a, !.Failures = f, !.BoundsFailures = b]

LEMMA RegisterKeeps ==
    ASSUME StorageConstants, RegistryKept(registry), NEW d \in DeviceKinds, RegisterDevice(d)
    PROVE  RegistryKept(registry)' /\ sent' = sent /\ table' = table
<1>1. PICK r \in Registries : r = registry
  BY DEF RegistryKept
<1>2. PICK ds \in Seq(DeviceKinds), a \in Nat, f \in Nat, b \in Nat :
         ds = r.Devices /\ a = r.Attempts /\ f = r.Failures /\ b = r.BoundsFailures
  BY DEF Registries
<1>3. a = f + Len(ds) /\ Len(ds) <= MaxDevices /\ Len(ds) \in Nat /\ MaxDevices \in Nat
  BY <1>1, <1>2, LenProperties DEF RegistryKept, StorageConstants
<1>4. \/ registry' = Attempted(r, Append(ds, d), a + 1, f, b) /\ Len(ds) < MaxDevices
      \/ registry' = Attempted(r, ds, a + 1, f + 1, b)
      \/ registry' = Attempted(r, ds, a + 1, f + 1, b + 1)
  BY <1>1, <1>2 DEF RegisterDevice, BoundsFailed, Attempted, Registries
<1>5. CASE registry' = Attempted(r, Append(ds, d), a + 1, f, b) /\ Len(ds) < MaxDevices
  <2>1. Append(ds, d) \in Seq(DeviceKinds) /\ Len(Append(ds, d)) = Len(ds) + 1
    BY AppendProperties
  <2>2. a + 1 \in Nat /\ a + 1 = f + (Len(ds) + 1) /\ Len(ds) + 1 <= MaxDevices
    BY <1>3, <1>5
  <2>3. PICK s : s = Attempted(r, Append(ds, d), a + 1, f, b)
    OBVIOUS
  <2>4. s \in Registries /\ s.Devices = Append(ds, d) /\ s.Attempts = a + 1 /\ s.Failures = f
    BY <2>1, <2>2, <2>3 DEF Attempted, Registries
  <2>5. RegistryKept(s)
    BY <2>1, <2>2, <2>4 DEF RegistryKept
  <2> QED BY <1>5, <2>3, <2>5 DEF RegisterDevice
<1>6. ASSUME NEW c \in Nat, registry' = Attempted(r, ds, a + 1, f + 1, c)
      PROVE  RegistryKept(registry')
  <2>1. a + 1 \in Nat /\ f + 1 \in Nat /\ a + 1 = (f + 1) + Len(ds)
    BY <1>3
  <2>2. PICK s : s = Attempted(r, ds, a + 1, f + 1, c)
    OBVIOUS
  <2>3. s \in Registries /\ s.Devices = ds /\ s.Attempts = a + 1 /\ s.Failures = f + 1
    BY <2>1, <2>2 DEF Attempted, Registries
  <2>4. RegistryKept(s)
    BY <1>3, <2>1, <2>3 DEF RegistryKept
  <2> QED BY <1>6, <2>2, <2>4
<1>7. b + 1 \in Nat
  OBVIOUS
<1> QED BY <1>4, <1>5, <1>6, <1>7 DEF RegisterDevice

LEMMA StorageInitInv == ASSUME StorageConstants, StorageInit PROVE StorageInv
<1>1. <<>> \in Seq(DeviceKinds) /\ Len(<<>>) = 0 /\ MaxDevices \in Nat /\ MaxStorageCalls \in Nat
  BY DEF StorageConstants
<1>2. RegistryKept(registry)
  BY <1>1 DEF StorageInit, NoRegistry, RegistryKept, Registries
<1>3. Sendable(sent) /\ OneScheme(table) /\ storageCalls \in 0 .. MaxStorageCalls
  BY <1>1, EmptyTable DEF StorageInit, Sendable
<1> QED BY <1>2, <1>3 DEF StorageInv

LEMMA StorageStep ==
    ASSUME StorageConstants, StorageInv, [StorageNext]_storageVars
    PROVE  StorageInv'
<1>1. CASE UNCHANGED storageVars
  BY <1>1 DEF storageVars, StorageInv
<1>2. CASE StorageNext
  <2>1. storageCalls' \in 0 .. MaxStorageCalls
    BY <1>2 DEF StorageNext, StorageInv, StorageConstants
  <2>2. RegistryKept(registry) /\ Sendable(sent) /\ OneScheme(table)
    BY DEF StorageInv
  <2>3. CASE \E d \in DeviceKinds : RegisterDevice(d)
    BY <2>1, <2>2, <2>3, RegisterKeeps DEF StorageInv
  <2>4. CASE \E d \in DeviceKinds, lba \in 0 .. Wide - 1, n \in 0 .. Narrow - 1 : ReadSectors64(d, lba, n)
    <3>1. PICK d \in DeviceKinds, lba \in 0 .. Wide - 1, n \in 0 .. Narrow - 1 : ReadSectors64(d, lba, n)
      BY <2>4
    <3>2. lba \in Nat /\ n \in Nat
      BY DEF StorageConstants
    <3> QED BY <2>1, <2>2, <3>1, <3>2, ReadKeeps DEF StorageInv
  <2>5. CASE \E d \in DeviceKinds : FlushDevice(d)
    BY <2>1, <2>2, <2>5, FlushKeeps DEF StorageInv
  <2>6. CASE \E d \in DeviceKinds, disk \in Disks : Parse(d, disk)
    BY <2>1, <2>2, <2>6, ParseKeeps DEF StorageInv
  <2> QED BY <1>2, <2>3, <2>4, <2>5, <2>6 DEF StorageNext
<1> QED BY <1>1, <1>2

LEMMA StorageInvSound == ASSUME StorageConstants, StorageInv PROVE StorageSound
<1>1. StorageTypeOK
  BY DEF StorageInv, StorageTypeOK, RegistryKept, OneScheme
<1>2. RangeInside
  <2>1. CASE sent = NoRequest
    BY <2>1 DEF RangeInside
  <2>2. CASE InsideDevice(sent)
    <3>1. PICK d \in DeviceKinds :
             /\ sent.device = <<d>>
             /\ sent.count > 0 /\ sent.lba + sent.count <= GetBlockCount(d)
             /\ d.ReadRange \/ sent.lba < Narrow
      BY <2>2 DEF InsideDevice
    <3>2. sent.device[1] = d
      BY <3>1
    <3> QED BY <3>1, <3>2 DEF RangeInside
  <2> QED BY <2>1, <2>2 DEF StorageInv, Sendable
<1>3. EntriesOfOneScheme
  BY DEF StorageInv, OneScheme, EntriesOfOneScheme
<1> QED BY <1>1, <1>2, <1>3 DEF StorageSound

\* Every request a driver gets lies inside its device, the registry counts its
\* attempts, and a partition table is of one scheme, for every width of a block
\* number, every set of devices and disks, every size of the registry and of a
\* table and any number of calls (OrynKernelBlockValidateRange64,
\* OrynKernelBlockReadSectors64, OrynKernelPartitionParse).
THEOREM StorageAlwaysSound ==
    ASSUME StorageConstants
    PROVE  StorageSpec => []StorageSound
<1>1. StorageInit => StorageInv
  BY StorageInitInv
<1>2. StorageInv /\ [StorageNext]_storageVars => StorageInv'
  BY StorageStep
<1>3. StorageInv => StorageSound
  BY StorageInvSound
<1> QED BY <1>1, <1>2, <1>3, PTL DEF StorageSpec

-----------------------------------------------------------------------------
(* The loader: the invariant.                                              *)

\* Once the image is loaded, once the record is filled, once the page tables are
\* built, and once the record is sealed.
Loaded == {"loaded", "info", "paged", "sized", "got", "exited", "kernel", "validated"}
FilledIn == Loaded \ {"loaded"}
TablesBuilt == FilledIn \ {"info"}
SealedIn == {"got", "exited", "kernel", "validated"}

\* A region of the firmware's map lies in memory, and page 0 is not free.
Regions ==
    {r \in [type : MemoryTypes, start : Nat, pages : Nat \ {0}] :
        /\ r.start + r.pages <= Cells \div PageSize
        /\ r.type = "conventional" => r.start > 0}

SoundMap(m) == m \in Seq(Regions) /\ m # <<>>

InfoFields ==
    {"Signature", "Version", "Size", "Flags", "MemoryMap", "Framebuffer", "Rsdp", "Tables",
     "KernelBase", "KernelSize", "VirtualBase", "VirtualSize", "EntryPhysical", "EntryVirtual",
     "Font", "UefiRevision", "Nvram", "Runtime", "Config", "HandoffChecksum"}

\* A record has the fields of an OrynBootInfo.
Shaped(b) == b = [f \in InfoFields |-> b[f]]

\* Rsdp is the best of the copied tables.
BestRsdp(b) ==
    \/ b.Tables[b.Rsdp] = "acpi20"
    \/ \A i \in DOMAIN b.Tables : b.Tables[i] # "acpi20"

\* What the kernel finds in a record whose items come from F, but for the
\* checksum, and the kernel range of a build that dropped it.
HandedOver(b, F) ==
    /\ Shaped(b) /\ AbiIsCompatible(b) /\ b.Size \in Nat /\ b.Rsdp \in Nat
    /\ b.MemoryMap \in Seq(Regions)
    /\ b.Flags \cap Items \subseteq F \cap want
    /\ "range" \in want => ValidKernelRange(b) /\ ValidKernelVirtualLayout(b)
    /\ Appendable(b)
    /\ ValidFramebuffer(b) /\ ValidPlatformTables(b) /\ ValidNvramSnapshot(b)
    /\ ValidRuntimeServices(b) /\ ValidBootConfiguration(b)
    /\ "rsdp" \in b.Flags => b.Rsdp # 0 /\ BestRsdp(b)
    /\ "firmware" \in b.Flags => b.UefiRevision # 0

LoaderTypes ==
    /\ lstage \in Loaded \cup {"start", "read", "returned"}
    /\ want \in Selections /\ firmware \in Firmwares /\ image \in Images
    /\ SoundMap(fwmap) /\ memory \in [0 .. Cells - 1 -> Int]
    /\ attempt \in 0 .. MaxAttempts /\ growth \in 0 .. MaxGrowth
    /\ accepted \in {"unknown", "valid", "invalid"}
    /\ stale \in BOOLEAN /\ corrupted \in BOOLEAN
    /\ lstage \in {"start", "read", "loaded", "info", "paged"} => attempt = 0
    /\ lstage \in {"sized", "got"} => attempt < MaxAttempts

\* The image is where the layout says.
InPlace(mem, im, base) ==
    LET low == FindElfLayout(im).PhysicalBase
    IN  \A i \in 1 .. Len(im.segments) :
            \A k \in 0 .. im.segments[i].memsz - 1 :
                mem[base + (im.segments[i].paddr - low) + k] = SegmentCell(im.segments[i], k)

ImageLoaded ==
    /\ lstage \in Loaded =>
         /\ Loadable(image)
         /\ \E page \in Nat \ {0} :
               /\ layout = Relocated(FindElfLayout(image), page * PageSize)
               /\ InPlace(memory, image, page * PageSize)
    /\ lstage \in TablesBuilt => tables = PrepareTables(layout)

\* What is handed over is what a kernel accepts, sealed over the current map;
\* what was changed afterwards does not verify.
RecordSound ==
    /\ info.Flags \subseteq KnownFlags
    /\ lstage \in {"start", "read", "loaded"} => Shaped(info) /\ info.Font \in {0, 1}
    /\ lstage \in FilledIn /\ ~corrupted => HandedOver(info, Items)
    /\ lstage \in SealedIn /\ ~corrupted => VerifyHandoffChecksum(info)
    /\ /\ lstage \in SealedIn /\ (lstage = "got" => ~stale) /\ ~corrupted
       /\ "map" \in info.Flags
       => info.MemoryMap = fwmap
    /\ corrupted => /\ lstage \in {"kernel", "validated"}
                    /\ ~AbiIsCompatible(info) \/ ~VerifyHandoffChecksum(info)
    /\ lstage = "validated" =>
         accepted = IF KernelBootInfoValidate(info, want) THEN "valid" ELSE "invalid"

\* The inductive invariant.
LoaderInv ==
    /\ LoaderTypes
    /\ ImageLoaded
    /\ RecordSound

-----------------------------------------------------------------------------
(* Pages: quotient and remainder.                                          *)

LEMMA DivideOnce ==
    ASSUME NEW P \in Nat \ {0}, NEW q \in Int, NEW r \in 0 .. P - 1,
           NEW x \in Int, NEW s \in 0 .. P - 1, q * P + r = x * P + s
    PROVE  q = x /\ r = s
<1>1. (q - x) * P = s - r
  OBVIOUS
<1>2. PICK d \in Int : d = q - x
  OBVIOUS
<1>3. d * P = s - r
  BY <1>1, <1>2
<1>4. ~ d >= 1
  BY <1>3
<1>5. ~ d <= -1
  BY <1>3
<1>6. d = 0
  BY <1>4, <1>5
<1> QED BY <1>2, <1>3, <1>6

LEMMA Divided ==
    ASSUME NEW P \in Nat \ {0}, NEW a \in Int
    PROVE  /\ a \div P \in Int /\ a % P \in 0 .. P - 1 /\ a = ((a \div P) * P) + (a % P)
           /\ a \in Nat => a \div P \in Nat
OBVIOUS

\* A number is whole pages and a rest in one way.
LEMMA DivideIs ==
    ASSUME NEW P \in Nat \ {0}, NEW a \in Int, NEW q \in Int, NEW r \in 0 .. P - 1, a = q * P + r
    PROVE  a \div P = q /\ a % P = r
<1>1. /\ a \div P \in Int /\ a % P \in 0 .. P - 1 /\ a = ((a \div P) * P) + (a % P)
  BY Divided
<1>2. PICK x \in Int, s \in 0 .. P - 1 : x = a \div P /\ s = a % P
  BY <1>1
<1>3. q * P + r = x * P + s
  BY <1>1, <1>2
<1>4. q = x /\ r = s
  BY <1>3, DivideOnce
<1> QED BY <1>2, <1>4

LEMMA PagesOrdered ==
    ASSUME NEW P \in Nat \ {0}, NEW x \in Int, NEW y \in Int
    PROVE  /\ x <= y => x * P <= y * P
           /\ x * P <= y * P => x <= y
           /\ x * P < (y + 1) * P => x <= y
<1>1. PICK d \in Int : d = y - x
  OBVIOUS
<1>2. y * P = x * P + d * P
  BY <1>1
<1>3. d >= 0 => d * P >= 0
  OBVIOUS
<1>4. d < 0 => d * P < 0 /\ d * P <= -P
  OBVIOUS
<1>5. (y + 1) * P = y * P + P
  OBVIOUS
<1>6. x * P \in Int /\ y * P \in Int /\ d * P \in Int /\ (y + 1) * P \in Int
  OBVIOUS
<1>7. x <= y => d >= 0
  BY <1>1
<1>8. d >= 0 => x <= y
  BY <1>1
<1>9. x <= y => x * P <= y * P
  BY <1>2, <1>3, <1>6, <1>7
<1>10. x * P <= y * P => x <= y
  BY <1>2, <1>4, <1>6, <1>8
<1>11. x * P < (y + 1) * P => x <= y
  BY <1>2, <1>4, <1>5, <1>6, <1>8
<1> QED BY <1>9, <1>10, <1>11

LEMMA AlignedDown ==
    ASSUME LoaderConstants, NEW a \in Nat
    PROVE  \E q \in Nat : AlignDownPage(a) = q * PageSize /\ q * PageSize <= a /\ a < (q + 1) * PageSize
<1>1. PageSize \in Nat \ {0}
  BY DEF LoaderConstants
<1>2. PICK q \in Nat, r \in 0 .. PageSize - 1 : q = a \div PageSize /\ r = a % PageSize
  <2>1. a \in Int /\ a \div PageSize \in Nat /\ a % PageSize \in 0 .. PageSize - 1
    BY <1>1
  <2> QED BY <2>1
<1>5. a = q * PageSize + r
  BY <1>1, <1>2, Divided
<1>3. AlignDownPage(a) = q * PageSize
  BY <1>1, <1>2, <1>5 DEF AlignDownPage
<1>4. (q + 1) * PageSize = q * PageSize + PageSize
  BY <1>1
<1> QED BY <1>1, <1>3, <1>4, <1>5

LEMMA AlignedUp ==
    ASSUME LoaderConstants, NEW a \in Nat
    PROVE  \E q \in Nat : AlignUpPage(a) = q * PageSize /\ a <= q * PageSize
<1>1. PageSize \in Nat \ {0}
  BY DEF LoaderConstants
<1>2. a + PageSize - 1 \in Nat
  BY <1>1
<1>3. PICK q \in Nat : /\ AlignDownPage(a + PageSize - 1) = q * PageSize
                       /\ a + PageSize - 1 < (q + 1) * PageSize
  BY <1>2, AlignedDown
<1>4. (q + 1) * PageSize = q * PageSize + PageSize
  BY <1>1
<1>5. a <= q * PageSize
  BY <1>1, <1>3, <1>4
<1> QED BY <1>3, <1>5 DEF AlignUpPage

-----------------------------------------------------------------------------
(* The least and the greatest of a set.                                    *)

LEMMA LeastIs ==
    ASSUME NEW T, T \subseteq Nat, T # {}
    PROVE  Least(T) \in T /\ \A y \in T : Least(T) <= y
BY LeastNatural DEF Least

LEMMA GreatestBounded ==
    ASSUME NEW N \in Nat, NEW T, T \subseteq 0 .. N, T # {}
    PROVE  Greatest(T) \in T /\ \A y \in T : y <= Greatest(T)
<1> DEFINE U == {N - k : k \in T}
<1>0. \A k \in T : k \in Nat /\ N - k \in Nat
  OBVIOUS
<1>1. U \subseteq Nat /\ U # {}
  BY <1>0
<1>2. PICK u \in U : \A m \in U : u <= m
  <2> HIDE DEF U
  <2> QED BY <1>1, LeastNatural
<1>3. PICK k \in T : u = N - k
  BY <1>2
<1>4. \A m \in T : N - m \in U
  OBVIOUS
<1>5. \A m \in T : m <= k
  BY <1>0, <1>2, <1>3, <1>4
<1> QED BY <1>5 DEF Greatest

\* Of finitely many numbers one is the greatest.
LEMMA SomeGreatest ==
    ASSUME NEW n \in Nat \ {0}, NEW f \in [1 .. n -> Nat]
    PROVE  \E i \in 1 .. n : \A j \in 1 .. n : f[j] <= f[i]
<1> DEFINE Top(m) == \E i \in 1 .. m : \A j \in 1 .. m : f[j] <= f[i]
           B == {m \in 1 .. n : ~Top(m)}
<1>10. B = {} => Top(n)
  <2>1. n \in 1 .. n
    OBVIOUS
  <2> HIDE DEF Top
  <2> QED BY <2>1
<1> SUFFICES ASSUME B # {} PROVE FALSE
  BY <1>10
<1>1. PICK m \in B : \A k \in B : m <= k
  <2>1. B \subseteq Nat
    OBVIOUS
  <2> HIDE DEF B
  <2> QED BY <2>1, LeastNatural
<1>2. m \in 1 .. n /\ ~Top(m)
  BY <1>1
<1>3. m # 1
  <2>1. Top(1)
    OBVIOUS
  <2> HIDE DEF Top
  <2> QED BY <1>2, <2>1
<1>4. m - 1 \in 1 .. n /\ Top(m - 1)
  <2>1. m \in Nat /\ m - 1 \in 1 .. n /\ ~(m <= m - 1)
    BY <1>2, <1>3
  <2> HIDE DEF Top
  <2> QED BY <1>1, <2>1
<1>5. PICK i \in 1 .. m - 1 : \A j \in 1 .. m - 1 : f[j] <= f[i]
  BY <1>4
<1>6. \A j \in 1 .. m : j = m \/ j \in 1 .. m - 1
  BY <1>2
<1>7. f[m] \in Nat /\ f[i] \in Nat /\ i \in 1 .. m /\ m \in 1 .. m /\ \A j \in 1 .. m : f[j] \in Nat
  BY <1>2
<1>8. CASE f[m] <= f[i]
  <2>1. \A j \in 1 .. m : f[j] <= f[i]
    BY <1>5, <1>6, <1>8
  <2> QED BY <1>2, <1>7, <2>1
<1>9. CASE f[i] <= f[m]
  <2>1. ASSUME NEW j \in 1 .. m PROVE f[j] <= f[m]
    <3>1. j = m \/ f[j] <= f[i]
      BY <1>5, <1>6
    <3>2. PICK x \in Nat, y \in Nat, z \in Nat : x = f[j] /\ y = f[i] /\ z = f[m]
      BY <1>7
    <3>3. j = m \/ x <= y
      BY <3>1, <3>2
    <3>4. y <= z /\ (j = m => x = z)
      BY <1>9, <3>2
    <3>5. x <= z
      BY <3>3, <3>4
    <3> QED BY <3>2, <3>5
  <2> QED BY <1>2, <1>7, <2>1
<1> QED BY <1>7, <1>8, <1>9

-----------------------------------------------------------------------------
(* The firmware's memory map.                                              *)

LEMMA PiecesConcatenated ==
    ASSUME NEW S, NEW a \in Seq(S), NEW b \in Seq(S), NEW t \in S, NEW c \in Seq(S), NEW d \in Seq(S)
    PROVE  a \o b \o <<t>> \o c \o d \in Seq(S) /\ a \o b \o <<t>> \o c \o d # <<>>
<1>1. <<t>> \in Seq(S) /\ Len(<<t>>) = 1
  OBVIOUS
<1>2. a \o b \in Seq(S) /\ a \o b \o <<t>> \in Seq(S) /\ a \o b \o <<t>> \o c \in Seq(S)
  BY <1>1, ConcatProperties
<1>3. a \o b \o <<t>> \o c \o d \in Seq(S)
  BY <1>2, ConcatProperties
<1>4. /\ Len(a \o b) \in Nat /\ Len(a \o b \o <<t>>) = Len(a \o b) + 1
      /\ Len(a \o b \o <<t>> \o c) = Len(a \o b \o <<t>>) + Len(c)
      /\ Len(a \o b \o <<t>> \o c \o d) = Len(a \o b \o <<t>> \o c) + Len(d)
      /\ Len(c) \in Nat /\ Len(d) \in Nat
  BY <1>1, <1>2, ConcatProperties, LenProperties
<1> QED BY <1>3, <1>4

\* A range taken out of a region leaves a map of regions.
LEMMA Carved ==
    ASSUME LoaderConstants, NEW m, SoundMap(m), NEW i \in 1 .. Len(m), NEW start \in Nat,
           NEW pages \in Nat \ {0}, NEW type \in MemoryTypes, type # "conventional",
           m[i].start <= start, start + pages <= m[i].start + m[i].pages
    PROVE  SoundMap(Carve(m, i, start, pages, type))
<1>1. m \in Seq(Regions) /\ Len(m) \in Nat /\ \A j \in 1 .. Len(m) : m[j] \in Regions
  BY LenProperties DEF SoundMap
<1>2. PICK r \in Regions : r = m[i]
  BY <1>1
<1>3. PICK rs \in Nat, rp \in Nat \ {0} :
         /\ rs = r.start /\ rp = r.pages /\ rs + rp <= Cells \div PageSize /\ r.type \in MemoryTypes
         /\ (r.type = "conventional" => rs > 0)
  BY DEF Regions
<1>4. PICK limit \in Int : limit = Cells \div PageSize
  BY Divided DEF LoaderConstants
<1> DEFINE before == [type |-> r.type, start |-> r.start, pages |-> start - r.start]
           taken  == [type |-> type, start |-> start, pages |-> pages]
           after  == [type |-> r.type, start |-> start + pages,
                      pages |-> r.start + r.pages - (start + pages)]
           Piece(p) == IF p.pages > 0 THEN <<p>> ELSE <<>>
<1>5. taken \in Regions
  BY <1>2, <1>3, <1>4 DEF Regions
<1>6. Piece(before) \in Seq(Regions)
  <2>1. ASSUME before.pages > 0 PROVE before \in Regions
    BY <1>2, <1>3, <1>4, <2>1 DEF Regions
  <2> HIDE DEF before
  <2> QED BY <2>1
<1>7. Piece(after) \in Seq(Regions)
  <2>1. ASSUME after.pages > 0 PROVE after \in Regions
    BY <1>2, <1>3, <1>4, <2>1 DEF Regions
  <2> HIDE DEF after
  <2> QED BY <2>1
<1>8. SubSeq(m, 1, i - 1) \in Seq(Regions) /\ SubSeq(m, i + 1, Len(m)) \in Seq(Regions)
  <2>1. /\ \A j \in 1 .. i - 1 : m[j] \in Regions
        /\ \A j \in i + 1 .. Len(m) : m[j] \in Regions
    BY <1>1
  <2> QED BY <1>1, <2>1, SubSeqProperties
<1>9. Carve(m, i, start, pages, type) =
          SubSeq(m, 1, i - 1) \o Piece(before) \o <<taken>> \o Piece(after) \o SubSeq(m, i + 1, Len(m))
  BY <1>2 DEF Carve
<1> HIDE DEF before, taken, after, Piece
<1>10. /\ SubSeq(m, 1, i - 1) \o Piece(before) \o <<taken>> \o Piece(after) \o SubSeq(m, i + 1, Len(m)) \in Seq(Regions)
       /\ SubSeq(m, 1, i - 1) \o Piece(before) \o <<taken>> \o Piece(after) \o SubSeq(m, i + 1, Len(m)) # <<>>
  BY <1>5, <1>6, <1>7, <1>8, PiecesConcatenated
<1> QED BY <1>9, <1>10 DEF SoundMap

LEMMA RoomyRegion ==
    ASSUME NEW m, SoundMap(m), NEW pages \in Nat, NEW i \in Roomy(m, pages)
    PROVE  /\ i \in 1 .. Len(m) /\ m[i].start \in Nat \ {0} /\ m[i].pages \in Nat
           /\ m[i].pages >= pages /\ m[i].start + m[i].pages <= Cells \div PageSize
<1>1. i \in 1 .. Len(m) /\ m[i].type = "conventional" /\ m[i].pages >= pages
  BY DEF Roomy
<1>2. m[i] \in Regions
  BY <1>1, LenProperties DEF SoundMap
<1> QED BY <1>1, <1>2 DEF Regions

LEMMA PageAllocated ==
    ASSUME LoaderConstants, NEW m, SoundMap(m), Roomy(m, 1) # {},
           NEW type \in MemoryTypes, type # "conventional"
    PROVE  SoundMap(AllocatePage(m, type))
<1>1. PICK i : i = Greatest(Roomy(m, 1))
  OBVIOUS
<1>2. i \in Roomy(m, 1)
  <2>1. Len(m) \in Nat
    BY LenProperties DEF SoundMap
  <2>2. Roomy(m, 1) \subseteq 0 .. Len(m)
    BY <2>1 DEF Roomy
  <2> QED BY <1>1, <2>1, <2>2, GreatestBounded
<1>3. PICK rs \in Nat, rp \in Nat : rs = m[i].start /\ rp = m[i].pages /\ rp >= 1 /\ i \in 1 .. Len(m)
  BY <1>2, RoomyRegion
<1>4. AllocatePage(m, type) = Carve(m, i, rs + rp - 1, 1, type)
  BY <1>1, <1>3 DEF AllocatePage
<1>5. rs + rp - 1 \in Nat /\ rs <= rs + rp - 1 /\ rs + rp - 1 + 1 <= rs + rp /\ 1 \in Nat \ {0}
  BY <1>3
<1> QED BY <1>3, <1>4, <1>5, Carved

-----------------------------------------------------------------------------
(* The layout of an image: n pages from page lp, c pages below its window. *)

LaidOut(im, l, lp, n, c) ==
    /\ l.PhysicalBase = lp * PageSize /\ l.PhysicalSize = n * PageSize
    /\ l.VirtualBase = (lp + c) * PageSize /\ l.VirtualSize = n * PageSize
    /\ lp + c >= IdentityPages
    /\ l.EntryVirtual = im.entry /\ l.EntryPhysical = im.entry - c * PageSize
    /\ \A i \in 1 .. Len(im.segments) :
           /\ im.segments[i].vaddr = im.segments[i].paddr + c * PageSize
           /\ lp * PageSize <= im.segments[i].paddr
           /\ im.segments[i].paddr + im.segments[i].memsz <= (lp + n) * PageSize
    /\ \E i \in 1 .. Len(im.segments) :
           /\ im.segments[i].vaddr <= im.entry
           /\ im.entry < im.segments[i].vaddr + im.segments[i].memsz

Segments == [offset : Nat, filesz : Nat, memsz : Nat, paddr : Nat, vaddr : Nat]

LEMMA ImageIs ==
    ASSUME LoaderConstants, NEW im \in Images, Loadable(im)
    PROVE  /\ im.segments \in Seq(Segments) /\ im.segments # <<>> /\ im.entry \in Nat /\ im.size \in Nat
           /\ Len(im.segments) \in Nat \ {0}
           /\ \A i \in 1 .. Len(im.segments) : im.segments[i] \in Segments
           /\ Linked(im)
<1>1. im.segments \in Seq(Segments) /\ im.entry \in Nat /\ im.size \in Nat /\ Linked(im)
  BY DEF LoaderConstants, Segments
<1>2. im.segments # <<>>
  BY DEF Loadable
<1> QED BY <1>1, <1>2, LenProperties

LEMMA AlignShifted ==
    ASSUME LoaderConstants, NEW a \in Nat, NEW b \in Nat, NEW c \in Int, b = a + c * PageSize
    PROVE  AlignDownPage(b) = AlignDownPage(a) + c * PageSize
<1>1. PageSize \in Nat \ {0}
  BY DEF LoaderConstants
<1>2. PICK q \in Int, r \in 0 .. PageSize - 1 : q = a \div PageSize /\ r = a % PageSize
  <2>1. a \div PageSize \in Int /\ a % PageSize \in 0 .. PageSize - 1
    BY <1>1
  <2> QED BY <2>1
<1>3. a = q * PageSize + r
  BY <1>1, <1>2, Divided
<1>4. (q + c) * PageSize = q * PageSize + c * PageSize /\ q + c \in Int
  BY <1>1
<1>5. b = (q + c) * PageSize + r
  BY <1>1, <1>3, <1>4
<1>6. PICK x \in Int : x = q + c
  BY <1>1
<1>7. b \in Int /\ b = x * PageSize + r
  BY <1>5, <1>6
<1>8. b % PageSize = r
  <2>1. b % PageSize \in 0 .. PageSize - 1 /\ b \div PageSize \in Int
    BY <1>1
  <2>2. PICK y \in Int, s \in 0 .. PageSize - 1 : y = b \div PageSize /\ s = b % PageSize
    BY <2>1
  <2>3. b = y * PageSize + s
    BY <1>1, <1>7, <2>2, Divided
  <2>4. x * PageSize + r = y * PageSize + s
    BY <1>7, <2>3
  <2>5. x = y /\ r = s
    BY <1>1, <1>2, <2>4, DivideOnce
  <2> QED BY <2>2, <2>5
<1> QED BY <1>1, <1>2, <1>3, <1>8 DEF AlignDownPage

\* The lowest page of a set of addresses.
LEMMA LowestPage ==
    ASSUME LoaderConstants, NEW n \in Nat \ {0}, NEW f \in [1 .. n -> Nat], NEW T,
           \A i \in 1 .. n : AlignDownPage(f[i]) \in T,
           \A y \in T : \E i \in 1 .. n : y = AlignDownPage(f[i])
    PROVE  /\ \E i \in 1 .. n : Least(T) = AlignDownPage(f[i])
           /\ \A i \in 1 .. n : Least(T) <= AlignDownPage(f[i])
<1>1. T \subseteq Nat /\ T # {}
  <2>1. \A i \in 1 .. n : f[i] \in Nat
    OBVIOUS
  <2>2. PageSize \in Nat \ {0}
    BY DEF LoaderConstants
  <2>3. \A i \in 1 .. n : AlignDownPage(f[i]) \in Nat
    <3> TAKE i \in 1 .. n
    <3>1. PICK q \in Nat : AlignDownPage(f[i]) = q * PageSize
      BY <2>1, AlignedDown
    <3> QED BY <2>2, <3>1
  <2>4. 1 \in 1 .. n
    OBVIOUS
  <2> QED BY <2>3, <2>4
<1>2. Least(T) \in T /\ \A y \in T : Least(T) <= y
  BY <1>1, LeastIs
<1> QED BY <1>2

LEMMA HighestPage ==
    ASSUME LoaderConstants, NEW n \in Nat \ {0}, NEW f \in [1 .. n -> Nat], NEW T,
           \A i \in 1 .. n : AlignUpPage(f[i]) \in T,
           \A y \in T : \E i \in 1 .. n : y = AlignUpPage(f[i])
    PROVE  /\ \E q \in Nat : Greatest(T) = q * PageSize
           /\ \A i \in 1 .. n : f[i] <= Greatest(T)
<1>1. PageSize \in Nat \ {0}
  BY DEF LoaderConstants
<1>2. \A i \in 1 .. n : \E q \in Nat : AlignUpPage(f[i]) = q * PageSize /\ f[i] <= q * PageSize
  <2>1. \A i \in 1 .. n : f[i] \in Nat
    OBVIOUS
  <2> QED BY <2>1, AlignedUp
<1>3. \A i \in 1 .. n : AlignUpPage(f[i]) \in Nat /\ f[i] \in Nat /\ f[i] <= AlignUpPage(f[i])
  <2> TAKE i \in 1 .. n
  <2>1. PICK q \in Nat : AlignUpPage(f[i]) = q * PageSize /\ f[i] <= q * PageSize
    BY <1>2
  <2>2. q * PageSize \in Nat
    BY <1>1
  <2> QED BY <2>1, <2>2
<1>4. PICK g : g = [i \in 1 .. n |-> AlignUpPage(f[i])]
  OBVIOUS
<1>5. g \in [1 .. n -> Nat] /\ \A i \in 1 .. n : g[i] = AlignUpPage(f[i])
  BY <1>3, <1>4
<1>6. PICK i \in 1 .. n : \A j \in 1 .. n : g[j] <= g[i]
  BY <1>5, SomeGreatest
<1>7. AlignUpPage(f[i]) \in T /\ \A y \in T : y <= AlignUpPage(f[i])
  BY <1>5, <1>6
<1>8. Greatest(T) \in T /\ \A y \in T : y <= Greatest(T)
  BY <1>7 DEF Greatest
<1>9. PICK k \in 1 .. n : Greatest(T) = AlignUpPage(f[k])
  BY <1>8
<1>10. PICK q \in Nat : AlignUpPage(f[k]) = q * PageSize
  BY <1>2
<1>11. \A j \in 1 .. n : f[j] <= Greatest(T)
  <2> TAKE j \in 1 .. n
  <2>1. PICK x \in Nat, y \in Nat, z \in Nat : x = f[j] /\ y = AlignUpPage(f[j]) /\ z = Greatest(T)
    BY <1>3, <1>9
  <2>2. x <= y /\ y <= z
    BY <1>3, <1>8, <2>1
  <2>3. x <= z
    BY <2>2
  <2> QED BY <2>1, <2>3
<1> QED BY <1>9, <1>10, <1>11

LEMMA LayoutIs ==
    ASSUME LoaderConstants, NEW im \in Images, Loadable(im)
    PROVE  \E lp \in Nat, n \in Nat \ {0}, c \in Int : LaidOut(im, FindElfLayout(im), lp, n, c)
<1>1. PageSize \in Nat \ {0} /\ IdentityPages \in Nat
  BY DEF LoaderConstants
<1>2. PICK segs \in Seq(Segments) : segs = im.segments
  BY ImageIs
<1>3. PICK N \in Nat \ {0} : N = Len(segs) /\ \A i \in 1 .. N : segs[i] \in Segments
  BY <1>2, ImageIs
<1>4. PICK entry \in Nat : entry = im.entry
  BY ImageIs
<1>25. PICK pf : pf = [i \in 1 .. N |-> segs[i].paddr]
  OBVIOUS
<1>26. PICK vf : vf = [i \in 1 .. N |-> segs[i].vaddr]
  OBVIOUS
<1>27. PICK mf : mf = [i \in 1 .. N |-> segs[i].memsz]
  OBVIOUS
<1>28. PICK ef : ef = [i \in 1 .. N |-> pf[i] + mf[i]]
  OBVIOUS
<1>29. PICK wf : wf = [i \in 1 .. N |-> vf[i] + mf[i]]
  OBVIOUS
<1>5. /\ pf \in [1 .. N -> Nat] /\ vf \in [1 .. N -> Nat] /\ mf \in [1 .. N -> Nat]
      /\ ef \in [1 .. N -> Nat] /\ wf \in [1 .. N -> Nat]
      /\ \A i \in 1 .. N : /\ pf[i] = segs[i].paddr /\ vf[i] = segs[i].vaddr /\ mf[i] = segs[i].memsz
                           /\ ef[i] = pf[i] + mf[i] /\ wf[i] = vf[i] + mf[i]
  <2>1. \A i \in 1 .. N : segs[i].paddr \in Nat /\ segs[i].vaddr \in Nat /\ segs[i].memsz \in Nat
    BY <1>3 DEF Segments
  <2>5. /\ pf \in [1 .. N -> Nat] /\ vf \in [1 .. N -> Nat] /\ mf \in [1 .. N -> Nat]
        /\ \A i \in 1 .. N : pf[i] = segs[i].paddr /\ vf[i] = segs[i].vaddr /\ mf[i] = segs[i].memsz
    BY <2>1, <1>25, <1>26, <1>27
  <2>8. \A i \in 1 .. N : pf[i] + mf[i] \in Nat /\ vf[i] + mf[i] \in Nat
    BY <2>5
  <2>9. ef \in [1 .. N -> Nat] /\ wf \in [1 .. N -> Nat]
    BY <1>28, <1>29, <2>8
  <2>10. \A i \in 1 .. N : ef[i] = pf[i] + mf[i]
    BY <1>28
  <2>11. \A i \in 1 .. N : wf[i] = vf[i] + mf[i]
    BY <1>29
  <2> QED BY <2>5, <2>9, <2>10, <2>11
<1>6. PICK S : S = {segs[i] : i \in 1 .. N}
  OBVIOUS
<1>7. PICK c \in Int : \A i \in 1 .. N : vf[i] = pf[i] + c * PageSize
  <2>1. 1 \in 1 .. N
    OBVIOUS
  <2>2. \A i \in 1 .. N : vf[i] \in Nat /\ pf[i] \in Nat
    BY <1>5
  <2>3. PICK x \in Nat, y \in Nat : x = vf[1] /\ y = pf[1]
    BY <2>1, <2>2
  <2>4. PICK d \in Int : d = x - y
    OBVIOUS
  <2>5. /\ \A i \in 1 .. N : segs[i].vaddr - segs[i].paddr = segs[1].vaddr - segs[1].paddr
        /\ (segs[1].vaddr - segs[1].paddr) % PageSize = 0
    BY <1>2, <1>3, <2>1, ImageIs DEF Linked
  <2>6. segs[1].vaddr - segs[1].paddr = d
    BY <1>5, <2>1, <2>3, <2>4
  <2>7. d % PageSize = 0
    BY <2>5, <2>6
  <2>8. PICK c : c = d \div PageSize
    OBVIOUS
  <2>9. c \in Int /\ d = c * PageSize
    <3>1. PageSize > 0
      BY <1>1
    <3>2. d \in Int /\ PageSize \in Int /\ d = ((d \div PageSize) * PageSize) + (d % PageSize) /\ d \div PageSize \in Int
      BY <1>1
    <3>3. PICK z \in Int : z = d \div PageSize
      BY <3>2
    <3>4. d = z * PageSize + 0
      BY <2>7, <3>2, <3>3
    <3>5. z * PageSize \in Int
      BY <1>1
    <3> QED BY <2>8, <3>3, <3>4, <3>5
  <2>10. ASSUME NEW i \in 1 .. N PROVE vf[i] = pf[i] + d
    <3>2. segs[i].vaddr - segs[i].paddr = segs[1].vaddr - segs[1].paddr
      BY <2>5
    <3>3. vf[i] = segs[i].vaddr /\ pf[i] = segs[i].paddr
      BY <1>5
    <3>1. vf[i] - pf[i] = d
      BY <2>6, <3>2, <3>3
    <3> QED BY <2>2, <3>1
  <2> QED BY <2>9, <2>10
<1>8. PICK low : low = Least({AlignDownPage(s.paddr) : s \in S})
  OBVIOUS
<1>9. PICK vlow : vlow = Least({AlignDownPage(s.vaddr) : s \in S})
  OBVIOUS
<1>10. PICK top : top = Greatest({AlignUpPage(s.paddr + s.memsz) : s \in S})
  OBVIOUS
<1>11. PICK i0 \in 1 .. N : low = AlignDownPage(pf[i0]) /\ \A i \in 1 .. N : low <= AlignDownPage(pf[i])
  <2>1. PICK T : T = {AlignDownPage(s.paddr) : s \in S}
    OBVIOUS
  <2>5. \A i \in 1 .. N : segs[i] \in S /\ segs[i].paddr = pf[i]
    BY <1>5, <1>6
  <2>6. \A s \in S : \E i \in 1 .. N : s.paddr = pf[i]
    BY <1>6, <2>5
  <2>7. pf \in [1 .. N -> Nat]
    BY <1>5
  <2>2. \A i \in 1 .. N : AlignDownPage(pf[i]) \in T
    BY <2>1, <2>5
  <2>3. \A y \in T : \E i \in 1 .. N : y = AlignDownPage(pf[i])
    <3> TAKE y \in T
    <3>1. PICK s \in S : y = AlignDownPage(s.paddr)
      BY <2>1
    <3> QED BY <2>6, <3>1
  <2>4. low = Least(T)
    BY <1>8, <2>1
  <2>8. /\ \E i \in 1 .. N : Least(T) = AlignDownPage(pf[i])
        /\ \A i \in 1 .. N : Least(T) <= AlignDownPage(pf[i])
    BY <2>2, <2>3, <2>7, LowestPage
  <2> QED BY <2>4, <2>8
<1>12. PICK i1 \in 1 .. N : vlow = AlignDownPage(vf[i1]) /\ \A i \in 1 .. N : vlow <= AlignDownPage(vf[i])
  <2>1. PICK T : T = {AlignDownPage(s.vaddr) : s \in S}
    OBVIOUS
  <2>5. \A i \in 1 .. N : segs[i] \in S /\ segs[i].vaddr = vf[i]
    BY <1>5, <1>6
  <2>6. \A s \in S : \E i \in 1 .. N : s.vaddr = vf[i]
    BY <1>6, <2>5
  <2>7. vf \in [1 .. N -> Nat]
    BY <1>5
  <2>2. \A i \in 1 .. N : AlignDownPage(vf[i]) \in T
    BY <2>1, <2>5
  <2>3. \A y \in T : \E i \in 1 .. N : y = AlignDownPage(vf[i])
    <3> TAKE y \in T
    <3>1. PICK s \in S : y = AlignDownPage(s.vaddr)
      BY <2>1
    <3> QED BY <2>6, <3>1
  <2>4. vlow = Least(T)
    BY <1>9, <2>1
  <2>8. /\ \E i \in 1 .. N : Least(T) = AlignDownPage(vf[i])
        /\ \A i \in 1 .. N : Least(T) <= AlignDownPage(vf[i])
    BY <2>2, <2>3, <2>7, LowestPage
  <2> QED BY <2>4, <2>8
<1>13. PICK up \in Nat : top = up * PageSize /\ \A i \in 1 .. N : ef[i] <= top
  <2>1. PICK T : T = {AlignUpPage(s.paddr + s.memsz) : s \in S}
    OBVIOUS
  <2>5. \A i \in 1 .. N : segs[i] \in S /\ segs[i].paddr + segs[i].memsz = ef[i]
    BY <1>5, <1>6
  <2>6. \A s \in S : \E i \in 1 .. N : s.paddr + s.memsz = ef[i]
    BY <1>6, <2>5
  <2>7. ef \in [1 .. N -> Nat]
    BY <1>5
  <2>2. \A i \in 1 .. N : AlignUpPage(ef[i]) \in T
    BY <2>1, <2>5
  <2>3. \A y \in T : \E i \in 1 .. N : y = AlignUpPage(ef[i])
    <3> TAKE y \in T
    <3>1. PICK s \in S : y = AlignUpPage(s.paddr + s.memsz)
      BY <2>1
    <3> QED BY <2>6, <3>1
  <2>4. top = Greatest(T)
    BY <1>10, <2>1
  <2>8. /\ \E q \in Nat : Greatest(T) = q * PageSize
        /\ \A i \in 1 .. N : ef[i] <= Greatest(T)
    BY <2>2, <2>3, <2>7, HighestPage
  <2> QED BY <2>4, <2>8
<1>14. PICK lp \in Nat : low = lp * PageSize /\ \A i \in 1 .. N : lp * PageSize <= pf[i]
  <2>1. \A i \in 1 .. N : pf[i] \in Nat
    BY <1>5
  <2>2. PICK lp \in Nat : low = lp * PageSize
    BY <1>11, <2>1, AlignedDown
  <2>3. ASSUME NEW i \in 1 .. N PROVE lp * PageSize <= pf[i]
    <3>1. PICK q \in Nat : AlignDownPage(pf[i]) = q * PageSize /\ q * PageSize <= pf[i]
      BY <2>1, AlignedDown
    <3>2. lp * PageSize <= q * PageSize
      BY <1>11, <2>2, <3>1
    <3>3. lp * PageSize \in Int /\ q * PageSize \in Int
      BY <1>1
    <3>4. PICK x \in Int, y \in Int, z \in Int : x = lp * PageSize /\ y = q * PageSize /\ z = pf[i]
      BY <2>1, <3>3
    <3>5. x <= y /\ y <= z
      BY <3>1, <3>2, <3>4
    <3>6. x <= z
      BY <3>5
    <3> QED BY <3>4, <3>6
  <2> QED BY <2>2, <2>3
<1>15. vlow = (lp + c) * PageSize
  <2>1. \A i \in 1 .. N : AlignDownPage(vf[i]) = AlignDownPage(pf[i]) + c * PageSize
    <3>1. \A i \in 1 .. N : pf[i] \in Nat /\ vf[i] \in Nat
      BY <1>5
    <3> QED BY <1>7, <3>1, AlignShifted
  <2>2. (lp + c) * PageSize = lp * PageSize + c * PageSize
    BY <1>1
  <2>3. PICK x \in Int : x = AlignDownPage(pf[i1])
    <3>1. PICK q \in Nat : AlignDownPage(pf[i1]) = q * PageSize
      BY <1>5, AlignedDown
    <3>2. q * PageSize \in Int
      BY <1>1
    <3> QED BY <3>1, <3>2
  <2>4. PICK y \in Int, z \in Int : y = lp * PageSize /\ z = c * PageSize
    BY <1>1
  <2>5. vlow = x + z /\ vlow <= y + z /\ y <= x
    BY <1>11, <1>12, <1>14, <2>1, <2>3, <2>4
  <2>6. vlow = y + z
    BY <2>5
  <2> QED BY <2>2, <2>4, <2>6
<1>16. lp + c >= IdentityPages
  <2>1. PICK q \in Nat : vlow = q * PageSize /\ vf[i1] < (q + 1) * PageSize
    BY <1>5, <1>12, AlignedDown
  <2>2. vf[i1] >= IdentityPages * PageSize
    BY <1>2, <1>3, <1>5, ImageIs DEF Linked
  <2>3. IdentityPages * PageSize < (q + 1) * PageSize
    <3>1. IdentityPages * PageSize \in Int /\ (q + 1) * PageSize \in Int /\ vf[i1] \in Int
      BY <1>1, <1>5
    <3>2. PICK x \in Int, y \in Int, z \in Int : x = IdentityPages * PageSize /\ y = (q + 1) * PageSize /\ z = vf[i1]
      BY <3>1
    <3>3. x <= z /\ z < y
      BY <2>1, <2>2, <3>2
    <3>4. x < y
      BY <3>3
    <3> QED BY <3>2, <3>4
  <2>4. IdentityPages <= q
    BY <1>1, <2>3, PagesOrdered
  <2>5. PICK x \in Int : x = lp + c
    OBVIOUS
  <2>6. q * PageSize = x * PageSize /\ q * PageSize \in Int
    BY <1>1, <1>15, <2>1, <2>5
  <2>7. q * PageSize <= x * PageSize
    BY <2>6
  <2>8. q <= x
    BY <1>1, <2>7, PagesOrdered
  <2> QED BY <1>1, <2>4, <2>5, <2>8
<1>17. PICK l : l = FindElfLayout(im)
  OBVIOUS
<1>18. /\ l.PhysicalBase = low /\ l.PhysicalSize = top - low /\ l.VirtualBase = vlow
       /\ l.EntryVirtual = entry
       /\ l.EntryPhysical = IF \E s \in S : entry >= s.vaddr /\ entry < s.vaddr + s.memsz
                            THEN LET s == CHOOSE s \in S : entry >= s.vaddr /\ entry < s.vaddr + s.memsz
                                 IN  s.paddr + (entry - s.vaddr)
                            ELSE 0
  BY <1>2, <1>3, <1>4, <1>6, <1>8, <1>9, <1>10, <1>17 DEF FindElfLayout
<1>19. l.PhysicalSize > 0 /\ l.EntryPhysical # 0 /\ l.VirtualSize = l.PhysicalSize
  BY <1>17 DEF Loadable
<1>20. PICK n \in Nat \ {0} : n = up - lp /\ l.PhysicalSize = n * PageSize
  <2>1. PICK n \in Int : n = up - lp
    OBVIOUS
  <2>2. n * PageSize = up * PageSize - lp * PageSize
    BY <1>1, <2>1
  <2>3. l.PhysicalSize = n * PageSize
    BY <1>13, <1>14, <1>18, <2>2
  <2>4. n > 0
    BY <1>1, <1>19, <2>3
  <2> QED BY <2>1, <2>3, <2>4
<1>21. \A i \in 1 .. N : ef[i] <= (lp + n) * PageSize
  BY <1>13, <1>20
<1>22. PICK k \in 1 .. N : entry >= vf[k] /\ entry < wf[k] /\ l.EntryPhysical = pf[k] + (entry - vf[k])
  <2>1. \E s \in S : entry >= s.vaddr /\ entry < s.vaddr + s.memsz
    BY <1>18, <1>19
  <2>2. PICK s \in S : entry >= s.vaddr /\ entry < s.vaddr + s.memsz /\ l.EntryPhysical = s.paddr + (entry - s.vaddr)
    BY <1>18, <2>1
  <2>3. PICK k \in 1 .. N : s = segs[k]
    BY <1>6
  <2> QED BY <1>5, <2>2, <2>3
<1>23. l.EntryPhysical = entry - c * PageSize
  <2>3. pf[k] \in Nat /\ vf[k] \in Nat /\ c * PageSize \in Int
    BY <1>1, <1>5
  <2>1. PICK x \in Int, y \in Int, z \in Int : x = pf[k] /\ y = vf[k] /\ z = c * PageSize
    BY <2>3
  <2>2. y = x + z /\ l.EntryPhysical = x + (entry - y)
    BY <1>7, <1>22, <2>1
  <2> QED BY <2>1, <2>2
<1>24. LaidOut(im, l, lp, n, c)
  <2>1. /\ l.PhysicalBase = lp * PageSize /\ l.PhysicalSize = n * PageSize
        /\ l.VirtualBase = (lp + c) * PageSize /\ l.VirtualSize = n * PageSize
        /\ lp + c >= IdentityPages
        /\ l.EntryVirtual = im.entry /\ l.EntryPhysical = im.entry - c * PageSize
    BY <1>4, <1>14, <1>15, <1>16, <1>18, <1>19, <1>20, <1>23
  <2>2. ASSUME NEW i \in 1 .. N
        PROVE  /\ segs[i].vaddr = segs[i].paddr + c * PageSize
               /\ lp * PageSize <= segs[i].paddr
               /\ segs[i].paddr + segs[i].memsz <= (lp + n) * PageSize
    BY <1>5, <1>7, <1>14, <1>21
  <2>3. segs[k].vaddr <= entry /\ entry < segs[k].vaddr + segs[k].memsz
    BY <1>5, <1>22
  <2> QED BY <1>2, <1>3, <1>4, <2>1, <2>2, <2>3 DEF LaidOut
<1> QED BY <1>17, <1>24

-----------------------------------------------------------------------------
(* The image: its cells where it is placed, and what the kernel reads.     *)

\* A segment's cell that lies at an offset is a number.
LEMMA CellIs ==
    ASSUME NEW s \in Segments, NEW k \in Int
    PROVE  SegmentCell(s, k) \in Int
BY DEF SegmentCell, Segments

LEMMA ImagePlaced ==
    ASSUME LoaderConstants, NEW im \in Images, Loadable(im), NEW mem \in [0 .. Cells - 1 -> Int],
           NEW lp \in Nat, NEW n \in Nat \ {0}, NEW c \in Int, LaidOut(im, FindElfLayout(im), lp, n, c),
           NEW page \in Nat, page + n <= Cells \div PageSize,
           NEW low, low = FindElfLayout(im).PhysicalBase, NEW base, base = page * PageSize
    PROVE  /\ CopyElfSegments(mem, im, low, base) \in [0 .. Cells - 1 -> Int]
           /\ InPlace(CopyElfSegments(mem, im, low, base), im, base)
<1>1. PageSize \in Nat \ {0} /\ Cells \in Nat
  BY DEF LoaderConstants
<1>2. PICK N \in Nat \ {0} : N = Len(im.segments) /\ \A i \in 1 .. N : im.segments[i] \in Segments
  BY ImageIs
<1>3. base \in Nat /\ low \in Nat /\ low = lp * PageSize
  BY <1>1 DEF LaidOut
<1>4. \A i \in 1 .. N : im.segments[i].paddr \in Nat /\ im.segments[i].memsz \in Nat
  BY <1>2 DEF Segments
<1> DEFINE Cover(a) == {i \in 1 .. Len(im.segments) :
                            LET d == base + (im.segments[i].paddr - low)
                            IN  d <= a /\ a < d + im.segments[i].memsz}
           Put(a) == IF Cover(a) = {} THEN mem[a]
                     ELSE LET s == im.segments[Greatest(Cover(a))]
                          IN  SegmentCell(s, a - (base + (s.paddr - low)))
<1>5. CopyElfSegments(mem, im, low, base) = [a \in 0 .. Cells - 1 |-> Put(a)]
  BY DEF CopyElfSegments
<1>6. ASSUME NEW a \in 0 .. Cells - 1 PROVE Put(a) \in Int
  <2>1. CASE Cover(a) = {}
    BY <2>1
  <2>2. CASE Cover(a) # {}
    <3>1. Cover(a) \subseteq 0 .. N /\ Cover(a) \subseteq 1 .. N
      BY <1>2
    <3>2. PICK g : g = Greatest(Cover(a))
      OBVIOUS
    <3>3. g \in 1 .. N
      <4> HIDE DEF Cover
      <4> QED BY <2>2, <3>1, <3>2, GreatestBounded
    <3>4. PICK s \in Segments : s = im.segments[g]
      BY <1>2, <3>3
    <3>5. s.paddr \in Nat
      BY DEF Segments
    <3>6. PICK k \in Int : k = a - (base + (s.paddr - low))
      BY <1>3, <3>5
    <3>7. Put(a) = SegmentCell(s, k)
      <4> HIDE DEF Cover
      <4> QED BY <2>2, <3>2, <3>4, <3>6
    <3> HIDE DEF Put
    <3> QED BY <3>7, CellIs
  <2> QED BY <2>1, <2>2
<1>7. ASSUME NEW i \in 1 .. N, NEW k \in 0 .. im.segments[i].memsz - 1
      PROVE  /\ base + (im.segments[i].paddr - low) + k \in 0 .. Cells - 1
             /\ Put(base + (im.segments[i].paddr - low) + k) = SegmentCell(im.segments[i], k)
  <2> HIDE DEF Cover, Put
  <2>1. PICK p \in Nat, m \in Nat : p = im.segments[i].paddr /\ m = im.segments[i].memsz
    BY <1>4
  <2>2. PICK t \in Nat : t = k /\ t < m
    BY <2>1
  <2>3. PICK x \in Nat, y \in Nat, z \in Nat : x = low /\ y = n * PageSize /\ z = base
    BY <1>1, <1>3
  <2>4. x <= p /\ p + m <= x + y
    <3>1. lp * PageSize <= p /\ p + m <= (lp + n) * PageSize
      BY <1>2, <2>1 DEF LaidOut
    <3>2. (lp + n) * PageSize = lp * PageSize + n * PageSize
      BY <1>1
    <3> QED BY <1>3, <2>3, <3>1, <3>2
  <2>5. z + y <= Cells
    <3>1. PICK q \in Nat, r \in Nat : q = Cells \div PageSize /\ Cells = q * PageSize + r
      <4>1. /\ Cells \div PageSize \in Nat /\ Cells % PageSize \in 0 .. PageSize - 1
            /\ Cells = ((Cells \div PageSize) * PageSize) + (Cells % PageSize)
        BY <1>1
      <4> QED BY <4>1
    <3>2. PICK w \in Int : w = page + n
      OBVIOUS
    <3>3. w <= q
      BY <3>1, <3>2
    <3>4. w * PageSize <= q * PageSize
      BY <1>1, <3>3, PagesOrdered
    <3>5. w * PageSize = z + y
      BY <1>1, <2>3, <3>2
    <3>6. w * PageSize \in Int /\ q * PageSize \in Int
      BY <1>1
    <3>7. PICK d \in Int, e \in Int : d = w * PageSize /\ e = q * PageSize
      BY <3>6
    <3>8. d <= e /\ d = z + y /\ Cells = e + r
      BY <3>1, <3>4, <3>5, <3>7
    <3> QED BY <3>8
  <2>6. PICK a \in Int : a = z + (p - x) + t
    OBVIOUS
  <2>7. a \in 0 .. Cells - 1
    BY <1>1, <2>2, <2>4, <2>5, <2>6
  <2>8. \A j \in 1 .. N :
           j \in Cover(a) <=> /\ z + (im.segments[j].paddr - x) <= a
                             /\ a < z + (im.segments[j].paddr - x) + im.segments[j].memsz
    BY <1>2, <2>3 DEF Cover
  <2>9. Cover(a) \subseteq 1 .. N
    BY <1>2 DEF Cover
  <2>10. Cover(a) = {i}
    <3>1. i \in Cover(a)
      <4>1. z + (p - x) <= a /\ a < z + (p - x) + m
        BY <2>2, <2>6
      <4> QED BY <2>1, <2>8, <4>1
    <3>2. ASSUME NEW j \in Cover(a), j # i PROVE FALSE
      <4>1. j \in 1 .. N
        BY <2>9
      <4>2. PICK u \in Nat, v \in Nat : u = im.segments[j].paddr /\ v = im.segments[j].memsz
        BY <1>4, <4>1
      <4>3. z + (u - x) <= a /\ a < z + (u - x) + v
        BY <2>8, <4>1, <4>2
      <4>4. u <= p + t /\ p + t < u + v
        BY <2>6, <4>3
      <4>5. p + m <= u \/ u + v <= p
        <5>1. i < j \/ j < i
          BY <3>2, <4>1
        <5>2. \A g, h \in 1 .. N :
                 g < h => \/ im.segments[g].paddr + im.segments[g].memsz <= im.segments[h].paddr
                          \/ im.segments[h].paddr + im.segments[h].memsz <= im.segments[g].paddr
          BY <1>2, ImageIs DEF Linked
        <5> QED BY <2>1, <4>1, <4>2, <5>1, <5>2
      <4> QED BY <2>2, <4>4, <4>5
    <3> QED BY <3>1, <3>2
  <2>11. Greatest(Cover(a)) = i
    BY <2>10 DEF Greatest
  <2>12. a - (z + (p - x)) = t
    BY <2>6
  <2>13. Put(a) = SegmentCell(im.segments[i], a - (z + (p - x)))
    BY <2>1, <2>3, <2>10, <2>11 DEF Put
  <2> QED BY <2>1, <2>2, <2>3, <2>6, <2>7, <2>12, <2>13
<1>8. PICK new : new = CopyElfSegments(mem, im, low, base)
  OBVIOUS
<1>9. new \in [0 .. Cells - 1 -> Int] /\ \A a \in 0 .. Cells - 1 : new[a] = Put(a)
  <2> HIDE DEF Put
  <2> QED BY <1>5, <1>6, <1>8
<1>10. InPlace(new, im, base)
  <2> HIDE DEF Put
  <2> QED BY <1>2, <1>3, <1>7, <1>9 DEF InPlace
<1> QED BY <1>8, <1>9, <1>10

LEMMA RelocatedIs ==
    ASSUME NEW im, NEW base, NEW l, l = FindElfLayout(im), NEW r, r = Relocated(l, base)
    PROVE  /\ r.PhysicalBase = base /\ r.EntryPhysical = base + (l.EntryPhysical - l.PhysicalBase)
           /\ r.PhysicalSize = l.PhysicalSize /\ r.VirtualBase = l.VirtualBase
           /\ r.VirtualSize = l.VirtualSize /\ r.EntryVirtual = l.EntryVirtual
<1>1. PICK a, b, c, d, e, f : l = [PhysicalBase |-> a, PhysicalSize |-> b, VirtualBase |-> c,
                                   VirtualSize |-> d, EntryPhysical |-> e, EntryVirtual |-> f]
  BY DEF FindElfLayout
<1> QED BY <1>1 DEF Relocated

\* Through the page tables of a placed image an address of the window is read
\* as far from the image as it lies from the window.
LEMMA WindowRead ==
    ASSUME LoaderConstants, NEW r, NEW v \in Int, NEW n \in Nat \ {0}, v >= IdentityPages,
           NEW page \in Nat \ {0}, r.PhysicalBase = page * PageSize,
           r.VirtualBase = v * PageSize, r.VirtualSize = n * PageSize, tables = PrepareTables(r),
           NEW x \in Int, v * PageSize <= x, x < (v + n) * PageSize
    PROVE  ReadThrough(x) = x + page * PageSize - v * PageSize
<1>1. PageSize \in Nat \ {0} /\ IdentityPages \in Nat \ {0}
  BY DEF LoaderConstants
<1>2. PICK w \in Int : w = v + n
  OBVIOUS
<1>3. r.PhysicalBase \div PageSize = page /\ r.VirtualBase \div PageSize = v
  <2>1. PICK a \in Int, b \in Int : a = r.PhysicalBase /\ b = r.VirtualBase
    BY <1>1
  <2>2. 0 \in 0 .. PageSize - 1 /\ a = page * PageSize + 0 /\ b = v * PageSize + 0
    BY <1>1, <2>1
  <2>3. a \div PageSize = page /\ b \div PageSize = v
    BY <1>1, <2>2, DivideIs
  <2> QED BY <2>1, <2>3
<1>4. (r.VirtualBase + r.VirtualSize) \div PageSize = w
  <2>1. PICK a \in Int : a = r.VirtualBase + r.VirtualSize
    BY <1>1
  <2>2. 0 \in 0 .. PageSize - 1 /\ a = w * PageSize + 0
    BY <1>1, <1>2, <2>1
  <2>3. a \div PageSize = w
    BY <1>1, <2>2, DivideIs
  <2> QED BY <2>1, <2>3
<1>5. PICK q \in Int, s \in 0 .. PageSize - 1 : q = x \div PageSize /\ s = x % PageSize
  <2>1. x \div PageSize \in Int /\ x % PageSize \in 0 .. PageSize - 1
    BY <1>1
  <2> QED BY <2>1
<1>6. x = q * PageSize + s
  BY <1>1, <1>5, Divided
<1>7. v <= q /\ q <= w - 1
  <2>1. (q + 1) * PageSize = q * PageSize + PageSize
    BY <1>1
  <2>2. PICK a \in Int, b \in Int, d \in Int : a = v * PageSize /\ b = q * PageSize /\ d = w * PageSize
    BY <1>1, <1>2
  <2>3. a <= x /\ x < d /\ x = b + s /\ PageSize \in Nat
    BY <1>1, <1>2, <1>6, <2>2
  <2>4. v * PageSize < (q + 1) * PageSize
    BY <2>1, <2>2, <2>3
  <2>5. v <= q
    BY <1>1, <2>4, PagesOrdered
  <2>6. PICK u \in Int : u = w - 1
    OBVIOUS
  <2>7. q * PageSize < (u + 1) * PageSize
    BY <2>2, <2>3, <2>6
  <2>8. q <= u
    BY <1>1, <2>7, PagesOrdered
  <2> QED BY <2>5, <2>6, <2>8
<1>8. tables[q] = page + (q - v)
  <2>1. q \in KernelPages(r) /\ ~(q < IdentityPages)
    BY <1>1, <1>3, <1>4, <1>7 DEF KernelPages
  <2> QED BY <1>3, <2>1 DEF PrepareTables
<1>9. ReadThrough(x) = ((page + (q - v)) * PageSize) + s
  BY <1>5, <1>8 DEF ReadThrough
<1>10. (page + (q - v)) * PageSize = page * PageSize + q * PageSize - v * PageSize
  BY <1>1
<1>11. page * PageSize \in Int /\ q * PageSize \in Int /\ v * PageSize \in Int
  BY <1>1
<1> QED BY <1>6, <1>9, <1>10, <1>11

\* What runs is what was linked.
LEMMA ImageSeen ==
    ASSUME LoaderConstants, NEW im \in Images, Loadable(im), NEW page \in Nat \ {0},
           NEW l, l = Relocated(FindElfLayout(im), page * PageSize), tables = PrepareTables(l),
           NEW mem, InPlace(mem, im, page * PageSize)
    PROVE  /\ ReadThrough(l.EntryVirtual) = l.EntryPhysical
           /\ \A i \in 1 .. Len(im.segments) :
                 \A k \in 0 .. im.segments[i].memsz - 1 :
                    mem[ReadThrough(im.segments[i].vaddr + k)] = SegmentCell(im.segments[i], k)
<1>1. PageSize \in Nat \ {0}
  BY DEF LoaderConstants
<1>2. PICK N \in Nat \ {0} : N = Len(im.segments) /\ \A i \in 1 .. N : im.segments[i] \in Segments
  BY ImageIs
<1>3. PICK lp \in Nat, n \in Nat \ {0}, c \in Int : LaidOut(im, FindElfLayout(im), lp, n, c)
  BY LayoutIs
<1>4. PICK base \in Int, low \in Int, off \in Int, win \in Int, size \in Int :
         /\ base = page * PageSize /\ low = lp * PageSize /\ off = c * PageSize
         /\ win = (lp + c) * PageSize /\ size = n * PageSize
  BY <1>1
<1>5. PICK v \in Int : v = lp + c
  OBVIOUS
<1>6. v * PageSize = win /\ win = low + off /\ (v + n) * PageSize = win + size /\ (lp + n) * PageSize = low + size
  BY <1>1, <1>4, <1>5
<1>7. PICK f : f = FindElfLayout(im)
  OBVIOUS
<1>8. /\ f.PhysicalBase = low /\ f.VirtualBase = win /\ f.VirtualSize = size /\ v >= IdentityPages
      /\ f.EntryVirtual = im.entry /\ f.EntryPhysical = im.entry - off
  BY <1>3, <1>4, <1>5, <1>7 DEF LaidOut
<1>9. /\ l.PhysicalBase = page * PageSize /\ l.VirtualBase = v * PageSize /\ l.VirtualSize = n * PageSize
      /\ l.EntryVirtual = im.entry /\ l.EntryPhysical = base + (im.entry - off - low)
  BY <1>4, <1>6, <1>7, <1>8, RelocatedIs
<1>10. ASSUME NEW x \in Int, win <= x, x < win + size
       PROVE  ReadThrough(x) = x + base - win
  <2>1. v * PageSize <= x /\ x < (v + n) * PageSize
    BY <1>6, <1>10
  <2>2. ReadThrough(x) = x + page * PageSize - v * PageSize
    BY <1>8, <1>9, <2>1, WindowRead
  <2> QED BY <1>4, <1>6, <2>2
<1>11. ASSUME NEW i \in 1 .. N
       PROVE  \E p \in Int, va \in Int, m \in Int :
                 /\ p = im.segments[i].paddr /\ va = im.segments[i].vaddr /\ m = im.segments[i].memsz
                 /\ va = p + off /\ low <= p /\ p + m <= low + size
  <2>1. PICK p \in Int, va \in Int, m \in Int :
           p = im.segments[i].paddr /\ va = im.segments[i].vaddr /\ m = im.segments[i].memsz
    <3>1. PICK s \in Segments : s = im.segments[i]
      BY <1>2
    <3>2. s.paddr \in Int /\ s.vaddr \in Int /\ s.memsz \in Int
      BY DEF Segments
    <3> QED BY <3>1, <3>2
  <2>2. va = p + off /\ low <= p /\ p + m <= low + size
    BY <1>2, <1>3, <1>4, <1>6, <2>1 DEF LaidOut
  <2> QED BY <2>1, <2>2
<1>12. ReadThrough(l.EntryVirtual) = l.EntryPhysical
  <2>1. PICK e \in Int : e = im.entry
    BY ImageIs
  <2>2. PICK i \in 1 .. N : im.segments[i].vaddr <= e /\ e < im.segments[i].vaddr + im.segments[i].memsz
    BY <1>2, <1>3, <2>1 DEF LaidOut
  <2>3. PICK p \in Int, va \in Int, m \in Int :
           /\ p = im.segments[i].paddr /\ va = im.segments[i].vaddr /\ m = im.segments[i].memsz
           /\ va = p + off /\ low <= p /\ p + m <= low + size
    BY <1>11
  <2>4. win <= e /\ e < win + size
    BY <1>6, <2>2, <2>3
  <2>5. ReadThrough(e) = e + base - win
    BY <1>10, <2>4
  <2>6. e + base - win = base + (e - off - low)
    BY <1>6
  <2> QED BY <1>9, <2>1, <2>5, <2>6
<1>13. ASSUME NEW i \in 1 .. N, NEW k \in 0 .. im.segments[i].memsz - 1
       PROVE  mem[ReadThrough(im.segments[i].vaddr + k)] = SegmentCell(im.segments[i], k)
  <2>1. PICK p \in Int, va \in Int, m \in Int :
           /\ p = im.segments[i].paddr /\ va = im.segments[i].vaddr /\ m = im.segments[i].memsz
           /\ va = p + off /\ low <= p /\ p + m <= low + size
    BY <1>11
  <2>2. PICK x \in Int : x = va + k
    BY <2>1
  <2>3. k >= 0 /\ k < m /\ k \in Int
    BY <2>1
  <2>4. win <= x /\ x < win + size
    BY <1>6, <2>1, <2>2, <2>3
  <2>5. ReadThrough(x) = x + base - win
    BY <1>10, <2>4
  <2>6. x + base - win = base + (p - low) + k
    BY <1>6, <2>1, <2>2, <2>3
  <2>7. mem[base + (p - low) + k] = SegmentCell(im.segments[i], k)
    BY <1>2, <1>4, <1>7, <1>8, <2>1 DEF InPlace
  <2> QED BY <2>1, <2>2, <2>5, <2>6, <2>7
<1> QED BY <1>2, <1>12, <1>13

-----------------------------------------------------------------------------
(* LoadElfSegments.                                                        *)

\* Where an image goes, wherever the pages are found.
LEMMA PlacedAt ==
    ASSUME LoaderConstants, LoaderTypes, Loadable(image),
           NEW lp \in Nat, NEW n \in Nat \ {0}, NEW c \in Int, LaidOut(image, FindElfLayout(image), lp, n, c),
           NEW i \in 1 .. Len(fwmap), NEW at \in Nat, fwmap[i].type = "conventional",
           fwmap[i].start <= at, at + n <= fwmap[i].start + fwmap[i].pages,
           NEW low, low = FindElfLayout(image).PhysicalBase
    PROVE  /\ SoundMap(Carve(fwmap, i, at, n, "loader"))
           /\ CopyElfSegments(memory, image, low, at * PageSize) \in [0 .. Cells - 1 -> Int]
           /\ InPlace(CopyElfSegments(memory, image, low, at * PageSize), image, at * PageSize)
           /\ at \in Nat \ {0}
<1>1. SoundMap(fwmap) /\ image \in Images /\ memory \in [0 .. Cells - 1 -> Int]
  BY DEF LoaderTypes
<1>2. PICK rs \in Nat, rp \in Nat, limit \in Int :
         /\ rs = fwmap[i].start /\ rp = fwmap[i].pages /\ limit = Cells \div PageSize
         /\ rs + rp <= limit /\ rs > 0
  <2>1. fwmap[i] \in Regions
    BY <1>1, LenProperties DEF SoundMap
  <2>2. Cells \in Nat /\ PageSize \in Nat \ {0}
    BY DEF LoaderConstants
  <2>3. Cells \div PageSize \in Int
    BY <2>2
  <2> QED BY <2>1, <2>3 DEF Regions
<1>7. rs <= at /\ at + n <= rs + rp
  BY <1>2
<1>8. PICK m : m = fwmap
  OBVIOUS
<1>9. SoundMap(m) /\ i \in 1 .. Len(m) /\ m[i].start <= at /\ at + n <= m[i].start + m[i].pages
  BY <1>1, <1>8
<1>10. rs + rp <= limit /\ rs > 0
  BY <1>2
<1>3. at + n <= limit /\ at \in Nat \ {0}
  BY <1>7, <1>10
<1>4. SoundMap(Carve(fwmap, i, at, n, "loader"))
  <2>1. "loader" \in MemoryTypes /\ "loader" # "conventional"
    BY DEF MemoryTypes
  <2>2. SoundMap(Carve(m, i, at, n, "loader"))
    BY <1>9, <2>1, Carved
  <2> QED BY <1>8, <2>2
<1>5. PICK base : base = at * PageSize
  OBVIOUS
<1>6. /\ CopyElfSegments(memory, image, low, base) \in [0 .. Cells - 1 -> Int]
      /\ InPlace(CopyElfSegments(memory, image, low, base), image, base)
  BY <1>1, <1>2, <1>3, <1>5, ImagePlaced
<1> QED BY <1>3, <1>4, <1>5, <1>6

LEMMA ImageLoads ==
    ASSUME LoaderConstants, LoaderTypes, LoadElfSegments
    PROVE  /\ SoundMap(fwmap') /\ memory' \in [0 .. Cells - 1 -> Int]
           /\ Loadable(image)
           /\ \E page \in Nat \ {0} : /\ layout' = Relocated(FindElfLayout(image), page * PageSize)
                                      /\ InPlace(memory', image, page * PageSize)
<1>1. Loadable(image) /\ image \in Images /\ SoundMap(fwmap) /\ PageSize \in Nat \ {0}
  BY DEF LoaderTypes, LoadElfSegments, LoaderConstants
<1>2. PICK l : l = FindElfLayout(image)
  OBVIOUS
<1>3. PICK lp \in Nat, n \in Nat \ {0}, c \in Int : LaidOut(image, l, lp, n, c)
  BY <1>1, <1>2, LayoutIs
<1>4. l.PhysicalBase \div PageSize = lp /\ l.PhysicalSize \div PageSize = n
  <2>1. PICK a \in Int, b \in Int : a = l.PhysicalBase /\ b = l.PhysicalSize
    <3>1. lp * PageSize \in Int /\ n * PageSize \in Int
      BY <1>1
    <3> QED BY <1>3, <3>1 DEF LaidOut
  <2>2. 0 \in 0 .. PageSize - 1 /\ a = lp * PageSize + 0 /\ b = n * PageSize + 0
    BY <1>1, <1>3, <2>1 DEF LaidOut
  <2>3. a \div PageSize = lp /\ b \div PageSize = n
    BY <1>1, <2>2, DivideIs
  <2> QED BY <2>1, <2>3
<1> DEFINE Place(i, at) ==
              /\ fwmap' = Carve(fwmap, i, at, n, "loader")
              /\ memory' = CopyElfSegments(memory, image, l.PhysicalBase, at * PageSize)
              /\ layout' = Relocated(l, at * PageSize)
<1>5. IF Holding(fwmap, lp, n) # {}
      THEN Place(Least(Holding(fwmap, lp, n)), lp)
      ELSE \E i \in Roomy(fwmap, n) : Place(i, fwmap[i].start)
  BY <1>2, <1>4 DEF LoadElfSegments
<1>6. PICK i \in 1 .. Len(fwmap), at \in Nat :
         /\ Place(i, at) /\ fwmap[i].type = "conventional"
         /\ fwmap[i].start <= at /\ at + n <= fwmap[i].start + fwmap[i].pages
  <2> HIDE DEF Place
  <2>1. CASE Holding(fwmap, lp, n) # {}
    <3>1. PICK i : i = Least(Holding(fwmap, lp, n))
      OBVIOUS
    <3>2. Holding(fwmap, lp, n) \subseteq Nat
      BY DEF Holding
    <3>3. i \in Holding(fwmap, lp, n)
      BY <2>1, <3>1, <3>2, LeastIs
    <3>4. Place(i, lp)
      BY <1>5, <2>1, <3>1
    <3> QED BY <3>3, <3>4 DEF Holding
  <2>2. CASE Holding(fwmap, lp, n) = {}
    <3>1. PICK i \in Roomy(fwmap, n) : Place(i, fwmap[i].start)
      BY <1>5, <2>2
    <3>2. /\ i \in 1 .. Len(fwmap) /\ fwmap[i].start \in Nat /\ fwmap[i].pages \in Nat
          /\ fwmap[i].pages >= n
      BY <1>1, RoomyRegion
    <3>3. fwmap[i].type = "conventional"
      BY DEF Roomy
    <3>4. PICK at \in Nat, pages \in Nat : at = fwmap[i].start /\ pages = fwmap[i].pages
      BY <3>2
    <3>5. at <= at /\ at + n <= at + pages
      BY <3>2, <3>4
    <3> QED BY <3>1, <3>2, <3>3, <3>4, <3>5
  <2> QED BY <2>1, <2>2
<1>7. /\ SoundMap(Carve(fwmap, i, at, n, "loader"))
      /\ CopyElfSegments(memory, image, l.PhysicalBase, at * PageSize) \in [0 .. Cells - 1 -> Int]
      /\ InPlace(CopyElfSegments(memory, image, l.PhysicalBase, at * PageSize), image, at * PageSize)
      /\ at \in Nat \ {0}
  BY <1>1, <1>2, <1>3, <1>6, PlacedAt
<1> QED BY <1>1, <1>2, <1>6, <1>7

\* What the record says of a loaded image.
Described(l) ==
    /\ l.PhysicalBase # 0 /\ l.PhysicalSize # 0 /\ l.VirtualBase # 0
    /\ l.EntryPhysical # 0 /\ l.EntryVirtual # 0 /\ l.VirtualSize = l.PhysicalSize

LEMMA LoadedIsDescribed ==
    ASSUME LoaderConstants, NEW im \in Images, Loadable(im), NEW page \in Nat \ {0},
           NEW l, l = Relocated(FindElfLayout(im), page * PageSize)
    PROVE  Described(l)
<1>1. PageSize \in Nat \ {0} /\ IdentityPages \in Nat \ {0}
  BY DEF LoaderConstants
<1>2. PICK f : f = FindElfLayout(im)
  OBVIOUS
<1>3. PICK lp \in Nat, n \in Nat \ {0}, c \in Int : LaidOut(im, f, lp, n, c)
  BY <1>2, LayoutIs
<1>4. PICK base \in Int, low \in Int, off \in Int, win \in Int, size \in Int, id \in Int :
         /\ base = page * PageSize /\ low = lp * PageSize /\ off = c * PageSize
         /\ win = (lp + c) * PageSize /\ size = n * PageSize /\ id = IdentityPages * PageSize
  BY <1>1
<1>5. base > 0 /\ size > 0 /\ win > 0 /\ id > 0 /\ win = low + off
  <2>1. base > 0 /\ size > 0 /\ id > 0
    BY <1>1, <1>4
  <2>2. PICK v \in Int : v = lp + c
    OBVIOUS
  <2>3. IdentityPages <= v
    BY <1>1, <1>3, <2>2 DEF LaidOut
  <2>4. IdentityPages * PageSize <= v * PageSize
    BY <1>1, <2>3, PagesOrdered
  <2>5. win >= id
    BY <1>4, <2>2, <2>4
  <2>6. win > 0
    BY <2>1, <2>5
  <2>7. win = low + off
    BY <1>1, <1>4
  <2> QED BY <2>1, <2>6, <2>7
<1>6. PICK e \in Int : e = im.entry
  BY ImageIs
<1>7. /\ f.PhysicalBase = low /\ f.PhysicalSize = size /\ f.VirtualBase = win /\ f.VirtualSize = size
      /\ f.EntryVirtual = e /\ f.EntryPhysical = e - off
  BY <1>3, <1>4, <1>6 DEF LaidOut
<1>8. e - off >= low /\ e > 0
  <2>1. PICK N \in Nat : N = Len(im.segments) /\ \A i \in 1 .. N : im.segments[i] \in Segments
    BY ImageIs
  <2>2. PICK i \in 1 .. N : im.segments[i].vaddr <= e
    BY <1>3, <1>6, <2>1 DEF LaidOut
  <2>3. PICK p \in Int, va \in Int : p = im.segments[i].paddr /\ va = im.segments[i].vaddr
    BY <2>1 DEF Segments
  <2>4. va = p + off /\ low <= p
    BY <1>3, <1>4, <2>1, <2>3 DEF LaidOut
  <2> QED BY <1>5, <2>2, <2>3, <2>4
<1>9. /\ l.PhysicalBase = base /\ l.EntryPhysical = base + (e - off - low)
      /\ l.PhysicalSize = size /\ l.VirtualBase = win /\ l.VirtualSize = size /\ l.EntryVirtual = e
  BY <1>2, <1>4, <1>7, RelocatedIs
<1>10. base + (e - off - low) # 0
  BY <1>5, <1>8
<1> QED BY <1>5, <1>8, <1>9, <1>10 DEF Described

-----------------------------------------------------------------------------
(* The record: what each capture adds.                                     *)

\* What the captures fill in.
Captures == {"Flags", "Framebuffer", "Rsdp", "Tables", "Nvram", "Runtime", "UefiRevision"}

\* The fields of d outside S are those of b.
Carries(b, d, S) == Shaped(d) /\ \A g \in InfoFields \ S : d[g] = b[g]

\* A capture that flags only what is wanted, and what it has filled in.
LEMMA CaptureOffered ==
    ASSUME NEW b, NEW F \in SUBSET Items, HandedOver(b, F), NEW d, Carries(b, d, Captures),
           NEW A \in SUBSET Items, A \subseteq want, d.Flags = b.Flags \cup A, {"map", "range"} \cap A = {},
           d.Rsdp \in Nat, ValidFramebuffer(d), ValidPlatformTables(d), ValidNvramSnapshot(d),
           ValidRuntimeServices(d), "rsdp" \in d.Flags => d.Rsdp # 0 /\ BestRsdp(d),
           "firmware" \in d.Flags => d.UefiRevision # 0
    PROVE  HandedOver(d, F \cup A)
<1>1. /\ Shaped(d) /\ d.Signature = b.Signature /\ d.Version = b.Version /\ d.Size = b.Size
      /\ d.MemoryMap = b.MemoryMap /\ d.KernelBase = b.KernelBase /\ d.KernelSize = b.KernelSize
      /\ d.VirtualBase = b.VirtualBase /\ d.VirtualSize = b.VirtualSize
      /\ d.EntryPhysical = b.EntryPhysical /\ d.EntryVirtual = b.EntryVirtual /\ d.Font = b.Font
      /\ d.Config = b.Config
  BY DEF Carries, InfoFields, Captures
<1>2. \A x : x \notin A => (x \in d.Flags <=> x \in b.Flags)
  OBVIOUS
<1>3. \A x \in {"map", "range", "layout", "font", "config", "commandline"} : x \notin A
  BY DEF Items
<1>4. AbiIsCompatible(d) /\ d.Flags \cap Items \subseteq (F \cup A) \cap want
  BY <1>1 DEF HandedOver, AbiIsCompatible, KnownFlags
<1>5. "range" \in want => ValidKernelRange(d) /\ ValidKernelVirtualLayout(d)
  BY <1>1, <1>2, <1>3 DEF HandedOver, ValidKernelRange, ValidKernelVirtualLayout
<1>6. Appendable(d) /\ ValidBootConfiguration(d)
  BY <1>1, <1>2, <1>3 DEF HandedOver, Appendable, ValidBootConfiguration
<1> QED BY <1>1, <1>4, <1>5, <1>6 DEF HandedOver

\* What is not flagged need not be there.
LEMMA NotOffered ==
    ASSUME NEW b, NEW F \in SUBSET Items, HandedOver(b, F), NEW x \in Items, x \notin F
    PROVE  x \notin b.Flags
BY DEF HandedOver

LEMMA FirmwareOffered ==
    ASSUME NEW b, NEW F \in SUBSET Items, HandedOver(b, F), NEW d, d = CaptureFirmwareData(b)
    PROVE  HandedOver(d, F \cup {"firmware"})
<1>1. CASE "firmware" \notin want
  BY <1>1 DEF CaptureFirmwareData, HandedOver
<1>2. CASE "firmware" \in want
  <2>1. d = [b EXCEPT !.UefiRevision = 2, !.Flags = @ \cup {"firmware"}]
    BY <1>2 DEF CaptureFirmwareData
  <2>2. Shaped(b)
    BY DEF HandedOver
  <2>3. d.UefiRevision = 2 /\ d.Flags = b.Flags \cup {"firmware"} /\ Carries(b, d, {"UefiRevision", "Flags"})
    BY <2>1, <2>2 DEF Shaped, InfoFields, Carries
  <2>4. /\ d.Framebuffer = b.Framebuffer /\ d.Rsdp = b.Rsdp /\ d.Tables = b.Tables
        /\ d.Nvram = b.Nvram /\ d.Runtime = b.Runtime /\ Carries(b, d, Captures)
    BY <2>3 DEF Carries, InfoFields, Captures
  <2>5. \A x : x # "firmware" => (x \in d.Flags <=> x \in b.Flags)
    BY <2>3
  <2>6. /\ ValidFramebuffer(d) /\ ValidPlatformTables(d) /\ ValidNvramSnapshot(d) /\ ValidRuntimeServices(d)
        /\ d.Rsdp \in Nat
    BY <2>4, <2>5 DEF HandedOver, ValidFramebuffer, ValidPlatformTables, ValidNvramSnapshot, ValidRuntimeServices
  <2>7. "rsdp" \in d.Flags => d.Rsdp # 0 /\ BestRsdp(d)
    BY <2>4, <2>5 DEF HandedOver, BestRsdp
  <2>8. /\ {"firmware"} \in SUBSET Items /\ {"firmware"} \subseteq want /\ {"map", "range"} \cap {"firmware"} = {}
        /\ ("firmware" \in d.Flags => d.UefiRevision # 0)
    BY <1>2, <2>3 DEF Items
  <2> QED BY <2>3, <2>4, <2>6, <2>7, <2>8, CaptureOffered
<1> QED BY <1>1, <1>2

LEMMA RsdpCaptured ==
    ASSUME NEW t \in Seq(STRING)
    PROVE  /\ CapturedRsdp(t) \in Nat
           /\ CapturedRsdp(t) # 0 =>
                \/ t[CapturedRsdp(t)] = "acpi20"
                \/ \A i \in DOMAIN t : t[i] # "acpi20"
<1> DEFINE Acpi20 == {i \in 1 .. Len(t) : t[i] = "acpi20"}
           Acpi10 == {i \in 1 .. Len(t) : t[i] = "acpi10"}
<1>1. PICK c : c = CapturedRsdp(t)
  OBVIOUS
<1>2. PICK n \in Nat : n = Len(t) /\ DOMAIN t = 1 .. n
  BY LenProperties
<1>3. CASE Acpi20 # {}
  <2>1. Acpi20 \subseteq 0 .. n
    BY <1>2
  <2>2. Greatest(Acpi20) \in Acpi20
    <3> HIDE DEF Acpi20
    <3> QED BY <1>2, <1>3, <2>1, GreatestBounded
  <2>3. c = Greatest(Acpi20)
    BY <1>1, <1>3 DEF CapturedRsdp
  <2>4. c \in Acpi20
    <3> HIDE DEF Acpi20
    <3> QED BY <2>2, <2>3
  <2> QED BY <1>1, <1>2, <2>4
<1>4. CASE Acpi20 = {} /\ Acpi10 # {}
  <2>1. Acpi10 \subseteq Nat
    BY <1>2
  <2>2. Least(Acpi10) \in Acpi10
    <3> HIDE DEF Acpi10, Acpi20
    <3> QED BY <1>4, <2>1, LeastIs
  <2>3. c = Least(Acpi10)
    BY <1>1, <1>4 DEF CapturedRsdp
  <2>4. c \in Nat
    <3> HIDE DEF Acpi10, Acpi20
    <3> QED BY <2>1, <2>2, <2>3
  <2>5. \A i \in DOMAIN t : t[i] # "acpi20"
    BY <1>2, <1>4
  <2> QED BY <1>1, <2>4, <2>5
<1>5. CASE Acpi20 = {} /\ Acpi10 = {}
  <2>1. c = 0
    BY <1>1, <1>5 DEF CapturedRsdp
  <2> QED BY <1>1, <2>1
<1> QED BY <1>3, <1>4, <1>5

LEMMA TablesOffered ==
    ASSUME LoaderConstants, firmware \in Firmwares, NEW b, NEW F \in SUBSET Items, HandedOver(b, F),
           "tables" \notin F, "rsdp" \notin F, NEW d, d = OrynCapturePlatformTables(b)
    PROVE  HandedOver(d, F \cup ({"tables", "rsdp"} \cap want))
<1>1. CASE {"tables", "rsdp"} \cap want = {}
  BY <1>1 DEF OrynCapturePlatformTables
<1>2. CASE {"tables", "rsdp"} \cap want # {}
  <2>1. PICK t : t = SubSeq(firmware.tables, 1, IF Len(firmware.tables) > MaxTables THEN MaxTables
                                                 ELSE Len(firmware.tables))
    OBVIOUS
  <2>2. t \in Seq(STRING) /\ Len(t) \in 0 .. MaxTables
    <3>1. firmware.tables \in Seq(STRING) /\ MaxTables \in Nat
      BY DEF LoaderConstants
    <3>2. PICK s \in Seq(STRING), k \in Nat : s = firmware.tables /\ k = Len(s)
      BY <3>1, LenProperties
    <3>3. PICK m \in Nat : m = (IF k > MaxTables THEN MaxTables ELSE k) /\ m \in 0 .. k /\ m <= MaxTables
      BY <3>1
    <3>4. t = SubSeq(s, 1, m)
      BY <2>1, <3>2, <3>3
    <3>5. \A i \in 1 .. m : s[i] \in STRING
      BY <3>2, <3>3
    <3>6. t \in Seq(STRING) /\ Len(t) = m
      BY <3>2, <3>3, <3>4, <3>5, SubSeqProperties
    <3> QED BY <3>3, <3>6
  <2>3. PICK c : c = CapturedRsdp(t)
    OBVIOUS
  <2>19. PICK X : X = IF t # <<>> THEN want \cap {"tables"} ELSE {}
    OBVIOUS
  <2>18. PICK Y : Y = IF c # 0 THEN want \cap {"rsdp"} ELSE {}
    OBVIOUS
  <2>4. PICK A : A = X \cup Y
    OBVIOUS
  <2>5. d = [b EXCEPT !.Tables = t, !.Rsdp = c,
                 !.Flags = @ \cup X \cup Y]
    BY <1>2, <2>1, <2>3, <2>19, <2>18 DEF OrynCapturePlatformTables
  <2>6. Shaped(b)
    BY DEF HandedOver
  <2>7. /\ d.Tables = t /\ d.Rsdp = c /\ d.Flags = b.Flags \cup A
        /\ Carries(b, d, {"Tables", "Rsdp", "Flags"})
    <3>1. /\ d.Tables = t /\ d.Rsdp = c /\ d.Flags = (b.Flags \cup X) \cup Y
          /\ Carries(b, d, {"Tables", "Rsdp", "Flags"})
      BY <2>5, <2>6 DEF Shaped, InfoFields, Carries
    <3>2. (b.Flags \cup X) \cup Y = b.Flags \cup A
      BY <2>4
    <3> QED BY <3>1, <3>2
  <2>8. /\ d.Framebuffer = b.Framebuffer /\ d.UefiRevision = b.UefiRevision
        /\ d.Nvram = b.Nvram /\ d.Runtime = b.Runtime /\ Carries(b, d, Captures)
    BY <2>7 DEF Carries, InfoFields, Captures
  <2>9. A \subseteq {"tables", "rsdp"} \cap want
    BY <2>4, <2>19, <2>18
  <2>10. \A x \in {"framebuffer", "nvram", "runtime", "firmware"} : x \in d.Flags <=> x \in b.Flags
    BY <2>7, <2>9
  <2>11. "tables" \notin b.Flags /\ "rsdp" \notin b.Flags
    BY NotOffered DEF Items
  <2>12. ValidFramebuffer(d) /\ ValidNvramSnapshot(d) /\ ValidRuntimeServices(d)
         /\ ("firmware" \in d.Flags => d.UefiRevision # 0)
    BY <2>8, <2>10 DEF HandedOver, ValidFramebuffer, ValidNvramSnapshot, ValidRuntimeServices
  <2>13. ValidPlatformTables(d)
    <3>1. "tables" \in d.Flags => t # <<>>
      BY <2>4, <2>7, <2>11, <2>19, <2>18
    <3>2. t # <<>> => Len(t) \in 1 .. MaxTables
      <4>1. t # <<>> => Len(t) # 0
        BY <2>2, EmptySeq
      <4> QED BY <2>2, <4>1
    <3> QED BY <2>7, <3>1, <3>2 DEF ValidPlatformTables
  <2>14. "rsdp" \in d.Flags => d.Rsdp # 0 /\ BestRsdp(d)
    <3>1. "rsdp" \in d.Flags => c # 0
      BY <2>4, <2>7, <2>11, <2>19, <2>18
    <3> QED BY <2>2, <2>3, <2>7, <3>1, RsdpCaptured DEF BestRsdp
  <2>15. d.Rsdp \in Nat
    BY <2>2, <2>3, <2>7, RsdpCaptured
  <2>16. A \in SUBSET Items /\ A \subseteq want /\ {"map", "range"} \cap A = {}
    BY <2>9 DEF Items
  <2>17. HandedOver(d, F \cup A)
    BY <2>7, <2>8, <2>12, <2>13, <2>14, <2>15, <2>16, CaptureOffered
  <2> QED BY <2>9, <2>17 DEF HandedOver
<1> QED BY <1>1, <1>2

LEMMA NvramOffered ==
    ASSUME NEW b, NEW F \in SUBSET Items, HandedOver(b, F), "nvram" \notin F,
           NEW d, d = OrynCaptureNvramSnapshot(b)
    PROVE  HandedOver(d, F \cup {"nvram"})
<1>1. CASE "nvram" \notin want
  BY <1>1 DEF OrynCaptureNvramSnapshot, HandedOver
<1>2. CASE "nvram" \in want
  <2>2. PICK A : A = IF "GetVariable" \in firmware.services THEN {"nvram"} ELSE {}
    OBVIOUS
  <2>3. PICK n : n = [version |-> 1, getVariable |-> "GetVariable" \in firmware.services, bootOrder |-> 0]
    OBVIOUS
  <2>4. d = [b EXCEPT !.Nvram = n, !.Flags = @ \cup A]
    BY <1>2, <2>2, <2>3 DEF OrynCaptureNvramSnapshot
  <2>5. Shaped(b)
    BY DEF HandedOver
  <2>6. d.Nvram = n /\ d.Flags = b.Flags \cup A /\ Carries(b, d, {"Nvram", "Flags"})
    BY <2>4, <2>5 DEF Shaped, InfoFields, Carries
  <2>7. /\ d.Framebuffer = b.Framebuffer /\ d.UefiRevision = b.UefiRevision /\ d.Tables = b.Tables
        /\ d.Rsdp = b.Rsdp /\ d.Runtime = b.Runtime /\ Carries(b, d, Captures)
    BY <2>6 DEF Carries, InfoFields, Captures
  <2>8. A \subseteq {"nvram"}
    BY <2>2
  <2>9. \A x : x # "nvram" => (x \in d.Flags <=> x \in b.Flags)
    BY <2>6, <2>8
  <2>10. ValidFramebuffer(d) /\ ValidPlatformTables(d) /\ ValidRuntimeServices(d)
         /\ ("firmware" \in d.Flags => d.UefiRevision # 0) /\ d.Rsdp \in Nat
    BY <2>7, <2>9 DEF HandedOver, ValidFramebuffer, ValidPlatformTables, ValidRuntimeServices
  <2>11. "rsdp" \in d.Flags => d.Rsdp # 0 /\ BestRsdp(d)
    BY <2>7, <2>9 DEF HandedOver, BestRsdp
  <2>12. ValidNvramSnapshot(d)
    <3>1. "nvram" \notin b.Flags
      BY NotOffered DEF Items
    <3>2. "nvram" \in d.Flags => "GetVariable" \in firmware.services
      BY <2>2, <2>6, <3>1
    <3>3. n.version = 1 /\ ("GetVariable" \in firmware.services => n.getVariable)
      BY <2>3
    <3> QED BY <2>6, <3>2, <3>3 DEF ValidNvramSnapshot
  <2>13. A \in SUBSET Items /\ A \subseteq want /\ {"map", "range"} \cap A = {}
    BY <1>2, <2>8 DEF Items
  <2>14. HandedOver(d, F \cup A)
    BY <2>6, <2>7, <2>10, <2>11, <2>12, <2>13, CaptureOffered
  <2> QED BY <2>8, <2>14 DEF HandedOver
<1> QED BY <1>1, <1>2

LEMMA RuntimeOffered ==
    ASSUME NEW b, NEW F \in SUBSET Items, HandedOver(b, F), "runtime" \notin F,
           NEW d, d = OrynCaptureRuntimeServices(b)
    PROVE  HandedOver(d, F \cup {"runtime"})
<1>1. CASE "runtime" \notin want
  BY <1>1 DEF OrynCaptureRuntimeServices, HandedOver
<1>2. CASE "runtime" \in want
  <2>1. PICK v : v = firmware.services
    OBVIOUS
  <2>2. PICK A : A = IF v = {} THEN {} ELSE {"runtime"}
    OBVIOUS
  <2>3. PICK n : n = [version |-> 1, table |-> IF v = {} THEN 0 ELSE 1, services |-> v]
    OBVIOUS
  <2>4. d = [b EXCEPT !.Runtime = n, !.Flags = @ \cup A]
    BY <1>2, <2>1, <2>2, <2>3 DEF OrynCaptureRuntimeServices
  <2>5. Shaped(b)
    BY DEF HandedOver
  <2>6. d.Runtime = n /\ d.Flags = b.Flags \cup A /\ Carries(b, d, {"Runtime", "Flags"})
    BY <2>4, <2>5 DEF Shaped, InfoFields, Carries
  <2>7. /\ d.Framebuffer = b.Framebuffer /\ d.UefiRevision = b.UefiRevision /\ d.Tables = b.Tables
        /\ d.Rsdp = b.Rsdp /\ d.Nvram = b.Nvram /\ Carries(b, d, Captures)
    BY <2>6 DEF Carries, InfoFields, Captures
  <2>8. A \subseteq {"runtime"}
    BY <2>2
  <2>9. \A x : x # "runtime" => (x \in d.Flags <=> x \in b.Flags)
    BY <2>6, <2>8
  <2>10. ValidFramebuffer(d) /\ ValidPlatformTables(d) /\ ValidNvramSnapshot(d)
         /\ ("firmware" \in d.Flags => d.UefiRevision # 0) /\ d.Rsdp \in Nat
    BY <2>7, <2>9 DEF HandedOver, ValidFramebuffer, ValidPlatformTables, ValidNvramSnapshot
  <2>11. "rsdp" \in d.Flags => d.Rsdp # 0 /\ BestRsdp(d)
    BY <2>7, <2>9 DEF HandedOver, BestRsdp
  <2>12. ValidRuntimeServices(d)
    <3>1. "runtime" \notin b.Flags
      BY NotOffered DEF Items
    <3>2. "runtime" \in d.Flags => v # {}
      BY <2>2, <2>6, <3>1
    <3>3. n.version = 1 /\ (v # {} => n.table # 0 /\ n.services # {})
      BY <2>3
    <3> QED BY <2>6, <3>2, <3>3 DEF ValidRuntimeServices
  <2>13. A \in SUBSET Items /\ A \subseteq want /\ {"map", "range"} \cap A = {}
    BY <1>2, <2>8 DEF Items
  <2>14. HandedOver(d, F \cup A)
    BY <2>6, <2>7, <2>10, <2>11, <2>12, <2>13, CaptureOffered
  <2> QED BY <2>8, <2>14 DEF HandedOver
<1> QED BY <1>1, <1>2

LEMMA FramebufferOffered ==
    ASSUME NEW b, NEW F \in SUBSET Items, HandedOver(b, F), "framebuffer" \notin F,
           NEW d, d = CaptureFramebuffer(b)
    PROVE  HandedOver(d, F \cup {"framebuffer"})
<1>1. CASE firmware.graphics = "none"
  BY <1>1 DEF CaptureFramebuffer, HandedOver
<1>2. CASE firmware.graphics # "none"
  <2>1. PICK v : v = firmware.graphics
    OBVIOUS
  <2>2. PICK A : A = IF v = "linear" THEN want \cap {"framebuffer"} ELSE {}
    OBVIOUS
  <2>3. PICK n : n = [base |-> 1, width |-> 2, pitch |-> 2, format |-> IF v = "blt" THEN "unknown" ELSE "bgrx"]
    OBVIOUS
  <2>4. d = [b EXCEPT !.Framebuffer = n, !.Flags = @ \cup A]
    BY <1>2, <2>1, <2>2, <2>3 DEF CaptureFramebuffer
  <2>5. Shaped(b)
    BY DEF HandedOver
  <2>6. d.Framebuffer = n /\ d.Flags = b.Flags \cup A /\ Carries(b, d, {"Framebuffer", "Flags"})
    BY <2>4, <2>5 DEF Shaped, InfoFields, Carries
  <2>7. /\ d.Runtime = b.Runtime /\ d.UefiRevision = b.UefiRevision /\ d.Tables = b.Tables
        /\ d.Rsdp = b.Rsdp /\ d.Nvram = b.Nvram /\ Carries(b, d, Captures)
    BY <2>6 DEF Carries, InfoFields, Captures
  <2>8. A \subseteq {"framebuffer"} \cap want
    BY <2>2
  <2>9. \A x : x # "framebuffer" => (x \in d.Flags <=> x \in b.Flags)
    BY <2>6, <2>8
  <2>10. ValidRuntimeServices(d) /\ ValidPlatformTables(d) /\ ValidNvramSnapshot(d)
         /\ ("firmware" \in d.Flags => d.UefiRevision # 0) /\ d.Rsdp \in Nat
    BY <2>7, <2>9 DEF HandedOver, ValidRuntimeServices, ValidPlatformTables, ValidNvramSnapshot
  <2>11. "rsdp" \in d.Flags => d.Rsdp # 0 /\ BestRsdp(d)
    BY <2>7, <2>9 DEF HandedOver, BestRsdp
  <2>12. ValidFramebuffer(d)
    <3>1. "framebuffer" \notin b.Flags
      BY NotOffered DEF Items
    <3>2. "framebuffer" \in d.Flags => v = "linear"
      BY <2>2, <2>6, <3>1
    <3>3. n.base # 0 /\ n.width # 0 /\ n.pitch >= n.width /\ (v = "linear" => n.format # "unknown")
      BY <2>3
    <3> QED BY <2>6, <3>2, <3>3 DEF ValidFramebuffer
  <2>13. A \in SUBSET Items /\ A \subseteq want /\ {"map", "range"} \cap A = {}
    BY <2>8 DEF Items
  <2>14. HandedOver(d, F \cup A)
    BY <2>6, <2>7, <2>10, <2>11, <2>12, <2>13, CaptureOffered
  <2> QED BY <2>8, <2>14 DEF HandedOver
<1> QED BY <1>1, <1>2

LEMMA BaseOffered ==
    ASSUME LoaderConstants, firmware \in Firmwares, want \in Selections,
           NEW l, Described(l), NEW font \in {0, 1}, NEW d, d = FillBaseBootInfo(l, font)
    PROVE  HandedOver(d, {"range"})
<1>1. PICK cl \in Nat : cl = firmware.commandLine /\ (cl > 0 => cl < MaxCommandLine)
  BY DEF LoaderConstants
<1>2. PICK A : A = {"layout", "config"} \cup (want \cap {"range"}) \cup (IF font # 0 THEN {"font"} ELSE {})
                  \cup (IF cl > 0 THEN {"commandline"} ELSE {})
  OBVIOUS
<1>3. d = [EmptyInfo EXCEPT
        !.Signature = TRUE, !.Version = AbiVersion, !.Size = AbiSize,
        !.KernelBase = IF "range" \in want THEN l.PhysicalBase ELSE 0,
        !.KernelSize = IF "range" \in want THEN l.PhysicalSize ELSE 0,
        !.VirtualBase = l.VirtualBase, !.VirtualSize = l.VirtualSize,
        !.EntryPhysical = l.EntryPhysical, !.EntryVirtual = l.EntryVirtual,
        !.Font = font,
        !.Config = [version |-> 1, project |-> TRUE, commandLine |-> cl],
        !.Flags = A]
  BY <1>1, <1>2 DEF FillBaseBootInfo
<1>4. /\ d.Signature = TRUE /\ d.Version = AbiVersion /\ d.Size = AbiSize
      /\ d.KernelBase = (IF "range" \in want THEN l.PhysicalBase ELSE 0)
      /\ d.KernelSize = (IF "range" \in want THEN l.PhysicalSize ELSE 0)
      /\ d.VirtualBase = l.VirtualBase /\ d.VirtualSize = l.VirtualSize
      /\ d.EntryPhysical = l.EntryPhysical /\ d.EntryVirtual = l.EntryVirtual /\ d.Font = font
      /\ d.Config = [version |-> 1, project |-> TRUE, commandLine |-> cl] /\ d.Flags = A
      /\ d.MemoryMap = <<>> /\ d.Rsdp = 0
  BY <1>3 DEF EmptyInfo
<1>5. Shaped(d)
  BY <1>3 DEF EmptyInfo, Shaped, InfoFields
<1>6. /\ A \subseteq {"layout", "config", "range", "font", "commandline"} /\ {"layout", "config"} \subseteq A
      /\ A \cap Items \subseteq {"range"} \cap want /\ ("range" \in want => "range" \in A)
      /\ ("font" \in A => font # 0) /\ (cl > 0 => "commandline" \in A)
  BY <1>2 DEF Items
<1>7. AbiIsCompatible(d) /\ d.Size \in Nat
  BY <1>4, <1>6 DEF AbiIsCompatible, AbiSize, KnownFlags, Items
<1>8. "range" \in want => ValidKernelRange(d) /\ ValidKernelVirtualLayout(d)
  BY <1>4, <1>6 DEF ValidKernelRange, ValidKernelVirtualLayout, Described
<1>9. /\ Appendable(d) /\ ValidFramebuffer(d) /\ ValidPlatformTables(d) /\ ValidNvramSnapshot(d)
      /\ ValidRuntimeServices(d) /\ "rsdp" \notin d.Flags /\ "firmware" \notin d.Flags
  BY <1>4, <1>6 DEF Appendable, ValidFramebuffer, ValidPlatformTables, ValidNvramSnapshot, ValidRuntimeServices
<1>10. ValidBootConfiguration(d)
  BY <1>1, <1>4, <1>6 DEF ValidBootConfiguration
<1>11. d.MemoryMap \in Seq(Regions) /\ d.Rsdp \in Nat /\ d.Flags \cap Items \subseteq {"range"} \cap want
  BY <1>4, <1>6
<1> QED BY <1>5, <1>7, <1>8, <1>9, <1>10, <1>11 DEF HandedOver

LEMMA OfferedMore ==
    ASSUME NEW b, NEW F, NEW G, HandedOver(b, F), F \cap want \subseteq G
    PROVE  HandedOver(b, G)
BY DEF HandedOver

\* The record that AllocateBootInfo fills.
LEMMA RecordFilled ==
    ASSUME LoaderConstants, firmware \in Firmwares, want \in Selections,
           NEW l, Described(l), NEW font \in {0, 1},
           NEW d, d = CaptureFramebuffer(OrynCaptureRuntimeServices(
                          OrynCaptureNvramSnapshot(OrynCapturePlatformTables(
                              CaptureFirmwareData(FillBaseBootInfo(l, font))))))
    PROVE  HandedOver(d, Items)
<1>1. PICK a : a = FillBaseBootInfo(l, font)
  OBVIOUS
<1>2. PICK b : b = CaptureFirmwareData(a)
  OBVIOUS
<1>3. PICK c : c = OrynCapturePlatformTables(b)
  OBVIOUS
<1>4. PICK e : e = OrynCaptureNvramSnapshot(c)
  OBVIOUS
<1>5. PICK f : f = OrynCaptureRuntimeServices(e)
  OBVIOUS
<1>6. d = CaptureFramebuffer(f)
  BY <1>1, <1>2, <1>3, <1>4, <1>5
<1>7. HandedOver(a, {"range"})
  BY <1>1, BaseOffered
<1>8. HandedOver(b, {"range", "firmware"})
  <2>1. {"range"} \in SUBSET Items
    BY DEF Items
  <2>2. HandedOver(b, {"range"} \cup {"firmware"})
    BY <1>2, <1>7, <2>1, FirmwareOffered
  <2>3. {"range"} \cup {"firmware"} = {"range", "firmware"}
    OBVIOUS
  <2> QED BY <2>2, <2>3
<1>9. HandedOver(c, {"range", "firmware", "tables", "rsdp"})
  <2>1. {"range", "firmware"} \in SUBSET Items /\ "tables" \notin {"range", "firmware"} /\ "rsdp" \notin {"range", "firmware"}
    BY DEF Items
  <2>2. HandedOver(c, {"range", "firmware"} \cup ({"tables", "rsdp"} \cap want))
    BY <1>3, <1>8, <2>1, TablesOffered
  <2>3. ({"range", "firmware"} \cup ({"tables", "rsdp"} \cap want)) \cap want \subseteq {"range", "firmware", "tables", "rsdp"}
    OBVIOUS
  <2> QED BY <2>2, <2>3, OfferedMore
<1>10. HandedOver(e, {"range", "firmware", "tables", "rsdp", "nvram"})
  <2>1. {"range", "firmware", "tables", "rsdp"} \in SUBSET Items /\ "nvram" \notin {"range", "firmware", "tables", "rsdp"}
    BY DEF Items
  <2>2. HandedOver(e, {"range", "firmware", "tables", "rsdp"} \cup {"nvram"})
    BY <1>4, <1>9, <2>1, NvramOffered
  <2>3. ({"range", "firmware", "tables", "rsdp"} \cup {"nvram"}) \cap want \subseteq {"range", "firmware", "tables", "rsdp", "nvram"}
    OBVIOUS
  <2> QED BY <2>2, <2>3, OfferedMore
<1>11. HandedOver(f, {"range", "firmware", "tables", "rsdp", "nvram", "runtime"})
  <2>1. /\ {"range", "firmware", "tables", "rsdp", "nvram"} \in SUBSET Items
        /\ "runtime" \notin {"range", "firmware", "tables", "rsdp", "nvram"}
    BY DEF Items
  <2>2. HandedOver(f, {"range", "firmware", "tables", "rsdp", "nvram"} \cup {"runtime"})
    BY <1>5, <1>10, <2>1, RuntimeOffered
  <2>3. ({"range", "firmware", "tables", "rsdp", "nvram"} \cup {"runtime"}) \cap want
            \subseteq {"range", "firmware", "tables", "rsdp", "nvram", "runtime"}
    OBVIOUS
  <2> QED BY <2>2, <2>3, OfferedMore
<1>12. HandedOver(d, Items)
  <2>1. /\ {"range", "firmware", "tables", "rsdp", "nvram", "runtime"} \in SUBSET Items
        /\ "framebuffer" \notin {"range", "firmware", "tables", "rsdp", "nvram", "runtime"}
    BY DEF Items
  <2>2. HandedOver(d, {"range", "firmware", "tables", "rsdp", "nvram", "runtime"} \cup {"framebuffer"})
    BY <1>6, <1>11, <2>1, FramebufferOffered
  <2>3. ({"range", "firmware", "tables", "rsdp", "nvram", "runtime"} \cup {"framebuffer"}) \cap want \subseteq Items
    BY DEF Items
  <2> QED BY <2>2, <2>3, OfferedMore
<1> QED BY <1>12

-----------------------------------------------------------------------------
(* The seal.                                                               *)

\* Records with the same fields are the same.
LEMMA SameRecord ==
    ASSUME NEW b, NEW d, Shaped(b), Shaped(d), \A g \in InfoFields : b[g] = d[g]
    PROVE  b = d
<1>1. [g \in InfoFields |-> b[g]] = [g \in InfoFields |-> d[g]]
  OBVIOUS
<1> QED BY <1>1 DEF Shaped

\* What the checksum covers.
Covered(b) ==
    [b EXCEPT !.HandoffChecksum = <<>>,
              !.MemoryMap = IF "map" \in b.Flags THEN @ ELSE <<>>,
              !.Font = IF "font" \in b.Flags THEN @ ELSE 0]

LEMMA CoveredIs ==
    ASSUME NEW b, Shaped(b), NEW v, v = Covered(b)
    PROVE  /\ Carries(b, v, {"HandoffChecksum", "MemoryMap", "Font"})
           /\ v.HandoffChecksum = <<>>
           /\ v.MemoryMap = (IF "map" \in b.Flags THEN b.MemoryMap ELSE <<>>)
           /\ v.Font = (IF "font" \in b.Flags THEN b.Font ELSE 0)
BY DEF Covered, Shaped, InfoFields, Carries

LEMMA ChecksumIs ==
    ASSUME NEW b, AbiIsCompatible(b), Appendable(b)
    PROVE  ComputeHandoffChecksum(b) = <<Covered(b)>> /\ ComputeHandoffChecksum(b) # <<>>
<1>1. ComputeHandoffChecksum(b) = <<Covered(b)>>
  BY DEF ComputeHandoffChecksum, Covered
<1>2. PICK v : v = Covered(b)
  OBVIOUS
<1>3. <<v>> # <<>>
  OBVIOUS
<1> QED BY <1>1, <1>2, <1>3

LEMMA MapAdded ==
    ASSUME NEW b, HandedOver(b, Items), NEW m, SoundMap(m), NEW d, d = WithMap(b, m)
    PROVE  HandedOver(d, Items) /\ ("map" \in d.Flags => d.MemoryMap = m)
<1>1. CASE "map" \notin want
  BY <1>1 DEF WithMap, HandedOver, Items
<1>2. CASE "map" \in want
  <2>1. d = [b EXCEPT !.MemoryMap = m, !.Flags = @ \cup {"map"}]
    BY <1>2 DEF WithMap
  <2>2. Shaped(b)
    BY DEF HandedOver
  <2>3. d.MemoryMap = m /\ d.Flags = b.Flags \cup {"map"} /\ Carries(b, d, {"MemoryMap", "Flags"})
    BY <2>1, <2>2 DEF Shaped, InfoFields, Carries
  <2>4. /\ Shaped(d) /\ d.Signature = b.Signature /\ d.Version = b.Version /\ d.Size = b.Size
        /\ d.Framebuffer = b.Framebuffer /\ d.Rsdp = b.Rsdp /\ d.UefiRevision = b.UefiRevision
        /\ d.Tables = b.Tables /\ d.KernelBase = b.KernelBase /\ d.KernelSize = b.KernelSize
        /\ d.VirtualBase = b.VirtualBase /\ d.VirtualSize = b.VirtualSize
        /\ d.EntryPhysical = b.EntryPhysical /\ d.EntryVirtual = b.EntryVirtual /\ d.Font = b.Font
        /\ d.Nvram = b.Nvram /\ d.Runtime = b.Runtime /\ d.Config = b.Config
    BY <2>3 DEF Carries, InfoFields
  <2>5. \A x : x # "map" => (x \in d.Flags <=> x \in b.Flags)
    BY <2>3
  <2>6. AbiIsCompatible(d) /\ d.Flags \cap Items \subseteq Items \cap want
    BY <1>2, <2>3, <2>4 DEF HandedOver, AbiIsCompatible, KnownFlags, Items
  <2>7. "range" \in want => ValidKernelRange(d) /\ ValidKernelVirtualLayout(d)
    BY <2>4, <2>5 DEF HandedOver, ValidKernelRange, ValidKernelVirtualLayout
  <2>8. ValidFramebuffer(d) /\ ValidPlatformTables(d)
    BY <2>4, <2>5 DEF HandedOver, ValidFramebuffer, ValidPlatformTables
  <2>9. ValidNvramSnapshot(d) /\ ValidRuntimeServices(d) /\ ValidBootConfiguration(d)
    BY <2>4, <2>5 DEF HandedOver, ValidNvramSnapshot, ValidRuntimeServices, ValidBootConfiguration
  <2>10. "rsdp" \in d.Flags => d.Rsdp # 0 /\ BestRsdp(d)
    BY <2>4, <2>5 DEF HandedOver, BestRsdp
  <2>11. m \in Seq(Regions) /\ m # <<>>
    BY DEF SoundMap
  <2>12. Appendable(d)
    BY <2>3, <2>4, <2>5, <2>11 DEF HandedOver, Appendable
  <2>13. /\ d.Size \in Nat /\ d.Rsdp \in Nat /\ d.MemoryMap \in Seq(Regions)
         /\ ("firmware" \in d.Flags => d.UefiRevision # 0)
    BY <2>3, <2>4, <2>5, <2>11 DEF HandedOver
  <2> QED BY <2>3, <2>4, <2>6, <2>7, <2>8, <2>9, <2>10, <2>12, <2>13 DEF HandedOver
<1> QED BY <1>1, <1>2

LEMMA SealVerifies ==
    ASSUME NEW b, HandedOver(b, Items), NEW d, d = Sealed(b)
    PROVE  /\ HandedOver(d, Items) /\ VerifyHandoffChecksum(d)
           /\ d.Flags = b.Flags /\ d.MemoryMap = b.MemoryMap
<1>1. Shaped(b) /\ AbiIsCompatible(b) /\ Appendable(b)
  BY DEF HandedOver
<1>2. PICK h : h = ComputeHandoffChecksum(b)
  OBVIOUS
<1>3. h = <<Covered(b)>> /\ h # <<>>
  BY <1>1, <1>2, ChecksumIs
<1>4. d = [b EXCEPT !.HandoffChecksum = h]
  BY <1>2 DEF Sealed
<1>5. d.HandoffChecksum = h /\ Carries(b, d, {"HandoffChecksum"})
  BY <1>1, <1>4 DEF Shaped, InfoFields, Carries
<1>6. /\ Shaped(d) /\ d.Signature = b.Signature /\ d.Version = b.Version /\ d.Size = b.Size
      /\ d.Framebuffer = b.Framebuffer /\ d.Rsdp = b.Rsdp /\ d.UefiRevision = b.UefiRevision
      /\ d.Tables = b.Tables /\ d.KernelBase = b.KernelBase /\ d.KernelSize = b.KernelSize
      /\ d.VirtualBase = b.VirtualBase /\ d.VirtualSize = b.VirtualSize
      /\ d.EntryPhysical = b.EntryPhysical /\ d.EntryVirtual = b.EntryVirtual /\ d.Font = b.Font
      /\ d.Nvram = b.Nvram /\ d.Runtime = b.Runtime /\ d.Config = b.Config
      /\ d.Flags = b.Flags /\ d.MemoryMap = b.MemoryMap
  BY <1>5 DEF Carries, InfoFields
<1>7. AbiIsCompatible(d) /\ Appendable(d)
  BY <1>1, <1>6 DEF AbiIsCompatible, Appendable
<1>8. "range" \in want => ValidKernelRange(d) /\ ValidKernelVirtualLayout(d)
  BY <1>6 DEF HandedOver, ValidKernelRange, ValidKernelVirtualLayout
<1>9. ValidFramebuffer(d) /\ ValidPlatformTables(d)
  BY <1>6 DEF HandedOver, ValidFramebuffer, ValidPlatformTables
<1>10. ValidNvramSnapshot(d) /\ ValidRuntimeServices(d) /\ ValidBootConfiguration(d)
  BY <1>6 DEF HandedOver, ValidNvramSnapshot, ValidRuntimeServices, ValidBootConfiguration
<1>11. /\ ("rsdp" \in d.Flags => d.Rsdp # 0 /\ BestRsdp(d))
       /\ d.Size \in Nat /\ d.Rsdp \in Nat /\ d.MemoryMap \in Seq(Regions)
       /\ ("firmware" \in d.Flags => d.UefiRevision # 0) /\ d.Flags \cap Items \subseteq Items \cap want
  BY <1>6 DEF HandedOver, BestRsdp
<1>12. HandedOver(d, Items)
  BY <1>6, <1>7, <1>8, <1>9, <1>10, <1>11 DEF HandedOver
<1>13. Covered(d) = Covered(b)
  <2>1. PICK u, v : u = Covered(d) /\ v = Covered(b)
    OBVIOUS
  <2>2. /\ Carries(d, u, {"HandoffChecksum", "MemoryMap", "Font"}) /\ u.HandoffChecksum = <<>>
        /\ u.MemoryMap = (IF "map" \in d.Flags THEN d.MemoryMap ELSE <<>>)
        /\ u.Font = (IF "font" \in d.Flags THEN d.Font ELSE 0)
    BY <1>6, <2>1, CoveredIs
  <2>3. /\ Carries(b, v, {"HandoffChecksum", "MemoryMap", "Font"}) /\ v.HandoffChecksum = <<>>
        /\ v.MemoryMap = (IF "map" \in b.Flags THEN b.MemoryMap ELSE <<>>)
        /\ v.Font = (IF "font" \in b.Flags THEN b.Font ELSE 0)
    BY <1>1, <2>1, CoveredIs
  <2>4. Shaped(u) /\ Shaped(v)
    BY <2>2, <2>3 DEF Carries
  <2>5. u.HandoffChecksum = v.HandoffChecksum /\ u.MemoryMap = v.MemoryMap /\ u.Font = v.Font
    BY <1>6, <2>2, <2>3
  <2>6. ASSUME NEW g \in InfoFields PROVE u[g] = v[g]
    <3>1. CASE g \in {"HandoffChecksum", "MemoryMap", "Font"}
      BY <2>5, <3>1
    <3>2. CASE g \notin {"HandoffChecksum", "MemoryMap", "Font"}
      <4>1. u[g] = d[g] /\ v[g] = b[g]
        BY <2>2, <2>3, <3>2 DEF Carries
      <4>2. d[g] = b[g]
        BY <1>5, <3>2 DEF Carries
      <4> QED BY <4>1, <4>2
    <3> QED BY <3>1, <3>2
  <2> QED BY <2>1, <2>4, <2>6, SameRecord
<1>14. ComputeHandoffChecksum(d) = <<Covered(d)>>
  BY <1>7, ChecksumIs
<1> QED BY <1>3, <1>5, <1>6, <1>12, <1>13, <1>14 DEF VerifyHandoffChecksum

\* Whatever changes in a sealed record, it does not verify any more.
LEMMA DamageShows ==
    ASSUME NEW b, HandedOver(b, Items), VerifyHandoffChecksum(b), NEW d \in Damaged(b)
    PROVE  /\ d.Flags \subseteq KnownFlags
           /\ ~AbiIsCompatible(d) \/ ~VerifyHandoffChecksum(d)
<1>1. Shaped(b) /\ AbiIsCompatible(b) /\ Appendable(b) /\ b.Size \in Nat /\ b.Rsdp \in Nat
  BY DEF HandedOver
<1>2. b.HandoffChecksum = <<Covered(b)>> /\ b.HandoffChecksum # <<>>
  BY <1>1, ChecksumIs DEF VerifyHandoffChecksum
<1>3. ASSUME NEW S, Carries(b, d, S), "HandoffChecksum" \notin S, AbiIsCompatible(d), VerifyHandoffChecksum(d)
      PROVE  /\ \A g \in InfoFields \ {"HandoffChecksum", "MemoryMap", "Font"} : d[g] = b[g]
             /\ "map" \in b.Flags => d.MemoryMap = b.MemoryMap
  <2>1. d.HandoffChecksum = b.HandoffChecksum /\ Shaped(d)
    BY <1>3 DEF Carries, InfoFields
  <2>2. ComputeHandoffChecksum(d) = d.HandoffChecksum /\ d.HandoffChecksum # <<>>
    BY <1>3 DEF VerifyHandoffChecksum
  <2>3. Appendable(d)
    BY <2>2 DEF ComputeHandoffChecksum
  <2>4. ComputeHandoffChecksum(d) = <<Covered(d)>>
    BY <1>3, <2>3, ChecksumIs
  <2>5. PICK u, v : u = Covered(d) /\ v = Covered(b)
    OBVIOUS
  <2>6. <<u>> = <<v>>
    BY <1>2, <2>1, <2>2, <2>4, <2>5
  <2>7. u = v
    BY <2>6
  <2>8. /\ Carries(d, u, {"HandoffChecksum", "MemoryMap", "Font"})
        /\ u.MemoryMap = (IF "map" \in d.Flags THEN d.MemoryMap ELSE <<>>)
    BY <2>1, <2>5, CoveredIs
  <2>9. /\ Carries(b, v, {"HandoffChecksum", "MemoryMap", "Font"})
        /\ v.MemoryMap = (IF "map" \in b.Flags THEN b.MemoryMap ELSE <<>>)
    BY <1>1, <2>5, CoveredIs
  <2>10. \A g \in InfoFields \ {"HandoffChecksum", "MemoryMap", "Font"} : d[g] = b[g]
    BY <2>7, <2>8, <2>9 DEF Carries
  <2>11. d.Flags = b.Flags
    BY <2>10 DEF InfoFields
  <2> QED BY <2>7, <2>8, <2>9, <2>10, <2>11
<1>4. b.Flags \subseteq KnownFlags /\ b.Version = AbiVersion /\ b.Version \in Nat
  BY <1>1 DEF AbiIsCompatible, AbiVersion
<1>5. CASE d = [b EXCEPT !.Size = @ + 1]
  <2>1. d.Size = b.Size + 1 /\ Carries(b, d, {"Size"}) /\ d.Flags = b.Flags
    BY <1>1, <1>5 DEF Shaped, InfoFields, Carries
  <2>2. d.Size # b.Size
    BY <1>1, <2>1
  <2> QED BY <1>3, <1>4, <2>1, <2>2 DEF InfoFields
<1>6. CASE d = [b EXCEPT !.Rsdp = @ + 1]
  <2>1. d.Rsdp = b.Rsdp + 1 /\ Carries(b, d, {"Rsdp"}) /\ d.Flags = b.Flags
    BY <1>1, <1>6 DEF Shaped, InfoFields, Carries
  <2>2. d.Rsdp # b.Rsdp
    BY <1>1, <2>1
  <2> QED BY <1>3, <1>4, <2>1, <2>2 DEF InfoFields
<1>7. CASE d = [b EXCEPT !.Version = @ + 1]
  <2>1. d.Version = b.Version + 1 /\ Carries(b, d, {"Version"}) /\ d.Flags = b.Flags
    BY <1>1, <1>7 DEF Shaped, InfoFields, Carries
  <2>2. d.Version # b.Version
    BY <1>4, <2>1
  <2> QED BY <1>3, <1>4, <2>1, <2>2 DEF InfoFields
<1>8. CASE d = [b EXCEPT !.Flags = KnownFlags \ @]
  <2>1. d.Flags = KnownFlags \ b.Flags /\ Carries(b, d, {"Flags"})
    BY <1>1, <1>8 DEF Shaped, InfoFields, Carries
  <2>2. d.Flags # b.Flags
    BY <2>1 DEF KnownFlags
  <2> QED BY <1>3, <2>1, <2>2 DEF InfoFields
<1>9. CASE d = [b EXCEPT !.HandoffChecksum = <<>>]
  <2>1. d.HandoffChecksum = <<>> /\ d.Flags = b.Flags
    BY <1>1, <1>9 DEF Shaped, InfoFields
  <2> QED BY <1>4, <2>1 DEF VerifyHandoffChecksum
<1>10. ASSUME "map" \in b.Flags, Carries(b, d, {"MemoryMap"}), d # b
       PROVE  d.Flags \subseteq KnownFlags /\ (~AbiIsCompatible(d) \/ ~VerifyHandoffChecksum(d))
  <2>1. d.Flags = b.Flags /\ Shaped(d)
    BY <1>10 DEF Carries, InfoFields
  <2>2. ASSUME AbiIsCompatible(d), VerifyHandoffChecksum(d) PROVE FALSE
    <3>1. d.MemoryMap = b.MemoryMap
      BY <1>3, <1>10, <2>2
    <3>2. \A g \in InfoFields : d[g] = b[g]
      BY <1>10, <3>1 DEF Carries
    <3> QED BY <1>1, <1>10, <2>1, <3>2, SameRecord
  <2> QED BY <1>4, <2>1, <2>2
<1>11. CASE "map" \in b.Flags /\ d = [b EXCEPT !.MemoryMap[1].type = "runtime"]
  <2>1. Carries(b, d, {"MemoryMap"})
    BY <1>1, <1>11 DEF Shaped, InfoFields, Carries
  <2>2. d # b
    BY DEF Damaged
  <2> QED BY <1>10, <1>11, <2>1, <2>2
<1>12. CASE "map" \in b.Flags /\ d = [b EXCEPT !.MemoryMap = Tail(@)]
  <2>1. Carries(b, d, {"MemoryMap"})
    BY <1>1, <1>12 DEF Shaped, InfoFields, Carries
  <2>2. d # b
    BY DEF Damaged
  <2> QED BY <1>10, <1>12, <2>1, <2>2
<1> QED BY <1>5, <1>6, <1>7, <1>8, <1>9, <1>11, <1>12 DEF Damaged

-----------------------------------------------------------------------------
(* The invariant holds in every reachable state.                           *)

LEMMA ImageKept ==
    ASSUME ImageLoaded, UNCHANGED <<image, memory, layout, tables>>,
           lstage' \in Loaded => lstage \in Loaded, lstage' \in TablesBuilt => lstage \in TablesBuilt
    PROVE  ImageLoaded'
BY DEF ImageLoaded

LEMMA OfferedNext ==
    ASSUME UNCHANGED want, NEW F, HandedOver(info', F)
    PROVE  HandedOver(info, F)'
BY DEF HandedOver

LEMMA StagesAre ==
    /\ Loaded = {"loaded", "info", "paged", "sized", "got", "exited", "kernel", "validated"}
    /\ FilledIn = {"info", "paged", "sized", "got", "exited", "kernel", "validated"}
    /\ TablesBuilt = {"paged", "sized", "got", "exited", "kernel", "validated"}
    /\ SealedIn = {"got", "exited", "kernel", "validated"}
BY DEF Loaded, FilledIn, TablesBuilt, SealedIn

\* Initially nothing is loaded and the record is clear.
LEMMA LoaderStarts ==
    ASSUME LoaderConstants, LoaderInit
    PROVE  LoaderInv
<1>1. lstage = "start" /\ fwmap = FirmwareMap /\ info = EmptyInfo /\ ~corrupted
  BY DEF LoaderInit
<1>2. SoundMap(fwmap)
  <2>1. PICK m \in Seq([type : MemoryTypes, start : Nat, pages : Nat \ {0}]) : m = FirmwareMap /\ m # <<>>
    BY DEF LoaderConstants
  <2>2. \A i \in 1 .. Len(m) : m[i] \in Regions
    BY <2>1, LenProperties DEF LoaderConstants, Regions
  <2>3. m \in Seq(Regions)
    <3>1. Len(m) \in Nat /\ m = [i \in 1 .. Len(m) |-> m[i]]
      BY <2>1, LenProperties
    <3> QED BY <2>2, <3>1, IsASeq
  <2> QED BY <1>1, <2>1, <2>3 DEF SoundMap
<1>3. LoaderTypes
  <2>1. memory \in [0 .. Cells - 1 -> Int]
    BY DEF LoaderInit
  <2>2. 0 \in 0 .. MaxAttempts /\ 0 \in 0 .. MaxGrowth
    BY DEF LoaderConstants
  <2> QED BY <1>1, <1>2, <2>1, <2>2 DEF LoaderTypes, LoaderInit
<1>4. ImageLoaded
  BY <1>1, StagesAre DEF ImageLoaded
<1>5. Shaped(info) /\ info.Font = 0 /\ info.Flags = {}
  BY <1>1 DEF EmptyInfo, Shaped, InfoFields
<1>6. RecordSound
  BY <1>1, <1>5, StagesAre DEF RecordSound
<1> QED BY <1>3, <1>4, <1>6 DEF LoaderInv

LEMMA InvReturnToFirmware ==
    ASSUME LoaderInv, ReturnToFirmware
    PROVE  LoaderInv'
<1>1. LoaderTypes'
  BY DEF LoaderInv, LoaderTypes, ReturnToFirmware
<1>2. ImageLoaded'
  BY StagesAre, ImageKept DEF LoaderInv, ReturnToFirmware
<1>3. RecordSound'
  <2>1. ~corrupted
    BY DEF LoaderInv, RecordSound, ReturnToFirmware
  <2> QED BY <2>1, StagesAre DEF LoaderInv, RecordSound, ReturnToFirmware
<1> QED BY <1>1, <1>2, <1>3 DEF LoaderInv

LEMMA PageTaken ==
    ASSUME LoaderConstants, NEW m, SoundMap(m), Roomy(m, 1) # {}
    PROVE  SoundMap(AllocatePage(m, "loader")) /\ SoundMap(AllocatePage(m, "bootservices"))
<1>1. /\ "loader" \in MemoryTypes /\ "loader" # "conventional"
      /\ "bootservices" \in MemoryTypes /\ "bootservices" # "conventional"
  BY DEF MemoryTypes
<1> QED BY <1>1, PageAllocated

LEMMA InvReadFiles ==
    ASSUME LoaderConstants, LoaderInv, ReadFiles
    PROVE  LoaderInv'
<1>1. SoundMap(fwmap')
  BY PageTaken DEF LoaderInv, LoaderTypes, ReadFiles
<1>2. LoaderTypes'
  BY <1>1 DEF LoaderInv, LoaderTypes, ReadFiles
<1>3. ImageLoaded'
  BY StagesAre, ImageKept DEF LoaderInv, ReadFiles
<1>4. PICK font \in {0, 1} : info' = [info EXCEPT !.Font = font]
  BY DEF ReadFiles
<1>5. Shaped(info) /\ info.Flags \subseteq KnownFlags /\ ~corrupted
  BY StagesAre DEF LoaderInv, RecordSound, ReadFiles
<1>6. Shaped(info') /\ info'.Flags = info.Flags /\ info'.Font = font
  BY <1>4, <1>5 DEF Shaped, InfoFields
<1>7. RecordSound'
  BY <1>5, <1>6, StagesAre DEF RecordSound, ReadFiles
<1> QED BY <1>2, <1>3, <1>7 DEF LoaderInv

LEMMA InvLoadElfSegments ==
    ASSUME LoaderConstants, LoaderInv, LoadElfSegments
    PROVE  LoaderInv'
<1>1. LoaderTypes /\ RecordSound /\ lstage = "read" /\ lstage' = "loaded"
  BY DEF LoaderInv, LoadElfSegments
<1>2. UNCHANGED <<want, firmware, image, info, tables, storage, stale, attempt, growth, corrupted, accepted>>
  BY DEF LoadElfSegments
<1>3. /\ SoundMap(fwmap') /\ memory' \in [0 .. Cells - 1 -> Int] /\ Loadable(image)
      /\ \E page \in Nat \ {0} : /\ layout' = Relocated(FindElfLayout(image), page * PageSize)
                                 /\ InPlace(memory', image, page * PageSize)
  BY <1>1, ImageLoads
<1>4. LoaderTypes'
  BY <1>1, <1>2, <1>3, StagesAre DEF LoaderTypes
<1>5. ImageLoaded'
  BY <1>1, <1>2, <1>3, StagesAre DEF ImageLoaded
<1>6. RecordSound'
  BY <1>1, <1>2, StagesAre DEF RecordSound
<1> QED BY <1>4, <1>5, <1>6 DEF LoaderInv

LEMMA InvAllocateBootInfo ==
    ASSUME LoaderConstants, LoaderInv, AllocateBootInfo
    PROVE  LoaderInv'
<1>1. LoaderTypes /\ ImageLoaded /\ RecordSound /\ lstage = "loaded" /\ lstage' = "info"
  BY DEF LoaderInv, AllocateBootInfo
<1>2. UNCHANGED <<want, firmware, image, memory, layout, tables, storage, stale, attempt, growth, corrupted, accepted>>
  BY DEF AllocateBootInfo
<1>3. SoundMap(fwmap')
  BY <1>1, PageTaken DEF LoaderTypes, AllocateBootInfo
<1>4. LoaderTypes'
  BY <1>1, <1>2, <1>3, StagesAre DEF LoaderTypes
<1>5. ImageLoaded'
  BY <1>1, <1>2, StagesAre, ImageKept
<1>6. Described(layout)
  <2>1. /\ Loadable(image) /\ image \in Images
        /\ \E page \in Nat \ {0} : layout = Relocated(FindElfLayout(image), page * PageSize)
    BY <1>1, StagesAre DEF ImageLoaded, LoaderTypes
  <2> QED BY <2>1, LoadedIsDescribed
<1>7. info.Font \in {0, 1} /\ ~corrupted
  BY <1>1, StagesAre DEF RecordSound
<1>8. HandedOver(info', Items)
  <2>1. firmware \in Firmwares /\ want \in Selections
    BY <1>1 DEF LoaderTypes
  <2>2. info' = CaptureFramebuffer(OrynCaptureRuntimeServices(
                   OrynCaptureNvramSnapshot(OrynCapturePlatformTables(
                       CaptureFirmwareData(FillBaseBootInfo(layout, info.Font))))))
    BY DEF AllocateBootInfo
  <2>3. PICK font \in {0, 1} : font = info.Font
    BY <1>7
  <2>6. PICK d : d = info'
    OBVIOUS
  <2>4. d = CaptureFramebuffer(OrynCaptureRuntimeServices(
                   OrynCaptureNvramSnapshot(OrynCapturePlatformTables(
                       CaptureFirmwareData(FillBaseBootInfo(layout, font))))))
    BY <2>2, <2>3, <2>6
  <2>5. HandedOver(d, Items)
    BY <1>6, <2>1, <2>4, RecordFilled
  <2> QED BY <2>5, <2>6
<1>9. HandedOver(info, Items)' /\ info'.Flags \subseteq KnownFlags
  <2>1. UNCHANGED want
    BY <1>2
  <2>2. info'.Flags \subseteq KnownFlags
    BY <1>8 DEF HandedOver, AbiIsCompatible
  <2> QED BY <1>8, <2>1, <2>2, OfferedNext
<1>10. RecordSound'
  BY <1>1, <1>2, <1>7, <1>9, StagesAre DEF RecordSound
<1> QED BY <1>4, <1>5, <1>10 DEF LoaderInv

LEMMA RecordKept ==
    ASSUME RecordSound, UNCHANGED <<want, info, corrupted, stale, fwmap>>, ~corrupted,
           lstage' \in FilledIn, lstage \in FilledIn, lstage' # "validated",
           lstage' \in SealedIn => lstage \in SealedIn /\ (lstage = "got" => ~stale)
    PROVE  RecordSound'
<1>1. HandedOver(info, Items)
  BY DEF RecordSound
<1>2. info' = info
  OBVIOUS
<1>3. HandedOver(info, Items)'
  BY <1>1, <1>2, OfferedNext
<1>4. lstage' \notin {"start", "read", "loaded"}
  BY StagesAre
<1>5. lstage' \in SealedIn => VerifyHandoffChecksum(info)
  BY DEF RecordSound
<1>6. lstage' \in SealedIn /\ "map" \in info.Flags => info.MemoryMap = fwmap
  BY DEF RecordSound
<1> QED BY <1>3, <1>4, <1>5, <1>6 DEF RecordSound

LEMMA InvPrepareTables ==
    ASSUME LoaderConstants, LoaderInv, PrepareKernelVirtualAddressSpace
    PROVE  LoaderInv'
<1>1. LoaderTypes /\ ImageLoaded /\ RecordSound /\ lstage = "info" /\ lstage' = "paged"
  BY DEF LoaderInv, PrepareKernelVirtualAddressSpace
<1>2. UNCHANGED <<want, firmware, image, memory, layout, info, storage, stale, attempt, growth, corrupted, accepted>>
  BY DEF PrepareKernelVirtualAddressSpace
<1>3. SoundMap(fwmap')
  BY <1>1, PageTaken DEF LoaderTypes, PrepareKernelVirtualAddressSpace
<1>4. LoaderTypes'
  BY <1>1, <1>2, <1>3, StagesAre DEF LoaderTypes
<1>5. ImageLoaded'
  <2>1. tables' = PrepareTables(layout)
    BY DEF PrepareKernelVirtualAddressSpace
  <2> QED BY <1>1, <1>2, <2>1, StagesAre DEF ImageLoaded
<1>6. HandedOver(info, Items) /\ info' = info /\ ~corrupted
  BY <1>1, <1>2, StagesAre DEF RecordSound
<1>7. HandedOver(info, Items)'
  BY <1>2, <1>6, OfferedNext
<1>8. RecordSound'
  BY <1>1, <1>2, <1>6, <1>7, StagesAre DEF RecordSound
<1> QED BY <1>4, <1>5, <1>8 DEF LoaderInv

LEMMA InvAllocateMemoryMapStorage ==
    ASSUME LoaderConstants, LoaderInv, AllocateMemoryMapStorage
    PROVE  LoaderInv'
<1>1. LoaderTypes /\ ImageLoaded /\ RecordSound /\ lstage = "paged" /\ lstage' = "sized"
  BY DEF LoaderInv, AllocateMemoryMapStorage
<1>2. UNCHANGED <<want, firmware, image, memory, layout, info, tables, stale, attempt, growth, corrupted, accepted>>
  BY DEF AllocateMemoryMapStorage
<1>3. SoundMap(fwmap')
  <2>1. PICK m : m = AllocatePage(fwmap, "loader") /\ Roomy(m, 1) # {} /\ fwmap' = AllocatePage(m, "loader")
    BY DEF AllocateMemoryMapStorage
  <2>2. SoundMap(fwmap) /\ Roomy(fwmap, 1) # {}
    BY <1>1 DEF LoaderTypes, AllocateMemoryMapStorage
  <2>3. SoundMap(m)
    BY <2>1, <2>2, PageTaken
  <2> QED BY <2>1, <2>3, PageTaken
<1>4. 0 < MaxAttempts
  BY DEF LoaderConstants
<1>5. LoaderTypes'
  BY <1>1, <1>2, <1>3, <1>4, StagesAre DEF LoaderTypes
<1>6. ImageLoaded'
  BY <1>1, <1>2, StagesAre, ImageKept
<1>7. HandedOver(info, Items) /\ info' = info /\ ~corrupted
  BY <1>1, <1>2, StagesAre DEF RecordSound
<1>8. HandedOver(info, Items)'
  BY <1>2, <1>7, OfferedNext
<1>9. RecordSound'
  BY <1>1, <1>2, <1>7, <1>8, StagesAre DEF RecordSound
<1> QED BY <1>5, <1>6, <1>9 DEF LoaderInv

LEMMA InvTakeMemoryMap ==
    ASSUME LoaderConstants, LoaderInv, TakeMemoryMap
    PROVE  LoaderInv'
<1>1. LoaderTypes /\ ImageLoaded /\ RecordSound /\ lstage = "sized" /\ stale' = FALSE
  BY DEF LoaderInv, TakeMemoryMap
<1>2. UNCHANGED <<want, firmware, image, fwmap, memory, layout, tables, storage, attempt, growth, corrupted, accepted>>
  BY DEF TakeMemoryMap
<1>3. lstage' \in {"got", "returned"} /\ info' = Sealed(WithMap(info, fwmap))
  BY DEF TakeMemoryMap
<1>4. LoaderTypes'
  BY <1>1, <1>2, <1>3, StagesAre DEF LoaderTypes
<1>5. ImageLoaded'
  BY <1>1, <1>2, <1>3, StagesAre, ImageKept
<1>6. HandedOver(info, Items) /\ ~corrupted /\ SoundMap(fwmap)
  BY <1>1, StagesAre DEF RecordSound, LoaderTypes
<1>7. /\ HandedOver(info', Items) /\ VerifyHandoffChecksum(info')
      /\ "map" \in info'.Flags => info'.MemoryMap = fwmap
  <2>1. PICK b : b = WithMap(info, fwmap)
    OBVIOUS
  <2>2. HandedOver(b, Items) /\ ("map" \in b.Flags => b.MemoryMap = fwmap)
    BY <1>6, <2>1, MapAdded
  <2>3. PICK d : d = Sealed(b)
    OBVIOUS
  <2>4. HandedOver(d, Items) /\ VerifyHandoffChecksum(d) /\ d.Flags = b.Flags /\ d.MemoryMap = b.MemoryMap
    BY <2>2, <2>3, SealVerifies
  <2>5. info' = d
    BY <1>3, <2>1, <2>3
  <2> QED BY <2>2, <2>4, <2>5
<1>8. HandedOver(info, Items)' /\ info'.Flags \subseteq KnownFlags
  <2>1. UNCHANGED want
    BY <1>2
  <2>2. info'.Flags \subseteq KnownFlags
    BY <1>7 DEF HandedOver, AbiIsCompatible
  <2> QED BY <1>7, <2>1, <2>2, OfferedNext
<1>9. RecordSound'
  BY <1>1, <1>2, <1>3, <1>6, <1>7, <1>8, StagesAre DEF RecordSound
<1> QED BY <1>4, <1>5, <1>9 DEF LoaderInv

LEMMA InvExitBootServices ==
    ASSUME LoaderConstants, LoaderInv, ExitBootServices
    PROVE  LoaderInv'
<1>1. LoaderTypes /\ ImageLoaded /\ RecordSound /\ lstage = "got" /\ attempt' = attempt + 1
  BY DEF LoaderInv, ExitBootServices
<1>2. UNCHANGED <<want, firmware, image, fwmap, memory, layout, info, tables, storage, stale, growth, corrupted, accepted>>
  BY DEF ExitBootServices
<1>3. /\ lstage' \in {"exited", "sized", "returned"} /\ (lstage' = "exited" => ~stale)
      /\ (lstage' = "sized" => attempt' < MaxAttempts)
  BY DEF ExitBootServices
<1>4. LoaderTypes'
  <2>1. attempt' \in 0 .. MaxAttempts
    BY <1>1 DEF LoaderTypes, LoaderConstants
  <2> QED BY <1>1, <1>2, <1>3, <2>1, StagesAre DEF LoaderTypes
<1>5. ImageLoaded'
  BY <1>1, <1>2, <1>3, StagesAre, ImageKept
<1>6. RecordSound'
  <2>1. ~corrupted
    BY <1>1 DEF RecordSound
  <2>2. CASE lstage' = "returned"
    BY <1>1, <1>2, <2>1, <2>2, StagesAre DEF RecordSound
  <2>3. CASE lstage' # "returned"
    BY <1>1, <1>2, <1>3, <2>1, <2>3, StagesAre, RecordKept
  <2> QED BY <2>2, <2>3
<1> QED BY <1>4, <1>5, <1>6 DEF LoaderInv

LEMMA InvFirmwareChangesMap ==
    ASSUME LoaderConstants, LoaderInv, FirmwareChangesMap
    PROVE  LoaderInv'
<1>1. LoaderTypes /\ ImageLoaded /\ RecordSound /\ lstage = "got" /\ stale'
  BY DEF LoaderInv, FirmwareChangesMap
<1>2. UNCHANGED <<lstage, want, firmware, image, memory, layout, info, tables, storage, attempt, corrupted, accepted>>
  BY DEF FirmwareChangesMap
<1>3. SoundMap(fwmap') /\ growth' \in 0 .. MaxGrowth
  <2>1. CASE growth < MaxGrowth /\ Roomy(fwmap, 1) # {} /\ fwmap' = AllocatePage(fwmap, "bootservices") /\ growth' = growth + 1
    <3>1. SoundMap(fwmap')
      BY <1>1, <2>1, PageTaken DEF LoaderTypes
    <3>2. growth' \in 0 .. MaxGrowth
      BY <1>1, <2>1 DEF LoaderTypes, LoaderConstants
    <3> QED BY <3>1, <3>2
  <2>2. CASE UNCHANGED <<fwmap, growth>>
    BY <1>1, <2>2 DEF LoaderTypes
  <2> QED BY <2>1, <2>2 DEF FirmwareChangesMap
<1>4. LoaderTypes'
  <2>1. stale' \in BOOLEAN
    BY DEF FirmwareChangesMap
  <2> QED BY <1>1, <1>2, <1>3, <2>1 DEF LoaderTypes
<1>5. ImageLoaded'
  BY <1>1, <1>2, ImageKept
<1>6. RecordSound'
  <2>1. ~corrupted /\ HandedOver(info, Items) /\ VerifyHandoffChecksum(info) /\ info' = info
    BY <1>1, <1>2, StagesAre DEF RecordSound
  <2>2. HandedOver(info, Items)'
    BY <1>2, <2>1, OfferedNext
  <2> QED BY <1>1, <1>2, <2>1, <2>2, StagesAre DEF RecordSound
<1> QED BY <1>4, <1>5, <1>6 DEF LoaderInv

LEMMA InvJumpToKernel ==
    ASSUME LoaderConstants, LoaderInv, JumpToKernel
    PROVE  LoaderInv'
<1>1. LoaderTypes /\ ImageLoaded /\ RecordSound /\ lstage = "exited" /\ lstage' = "kernel"
  BY DEF LoaderInv, JumpToKernel
<1>2. UNCHANGED <<want, firmware, image, fwmap, memory, layout, info, tables, storage, stale, attempt, growth, corrupted, accepted>>
  BY DEF JumpToKernel
<1>3. LoaderTypes'
  BY <1>1, <1>2, StagesAre DEF LoaderTypes
<1>4. ImageLoaded'
  BY <1>1, <1>2, StagesAre, ImageKept
<1>5. RecordSound'
  <2>1. ~corrupted
    BY <1>1 DEF RecordSound
  <2> QED BY <1>1, <1>2, <2>1, StagesAre, RecordKept
<1> QED BY <1>3, <1>4, <1>5 DEF LoaderInv

LEMMA InvDamageHandoff ==
    ASSUME LoaderConstants, LoaderInv, DamageHandoff
    PROVE  LoaderInv'
<1>1. LoaderTypes /\ ImageLoaded /\ RecordSound /\ lstage = "kernel" /\ ~corrupted /\ corrupted' = TRUE
  BY DEF LoaderInv, DamageHandoff
<1>2. UNCHANGED <<lstage, want, firmware, image, fwmap, memory, layout, tables, storage, stale, attempt, growth, accepted>>
  BY DEF DamageHandoff
<1>3. LoaderTypes'
  BY <1>1, <1>2 DEF LoaderTypes
<1>4. ImageLoaded'
  BY <1>1, <1>2, ImageKept
<1>5. HandedOver(info, Items) /\ VerifyHandoffChecksum(info)
  BY <1>1, StagesAre DEF RecordSound
<1>6. PICK d \in Damaged(info) : info' = d
  BY DEF DamageHandoff
<1>7. d.Flags \subseteq KnownFlags /\ (~AbiIsCompatible(d) \/ ~VerifyHandoffChecksum(d))
  BY <1>5, DamageShows
<1>8. RecordSound'
  BY <1>1, <1>2, <1>6, <1>7, StagesAre DEF RecordSound
<1> QED BY <1>3, <1>4, <1>8 DEF LoaderInv

LEMMA InvKernelAdopts ==
    ASSUME LoaderConstants, LoaderInv, KernelAdoptsAndValidates
    PROVE  LoaderInv'
<1>1. LoaderTypes /\ ImageLoaded /\ RecordSound /\ lstage = "kernel" /\ lstage' = "validated"
  BY DEF LoaderInv, KernelAdoptsAndValidates
<1>2. UNCHANGED <<want, firmware, image, fwmap, memory, layout, info, tables, storage, stale, attempt, growth, corrupted>>
  BY DEF KernelAdoptsAndValidates
<1>3. accepted' = IF KernelBootInfoValidate(info, want) THEN "valid" ELSE "invalid"
  BY DEF KernelAdoptsAndValidates
<1>4. LoaderTypes'
  <2>1. accepted' \in {"unknown", "valid", "invalid"}
    BY <1>3
  <2> QED BY <1>1, <1>2, <2>1, StagesAre DEF LoaderTypes
<1>5. ImageLoaded'
  BY <1>1, <1>2, StagesAre, ImageKept
<1>6. RecordSound'
  <2>1. ~corrupted => HandedOver(info, Items) /\ VerifyHandoffChecksum(info)
    BY <1>1, StagesAre DEF RecordSound
  <2>2. info' = info /\ want' = want
    BY <1>2
  <2>3. ~corrupted => HandedOver(info, Items)'
    BY <2>1, <2>2, OfferedNext
  <2>4. "map" \in info.Flags /\ ~corrupted => info.MemoryMap = fwmap
    BY <1>1, StagesAre DEF RecordSound
  <2>5. corrupted => ~AbiIsCompatible(info) \/ ~VerifyHandoffChecksum(info)
    BY <1>1 DEF RecordSound
  <2>6. info.Flags \subseteq KnownFlags
    BY <1>1 DEF RecordSound
  <2>7. lstage' \notin {"start", "read", "loaded"}
    BY <1>1
  <2> QED BY <1>1, <1>2, <1>3, <2>1, <2>3, <2>4, <2>5, <2>6, <2>7 DEF RecordSound
<1> QED BY <1>4, <1>5, <1>6 DEF LoaderInv

LEMMA InvLoaderStutters ==
    ASSUME LoaderInv, UNCHANGED loaderVars
    PROVE  LoaderInv'
<1>1. LoaderTypes'
  BY DEF LoaderInv, LoaderTypes, loaderVars
<1>2. ImageLoaded'
  BY ImageKept DEF LoaderInv, loaderVars
<1>3. RecordSound'
  BY DEF LoaderInv, loaderVars, RecordSound, HandedOver
<1> QED BY <1>1, <1>2, <1>3 DEF LoaderInv

LEMMA LoaderPreserved ==
    ASSUME LoaderConstants, LoaderInv, [LoaderNext]_loaderVars
    PROVE  LoaderInv'
<1>1. CASE LoaderStep
  BY <1>1, InvReturnToFirmware, InvReadFiles, InvLoadElfSegments, InvAllocateBootInfo, InvPrepareTables,
     InvAllocateMemoryMapStorage, InvTakeMemoryMap, InvExitBootServices, InvJumpToKernel, InvKernelAdopts
     DEF LoaderStep
<1>2. CASE FirmwareChangesMap
  BY <1>2, InvFirmwareChangesMap
<1>3. CASE DamageHandoff
  BY <1>3, InvDamageHandoff
<1>4. CASE UNCHANGED loaderVars
  BY <1>4, InvLoaderStutters
<1> QED BY <1>1, <1>2, <1>3, <1>4 DEF LoaderNext

-----------------------------------------------------------------------------
(* What the invariant says.                                                *)

LEMMA UsableWasFree ==
    ASSUME LoaderConstants, LoaderInv, lstage = "validated", accepted = "valid",
           NEW i \in DOMAIN BuildMemoryMap(info), BuildMemoryMap(info)[i].type = "usable"
    PROVE  Holding(fwmap, BuildMemoryMap(info)[i].start, BuildMemoryMap(info)[i].pages) # {}
<1>1. KernelBootInfoValidate(info, want)
  BY DEF LoaderInv, RecordSound
<1>2. ~corrupted
  BY <1>1 DEF LoaderInv, RecordSound, KernelBootInfoValidate
<1>3. "map" \in info.Flags /\ info.MemoryMap # <<>>
  BY DEF BuildMemoryMap
<1>4. info.MemoryMap = fwmap
  BY <1>2, <1>3, StagesAre DEF LoaderInv, RecordSound
<1>5. PICK n \in Nat : n = Len(fwmap) /\ SoundMap(fwmap)
  BY LenProperties DEF LoaderInv, LoaderTypes, SoundMap
<1>6. PICK k \in Nat : k = (IF n > MaxMapEntries THEN MaxMapEntries ELSE n) /\ k <= n
  BY <1>5 DEF LoaderConstants
<1>7. BuildMemoryMap(info) = [j \in 1 .. k |->
          [type |-> ClassifyEntry(info, fwmap[j]), start |-> fwmap[j].start, pages |-> fwmap[j].pages]]
  BY <1>3, <1>4, <1>5, <1>6 DEF BuildMemoryMap
<1>8. i \in 1 .. k /\ i \in 1 .. n
  BY <1>5, <1>6, <1>7
<1>9. /\ BuildMemoryMap(info)[i].type = ClassifyEntry(info, fwmap[i])
      /\ BuildMemoryMap(info)[i].start = fwmap[i].start /\ BuildMemoryMap(info)[i].pages = fwmap[i].pages
  BY <1>7, <1>8
<1>10. fwmap[i].type = "conventional"
  <2>1. ClassifyUefiType(fwmap[i].type) = "usable"
    BY <1>9 DEF ClassifyEntry
  <2>2. fwmap[i].type \in MemoryTypes
    BY <1>5, <1>8 DEF SoundMap, Regions
  <2> QED BY <2>1, <2>2 DEF ClassifyUefiType, MemoryTypes
<1>11. PICK s \in Nat, p \in Nat : s = fwmap[i].start /\ p = fwmap[i].pages
  BY <1>5, <1>8 DEF SoundMap, Regions
<1>12. i \in Holding(fwmap, s, p)
  BY <1>5, <1>8, <1>10, <1>11 DEF Holding
<1> QED BY <1>9, <1>11, <1>12

LEMMA HandoffImplied ==
    ASSUME LoaderConstants, LoaderInv
    PROVE  HandoffSound
<1>1. LoaderTypeOK
  BY StagesAre DEF LoaderInv, LoaderTypes, RecordSound, LoaderTypeOK
<1>2. ImageVisible
  <2>1. SUFFICES ASSUME lstage \in {"kernel", "validated"}
                 PROVE  /\ ReadThrough(layout.EntryVirtual) = layout.EntryPhysical
                        /\ \A i \in 1 .. Len(image.segments) :
                              LET s == image.segments[i]
                              IN  \A k \in 0 .. s.memsz - 1 :
                                      memory[ReadThrough(s.vaddr + k)] = SegmentCell(s, k)
    BY DEF ImageVisible
  <2>2. /\ Loadable(image) /\ image \in Images /\ tables = PrepareTables(layout)
        /\ \E page \in Nat \ {0} : /\ layout = Relocated(FindElfLayout(image), page * PageSize)
                                   /\ InPlace(memory, image, page * PageSize)
    BY <2>1, StagesAre DEF LoaderInv, LoaderTypes, ImageLoaded
  <2> QED BY <2>2, ImageSeen
<1>3. KernelAccepts
  <2>1. SUFFICES ASSUME lstage = "validated", ~corrupted, "range" \in want
                 PROVE  accepted = "valid"
    BY DEF KernelAccepts
  <2>2. /\ HandedOver(info, Items) /\ VerifyHandoffChecksum(info)
        /\ accepted = IF KernelBootInfoValidate(info, want) THEN "valid" ELSE "invalid"
    BY <2>1, StagesAre DEF LoaderInv, RecordSound
  <2>3. KernelBootInfoValidate(info, want)
    BY <2>1, <2>2 DEF KernelBootInfoValidate, HandedOver, Appendable
  <2> QED BY <2>2, <2>3
<1>4. DamageIsCaught
  BY DEF LoaderInv, RecordSound, DamageIsCaught, KernelBootInfoValidate
<1>5. UsableIsFree
  BY UsableWasFree DEF UsableIsFree
<1>6. RsdpIsBest
  BY StagesAre DEF LoaderInv, RecordSound, RsdpIsBest, HandedOver, BestRsdp
<1> QED BY <1>1, <1>2, <1>3, <1>4, <1>5, <1>6 DEF HandoffSound

\* The kernel starts as it was built, for every kernel image, firmware and
\* selection of items: HandoffSound (BootX64.c, BootX64Handoff.c,
\* KernelBootInfoValidate.c).
THEOREM HandoffAlwaysSound ==
    ASSUME LoaderConstants
    PROVE  LoaderSpec => []HandoffSound
<1>1. LoaderInit => LoaderInv
  BY LoaderStarts
<1>2. LoaderInv /\ [LoaderNext]_loaderVars => LoaderInv'
  BY LoaderPreserved
<1>3. LoaderInv => HandoffSound
  BY HandoffImplied
<1> QED BY <1>1, <1>2, <1>3, PTL DEF LoaderSpec

=============================================================================
