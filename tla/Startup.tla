------------------------------ MODULE Startup -------------------------------
(***************************************************************************)
(* The kernel's start: the module manifest, the start plan that decides    *)
(* per module, the lifecycle state machine and the panic path              *)
(* (KernelModuleManifest*.c, KernelModuleStartPlan.c, KernelLifecycle.c,   *)
(* KernelPanic.c, KernelRuntimeStartup.c, KernelRuntimeEnter.c).           *)
(*                                                                         *)
(* KernelStart walks the modules in identifier order. KernelMain, the      *)
(* project's own code, may then enter the SDK runtime, validate the        *)
(* BootInfo record, request lifecycle transitions and stop the modules. A  *)
(* CPU exception may come at any of the points ExceptionAt, also while     *)
(* the panic path of an earlier one is running.                            *)
(***************************************************************************)
EXTENDS Integers, Sequences, FiniteSets

CONSTANTS
    Manifest,       \* the module table: a sequence of Item records
    Profiles,       \* VM profiles: sets of the Vm* selection tokens
    FlagSets,       \* BootInfo flags: sets of the BootInfo* tokens
    Builds,         \* sets of modules selected in the build
    Rootless,       \* modules whose link root is missing
    Requests,       \* lifecycle states KernelMain may ask for
    ExceptionAt,    \* bound: modules at which an exception may come in a loop
    MaxExceptions,  \* bound: exceptions in one boot
    MaxRequests     \* bound: lifecycle requests of KernelMain

VARIABLES phase, cursor, mstate, profile, bootFlags, build, startup,
          lifecycle, panic, requests, verified

startupVars == <<phase, cursor, mstate, profile, bootFlags, build, startup,
                 lifecycle, panic, requests, verified>>

Ids == 1 .. Len(Manifest)

States == {"absent", "registered", "selected", "starting", "ready", "stopping",
           "stopped", "panic", "shutting-down", "shutdown", "skipped", "failed"}

\* Lifecycle states in their order; Panic stands outside it.
LifecycleOrder ==
    <<"Cold", "Entered", "BootInfoAdopted", "DescriptorsReady",
      "InterruptsReady", "TimersReady", "ConsoleReady", "MemoryReady",
      "VirtualMemoryReady", "Running", "DebugExitRequested",
      "InteractiveHalt", "Halting", "Halted">>

Rank(s) == CHOOSE i \in 1 .. Len(LifecycleOrder) : LifecycleOrder[i] = s

ColdLifecycle == [state |-> "Cold", seen |-> {}, transitions |-> 0, invalid |-> 0]

NoPanic == [active |-> FALSE, sequence |-> 0, cause |-> 0, exceptions |-> 0,
            lifecycle |-> "Cold", written |-> FALSE, halted |-> FALSE]

NoStartup == [started |-> 0, skipped |-> 0, failed |-> 0, missing |-> 0]

Registered(B) == [i \in Ids |-> IF i \in B THEN "registered" ELSE "absent"]

StartupInit ==
    /\ phase = "starting" /\ cursor = 1
    /\ profile \in Profiles /\ bootFlags \in FlagSets /\ build \in Builds
    /\ mstate = Registered(build)
    /\ startup = NoStartup /\ lifecycle = ColdLifecycle /\ panic = NoPanic
    /\ requests = 0 /\ verified = FALSE

-----------------------------------------------------------------------------

\* OrynKernelModuleManifestCanStart.
CanStart(i) == \A r \in Manifest[i].requires : mstate[r] = "ready"

\* ModuleInputSelected: every token of the manifest must be offered.
InputSelected(i) == Manifest[i].selects \subseteq profile \cup bootFlags

\* OrynKernelModuleStartPlanDecide: what becomes of module i.
Decide(i) ==
    IF ~InputSelected(i)
    THEN [state |-> "skipped", start |-> FALSE, failure |-> Manifest[i].required]
    ELSE IF ~CanStart(i)
    THEN [state |-> IF Manifest[i].fatal THEN "failed" ELSE "skipped",
          start |-> FALSE, failure |-> Manifest[i].fatal]
    ELSE [state |-> "starting", start |-> TRUE, failure |-> FALSE]

\* The counters of OrynKernelRuntimeStartup after a decision.
Counted(s, d, runs) ==
    [started |-> s.started + (IF runs THEN 1 ELSE 0),
     skipped |-> s.skipped + (IF ~d.start /\ ~d.failure THEN 1 ELSE 0),
     failed |-> s.failed + (IF d.failure \/ (d.start /\ ~runs) THEN 1 ELSE 0),
     missing |-> s.missing + (IF d.start /\ ~runs THEN 1 ELSE 0)]

\* StartCompiledModule, one turn of OrynKernelRuntimeStartSelectedModules. A
\* module outside the build is passed over.
StartCompiledModule ==
    /\ phase = "starting" /\ cursor <= Len(Manifest)
    /\ LET d == Decide(cursor)
           Runs == d.start /\ cursor \notin Rootless
       IN  IF cursor \notin build THEN UNCHANGED <<mstate, startup>>
           ELSE /\ mstate' = [mstate EXCEPT ![cursor] =
                                 IF Runs THEN "ready"
                                 ELSE IF d.start THEN "failed" ELSE d.state]
                /\ startup' = Counted(startup, d, Runs)
    /\ cursor' = cursor + 1
    /\ UNCHANGED <<phase, profile, bootFlags, build, lifecycle, panic,
                   requests, verified>>

\* OrynKernelRuntimeStartupSucceeded.
Succeeded == startup.failed = 0 /\ startup.missing = 0 /\ startup.started > 0

\* KernelStart after the loop: KernelMain, or the halt loop.
EnterKernelMain ==
    /\ phase = "starting" /\ cursor > Len(Manifest)
    /\ phase' = IF Succeeded THEN "main" ELSE "refused"
    /\ UNCHANGED <<cursor, mstate, profile, bootFlags, build, startup,
                   lifecycle, panic, requests, verified>>

-----------------------------------------------------------------------------

\* IsTransitionAllowed.
IsTransitionAllowed(cur, next) ==
    \/ next = "Panic"
    \/ cur = "Panic" /\ next = "Halting"
    \/ /\ cur # "Panic" /\ next # "Panic"
       /\ \/ cur = next
          \/ next = "InteractiveHalt" /\ cur = "Running"
          \/ /\ next = "Halting"
             /\ cur \in {"Running", "DebugExitRequested", "InteractiveHalt"}
          \/ /\ next \notin {"InteractiveHalt", "Halting"}
             /\ Rank(next) > Rank(cur)

\* OrynKernelLifecycleTransition.
Transition(l, next) ==
    IF ~IsTransitionAllowed(l.state, next)
    THEN [l EXCEPT !.invalid = @ + 1]
    ELSE IF l.state = next THEN l
    ELSE [state |-> next, seen |-> l.seen \cup {next},
          transitions |-> l.transitions + 1, invalid |-> l.invalid]

RequestTransition ==
    /\ phase = "main" /\ requests < MaxRequests
    /\ \E s \in Requests : lifecycle' = Transition(lifecycle, s)
    /\ requests' = requests + 1
    /\ UNCHANGED <<phase, cursor, mstate, profile, bootFlags, build, startup,
                   panic, verified>>

\* The modules OrynKernelRuntimeEnter marks ready by itself.
RuntimeModules == {1, 2, 4, 5}

\* OrynKernelRuntimeEnter: the manifest and the lifecycle start over, the
\* record is adopted, the panic report is cleared (its counter is not).
RuntimeEnter ==
    /\ phase = "main" /\ requests < MaxRequests /\ ~panic.active
    /\ mstate' = [i \in Ids |-> IF i \in build \cap RuntimeModules THEN "ready"
                                ELSE Registered(build)[i]]
    /\ lifecycle' = Transition(Transition(ColdLifecycle, "Entered"), "BootInfoAdopted")
    /\ panic' = [NoPanic EXCEPT !.sequence = panic.sequence]
    /\ requests' = requests + 1
    /\ UNCHANGED <<phase, cursor, profile, bootFlags, build, startup, verified>>

\* KernelMain may call KernelBootInfoValidate.
ValidateBootInfo ==
    /\ phase = "main" /\ ~verified
    /\ verified' = TRUE
    /\ UNCHANGED <<phase, cursor, mstate, profile, bootFlags, build, startup,
                   lifecycle, panic, requests>>

-----------------------------------------------------------------------------

Inert == {"absent", "skipped"}

\* OrynKernelModuleManifestStop, Panic and Shutdown with the default callbacks.
Stopped(s) ==
    IF s \in Inert \cup {"stopping", "stopped", "shutting-down", "shutdown"}
    THEN s ELSE "stopped"

Panicked(s) == IF s \in Inert \cup {"panic", "shutdown"} THEN s ELSE "panic"

\* Mutant of ShutDown: modules that are in the panic state are passed over.
ShutDownNotPanicked(s) ==
    IF s \in Inert \cup {"shutting-down", "shutdown", "panic"} THEN s ELSE "shutdown"

ShutDown(s) == IF s \in Inert \cup {"shutting-down", "shutdown"} THEN s ELSE "shutdown"

\* The callback loops run from the last identifier to the first.
First == Len(Manifest)

\* OrynKernelModuleManifestInvokeStopCallbacks.
InvokeStopCallbacks ==
    /\ phase = "main"
    /\ phase' = "stopping" /\ cursor' = First
    /\ UNCHANGED <<mstate, profile, bootFlags, build, startup, lifecycle,
                   panic, requests, verified>>

\* One callback of the loop that is running, then the next module or phase.
Callback(from, F(_), to) ==
    /\ phase = from /\ cursor >= 1
    /\ mstate' = [mstate EXCEPT ![cursor] = F(@)]
    /\ phase' = IF cursor = 1 THEN to ELSE from
    /\ cursor' = IF cursor = 1 THEN First ELSE cursor - 1
    /\ UNCHANGED <<profile, bootFlags, build, startup, lifecycle, panic,
                   requests, verified>>

\* Mutant of RunCallbacks: the loop counter wraps instead of ending the loop.
RunCallbacksWrap == \/ Callback("stopping", Stopped, "main")
                    \/ Callback("panic", Panicked, "panic")
                    \/ Callback("shutdown", ShutDown, "report")

RunCallbacks == \/ Callback("stopping", Stopped, "main")
                \/ Callback("panic", Panicked, "shutdown")
                \/ Callback("shutdown", ShutDown, "report")

\* OrynKernelPanicRaiseException up to the first callback: the report is
\* filled (a nested exception overwrites the cause and keeps the number).
StartPanic(p) ==
    [active |-> TRUE, exceptions |-> p.exceptions + 1, cause |-> p.exceptions + 1,
     sequence |-> IF p.active THEN p.sequence ELSE p.sequence + 1,
     lifecycle |-> "Panic", written |-> p.written, halted |-> TRUE]

RaiseException ==
    /\ phase \in {"starting", "main", "stopping", "panic", "shutdown", "report"}
    /\ phase \in {"main", "report"} \/ cursor \in ExceptionAt
    /\ panic.exceptions < MaxExceptions
    /\ panic' = StartPanic(panic)
    /\ lifecycle' = Transition(lifecycle, "Panic")
    /\ phase' = "panic" /\ cursor' = First
    /\ UNCHANGED <<mstate, profile, bootFlags, build, startup, requests, verified>>

\* The end of OrynKernelPanicHalt: Halting, Halted, the report, the halt loop.
PanicReport ==
    /\ phase = "report"
    /\ lifecycle' = Transition(Transition(lifecycle, "Halting"), "Halted")
    /\ panic' = IF panic.active
                THEN [[panic EXCEPT !.written = TRUE]
                             EXCEPT !.lifecycle = lifecycle'.state]
                ELSE panic
    /\ phase' = "halted"
    /\ UNCHANGED <<cursor, mstate, profile, bootFlags, build, startup,
                   requests, verified>>

StartupNext == \/ StartCompiledModule \/ EnterKernelMain \/ RequestTransition
               \/ RuntimeEnter \/ ValidateBootInfo \/ InvokeStopCallbacks
               \/ RunCallbacks \/ RaiseException \/ PanicReport

StartupSpec == StartupInit /\ [][StartupNext]_startupVars

LifecycleStates == {LifecycleOrder[i] : i \in 1 .. Len(LifecycleOrder)} \cup {"Panic"}

\* What the proofs use of the constants: the module table is in dependency order
\* and calls fatal what it calls required, and a build that holds a module the
\* runtime enters with also holds what that module needs.
StartupConstants ==
    /\ Len(Manifest) \in Nat
    /\ \A i \in Ids : /\ Manifest[i].requires \subseteq 1 .. i - 1
                      /\ Manifest[i].required \in BOOLEAN
                      /\ Manifest[i].fatal \in BOOLEAN
                      /\ Manifest[i].required => Manifest[i].fatal
    /\ \A B \in Builds : /\ B \subseteq Ids
                         /\ \A i \in B \cap RuntimeModules :
                              Manifest[i].requires \subseteq B \cap RuntimeModules
    /\ Requests \subseteq LifecycleStates
    /\ MaxExceptions \in Nat

-----------------------------------------------------------------------------

StartupTypeOK ==
    /\ mstate \in [Ids -> States]
    /\ lifecycle.state \in LifecycleStates
    /\ panic.sequence \in 0 .. MaxExceptions
    /\ startup.started + startup.skipped + startup.failed <= Len(Manifest)

\* While modules start and while KernelMain runs, a ready module never rests
\* on one that is not ready (KernelModuleManifestRules.c CanStart; the order of
\* KernelRuntimeStartup.c).
ReadyOnReady ==
    phase \in {"starting", "main"} =>
        \A i \in Ids : mstate[i] = "ready" =>
            \A r \in Manifest[i].requires : mstate[r] = "ready"

\* KernelMain is entered only with every required module of the build ready
\* and none failed; a module that is left out was not offered its inputs or
\* rests on one that was left out (KernelModuleStartPlan.c, KernelEntry.c:24).
MainOnlyWhenStarted ==
    phase = "main" /\ requests = 0 /\ "stopped" \notin {mstate[i] : i \in Ids} =>
        \A i \in build :
            \/ mstate[i] = "ready"
            \/ /\ mstate[i] = "skipped" /\ ~Manifest[i].required
               /\ \/ ~InputSelected(i)
                  \/ ~Manifest[i].fatal /\ ~CanStart(i)

\* While the callback loops run, a module is stopped, panicked or shut down
\* only after every module that depends on it
\* (KernelModuleManifestProof.c:65 "reverse dependency order").
CallbacksInReverse ==
    \A i \in Ids : \A r \in Manifest[i].requires :
        /\ phase = "stopping" /\ mstate[r] = "stopped" => mstate[i] # "ready"
        /\ phase = "panic" /\ panic.exceptions = 1 /\ mstate[r] = "panic"
              => mstate[i] # "ready"
        /\ phase = "shutdown" /\ panic.exceptions = 1 /\ mstate[r] = "shutdown"
              => mstate[i] # "panic"

\* A halted panic has shut every started module down, has written its report
\* under one number, and the report names the final lifecycle state, however
\* many exceptions came while the panic path was running (KernelPanic.c:226).
PanicComplete ==
    phase = "halted" =>
        /\ panic.active /\ panic.written /\ panic.sequence = 1
        /\ panic.lifecycle = lifecycle.state /\ lifecycle.state = "Halted"
        /\ \A i \in Ids : mstate[i] \in Inert \cup {"shutdown"}

\* A panic ends in the halt loop (KernelPanic.c OrynKernelPanicHalt).
PanicHalts == (phase = "panic") ~> (phase = "halted")

\* Modules start after what they need and end before it, KernelMain runs only on
\* a kernel that started, and a panic leaves nothing half ended
\* (KernelModuleManifestRules.c, KernelEntry.c, KernelPanic.c).
StartupSound ==
    /\ StartupTypeOK
    /\ ReadyOnReady
    /\ MainOnlyWhenStarted
    /\ CallbacksInReverse
    /\ PanicComplete

=============================================================================
