-------------------------------- MODULE Smp --------------------------------
(***************************************************************************)
(* Starting the application processors: KernelSmp.c and the trampoline of  *)
(* KernelSmpTrampoline.c.                                                  *)
(*                                                                         *)
(* The bootstrap processor (BSP) reads the CPUs from the ACPI MADT and     *)
(* starts the enabled ones one after the other: it writes a stack and an   *)
(* APIC id into the ONE trampoline page, sends INIT and STARTUP, and waits *)
(* for a sign of life until a loop runs out.  A started processor (AP)     *)
(* reads the stack and the id back, marks the slot with that id as started *)
(* and adds one to a counter that all processors share.  The processors    *)
(* run at their own speed, so each access to shared memory is a step.      *)
(*                                                                         *)
(* Processors are named by their local APIC id.  Wording, the proof lines  *)
(* printed and the checksums of the ACPI tables are left out; a table that *)
(* is missing or rejected is the empty MADT.                               *)
(***************************************************************************)
EXTENDS Naturals, Sequences, FiniteSets, FiniteSetsExt

CONSTANTS
    Bsp,            \* local APIC id of the bootstrap processor
    Madts,          \* the MADTs the firmware may provide: sequences of
                    \* [apicId |-> id, enabled |-> BOOLEAN]
    MaxCpus,        \* ORYN_SMP_MAX_CPUS
    Reliable        \* TRUE: every AP is present, every IPI is delivered and
                    \* no AP is so slow that WaitForCpu runs out

Ids == {Bsp} \cup UNION {{m[i].apicId : i \in 1 .. Len(m)} : m \in Madts}
Aps == Ids \ {Bsp}

ASSUME SmpAssumption ==
    /\ MaxCpus \in Nat \ {0}
    /\ Reliable \in BOOLEAN
    /\ IsFiniteSet(Ids)
    /\ \A m \in Madts :
         /\ m \in Seq([apicId : Ids, enabled : BOOLEAN])
         /\ Len(m) <= MaxCpus + 1
         /\ \A i, j \in 1 .. Len(m) : m[i].apicId = m[j].apicId => i = j
         /\ m # << >> => \E i \in 1 .. Len(m) :
                i <= MaxCpus /\ m[i].apicId = Bsp /\ m[i].enabled

VARIABLES
    Cpus,                \* gSmpState.Cpus[0 .. LocalApicEntryCount-1], from 1
    DiscoveryComplete,
    Trampoline,          \* OrynSmpTrampolineStackTop and ...ApicId
    StartedCounter,
    StartupAttemptCount,
    StartupSuccessCount,
    bsp,                 \* program counter and locals of the BSP
    ap                   \* program counter and registers of each AP

vars == <<Cpus, DiscoveryComplete, Trampoline, StartedCounter,
          StartupAttemptCount, StartupSuccessCount, bsp, ap>>

NoIndex == 0
BspPcs == {"idle", "loop", "patchStack", "patchId", "init", "sipi1", "wait1",
           "sipi2", "wait2", "count"}
\* An absent AP is one the MADT calls enabled or online capable that never
\* answers; "firmware" is where the firmware left it, deaf to STARTUP.
ApPcs == {"absent", "firmware", "waitSipi", "trampoline", "haveStack",
          "haveId", "marked", "counting", "parked"}

\* Where an AP is, and its registers.
Ap(label, stack, apicId, counter) ==
    [pc |-> label, stack |-> stack, apicId |-> apicId, counter |-> counter]

TypeOK ==
    /\ Cpus \in Seq([apicId : Ids, enabled : BOOLEAN, started : BOOLEAN])
    /\ Len(Cpus) <= MaxCpus
    /\ DiscoveryComplete \in BOOLEAN
    /\ Trampoline \in [stack : 0 .. MaxCpus, apicId : Ids \cup {NoIndex}]
    /\ StartedCounter \in 0 .. Cardinality(Aps)
    /\ StartupAttemptCount \in 0 .. Len(Cpus)
    /\ StartupSuccessCount \in 0 .. StartupAttemptCount
    /\ bsp \in [pc : BspPcs, index : 0 .. MaxCpus + 1, before : Nat]
    /\ ap \in [Aps -> [pc : ApPcs, stack : 0 .. MaxCpus,
                       apicId : Ids \cup {NoIndex}, counter : Nat]]

Init ==
    /\ Cpus = << >>
    /\ DiscoveryComplete = FALSE
    /\ Trampoline = [stack |-> NoIndex, apicId |-> NoIndex]
    /\ StartedCounter = 0
    /\ StartupAttemptCount = 0
    /\ StartupSuccessCount = 0
    /\ bsp = [pc |-> "idle", index |-> NoIndex, before |-> 0]
    /\ ap \in [Aps -> {Ap(p, NoIndex, NoIndex, 0) :
                         p \in {"firmware", "waitSipi"} \cup
                               (IF Reliable THEN {} ELSE {"absent"})}]

----------------------------------------------------------------------------
(* Discovery.                                                              *)

\* AddCpu for every local APIC entry of the table, and the BSP alone when
\* there is none.
DiscoveredCpus(madt) ==
    IF madt = << >>
    THEN <<[apicId |-> Bsp, enabled |-> TRUE, started |-> TRUE]>>
    ELSE [i \in 1 .. Min({Len(madt), MaxCpus}) |->
            [apicId |-> madt[i].apicId, enabled |-> madt[i].enabled,
             started |-> madt[i].apicId = Bsp]]

\* OrynKernelSmpDiscover; a second call finds the topology cached.
Discover(madt) ==
    /\ bsp.pc = "idle"
    /\ ~DiscoveryComplete
    /\ Cpus' = DiscoveredCpus(madt)
    /\ DiscoveryComplete' = TRUE
    /\ UNCHANGED <<Trampoline, StartedCounter, StartupAttemptCount,
                   StartupSuccessCount, bsp, ap>>

----------------------------------------------------------------------------
(* The BSP.                                                                *)

Goto(label) == bsp' = [bsp EXCEPT !.pc = label]
GotoSlot(label, i) == bsp' = [pc |-> label, index |-> i, before |-> bsp.before]

\* Mutant: OrynKernelSmpInit runs whatever it did before.
AlwaysAttempt == TRUE

\* OrynKernelSmpInit returns at once when a startup was attempted before.
NotAttempted == StartupAttemptCount = 0 /\ StartupSuccessCount = 0

\* The rest of OrynKernelSmpInit: discover if that was not done, copy the
\* trampoline, and start the loop unless CR3 or the IPI path forbids it.
SmpInit(madt, canStart) ==
    /\ bsp.pc = "idle"
    /\ NotAttempted
    /\ Cpus' = IF DiscoveryComplete THEN Cpus ELSE DiscoveredCpus(madt)
    /\ DiscoveryComplete' = TRUE
    /\ Trampoline' = [stack |-> NoIndex, apicId |-> NoIndex]
    /\ IF canStart THEN GotoSlot("loop", 1) ELSE bsp' = bsp
    /\ UNCHANGED <<StartedCounter, StartupAttemptCount, StartupSuccessCount,
                   ap>>

IsApplicationProcessor(i) == Cpus[i].enabled /\ Cpus[i].apicId # Bsp

SkipCpu ==
    /\ bsp.pc = "loop"
    /\ bsp.index \in DOMAIN Cpus
    /\ ~IsApplicationProcessor(bsp.index)
    /\ GotoSlot("loop", bsp.index + 1)
    /\ UNCHANGED <<Cpus, DiscoveryComplete, Trampoline, StartedCounter,
                   StartupAttemptCount, StartupSuccessCount, ap>>

AttemptCpu ==
    /\ bsp.pc = "loop"
    /\ bsp.index \in DOMAIN Cpus
    /\ IsApplicationProcessor(bsp.index)
    /\ StartupAttemptCount' = StartupAttemptCount + 1
    /\ bsp' = [pc |-> "patchStack", index |-> bsp.index,
               before |-> StartedCounter]
    /\ UNCHANGED <<Cpus, DiscoveryComplete, Trampoline, StartedCounter,
                   StartupSuccessCount, ap>>

LoopEnds ==
    /\ bsp.pc = "loop"
    /\ bsp.index \notin DOMAIN Cpus
    /\ GotoSlot("idle", NoIndex)
    /\ UNCHANGED <<Cpus, DiscoveryComplete, Trampoline, StartedCounter,
                   StartupAttemptCount, StartupSuccessCount, ap>>

\* PatchTrampolineForCpu: the stack first, then the APIC id.
PatchStack ==
    /\ bsp.pc = "patchStack"
    /\ Trampoline' = [Trampoline EXCEPT !.stack = bsp.index]
    /\ Goto("patchId")
    /\ UNCHANGED <<Cpus, DiscoveryComplete, StartedCounter,
                   StartupAttemptCount, StartupSuccessCount, ap>>

PatchApicId ==
    /\ bsp.pc = "patchId"
    /\ Trampoline' = [Trampoline EXCEPT !.apicId = Cpus[bsp.index].apicId]
    /\ Goto("init")
    /\ UNCHANGED <<Cpus, DiscoveryComplete, StartedCounter,
                   StartupAttemptCount, StartupSuccessCount, ap>>

\* What SendIpiRaw does with one command: it reports success only for a
\* command it wrote, and may report failure for one the target still gets.
IpiOutcomes == {[sent |-> TRUE, ok |-> TRUE]} \cup
    (IF Reliable THEN {}
     ELSE {[sent |-> FALSE, ok |-> FALSE], [sent |-> TRUE, ok |-> FALSE]})

\* INIT resets a present processor whatever it is doing.
AfterInit(p) == IF p = "absent" THEN p ELSE "waitSipi"
\* STARTUP only reaches a processor that waits for one.
AfterStartup(p) == IF p = "waitSipi" THEN "trampoline" ELSE p

SendInitIpi ==
    /\ bsp.pc = "init"
    /\ \E o \in IpiOutcomes :
         ap' = IF o.sent
               THEN [ap EXCEPT ![Cpus[bsp.index].apicId].pc = AfterInit(@)]
               ELSE ap
    /\ Goto("sipi1")
    /\ UNCHANGED <<Cpus, DiscoveryComplete, Trampoline, StartedCounter,
                   StartupAttemptCount, StartupSuccessCount>>

\* The first STARTUP is followed by the wait whatever SendIpiRaw returned, the
\* second only when it was sent.
SendStartupIpi ==
    /\ bsp.pc \in {"sipi1", "sipi2"}
    /\ \E o \in IpiOutcomes :
         /\ ap' = IF o.sent
                  THEN [ap EXCEPT ![Cpus[bsp.index].apicId].pc =
                                                        AfterStartup(@)]
                  ELSE ap
         /\ Goto(IF bsp.pc = "sipi1" THEN "wait1"
                 ELSE IF o.ok THEN "wait2" ELSE "count")
    /\ UNCHANGED <<Cpus, DiscoveryComplete, Trampoline, StartedCounter,
                   StartupAttemptCount, StartupSuccessCount>>

\* WaitForCpu returns 1: the slot is marked, or the counter has moved.
SignOfLife == Cpus[bsp.index].started \/ StartedCounter # bsp.before

WaitForCpu ==
    /\ bsp.pc \in {"wait1", "wait2"}
    /\ SignOfLife
    /\ Goto("count")
    /\ UNCHANGED <<Cpus, DiscoveryComplete, Trampoline, StartedCounter,
                   StartupAttemptCount, StartupSuccessCount, ap>>

\* Mutant: the wait for the second STARTUP has no limit.
SecondWaitNeverRunsOut ==
    /\ ~Reliable
    /\ bsp.pc = "wait1"
    /\ ~Cpus[bsp.index].started
    /\ Goto("sipi2")
    /\ UNCHANGED <<Cpus, DiscoveryComplete, Trampoline, StartedCounter,
                   StartupAttemptCount, StartupSuccessCount, ap>>

\* WaitForCpu ran out of iterations.  Its last look is at the slot alone.
WaitRunsOut ==
    /\ ~Reliable
    /\ bsp.pc \in {"wait1", "wait2"}
    /\ ~Cpus[bsp.index].started
    /\ Goto(IF bsp.pc = "wait1" THEN "sipi2" ELSE "count")
    /\ UNCHANGED <<Cpus, DiscoveryComplete, Trampoline, StartedCounter,
                   StartupAttemptCount, StartupSuccessCount, ap>>

\* Mutant: the result of WaitForCpu is taken for the start of this CPU.
CountSignOfLife ==
    /\ bsp.pc = "count"
    /\ StartupSuccessCount' = IF SignOfLife THEN StartupSuccessCount + 1
                                            ELSE StartupSuccessCount
    /\ GotoSlot("loop", bsp.index + 1)
    /\ UNCHANGED <<Cpus, DiscoveryComplete, Trampoline, StartedCounter,
                   StartupAttemptCount, ap>>

CountCpu ==
    /\ bsp.pc = "count"
    /\ StartupSuccessCount' = IF Cpus[bsp.index].started
                              THEN StartupSuccessCount + 1
                              ELSE StartupSuccessCount
    /\ GotoSlot("loop", bsp.index + 1)
    /\ UNCHANGED <<Cpus, DiscoveryComplete, Trampoline, StartedCounter,
                   StartupAttemptCount, ap>>

----------------------------------------------------------------------------
(* An application processor a: the trampoline, then OrynKernelSmpApEntry.  *)

ApReadStack(a) ==
    /\ ap[a].pc = "trampoline"
    /\ ap' = [ap EXCEPT ![a] = Ap("haveStack", Trampoline.stack, @.apicId,
                                  @.counter)]
    /\ UNCHANGED <<Cpus, DiscoveryComplete, Trampoline, StartedCounter,
                   StartupAttemptCount, StartupSuccessCount, bsp>>

ApReadApicId(a) ==
    /\ ap[a].pc = "haveStack"
    /\ ap' = [ap EXCEPT ![a] = Ap("haveId", @.stack, Trampoline.apicId,
                                  @.counter)]
    /\ UNCHANGED <<Cpus, DiscoveryComplete, Trampoline, StartedCounter,
                   StartupAttemptCount, StartupSuccessCount, bsp>>

\* The slot with the id the AP was given, not the id the AP has.
Marked(id) == [i \in DOMAIN Cpus |->
                 IF Cpus[i].apicId = id THEN [Cpus[i] EXCEPT !.started = TRUE]
                                        ELSE Cpus[i]]

ApMarkStarted(a) ==
    /\ ap[a].pc = "haveId"
    /\ Cpus' = Marked(ap[a].apicId)
    /\ ap' = [ap EXCEPT ![a].pc = "marked"]
    /\ UNCHANGED <<DiscoveryComplete, Trampoline, StartedCounter,
                   StartupAttemptCount, StartupSuccessCount, bsp>>

\* StartedCounter += 1 is a load and a store.
ApLoadCounter(a) ==
    /\ ap[a].pc = "marked"
    /\ ap' = [ap EXCEPT ![a] = Ap("counting", @.stack, @.apicId,
                                  StartedCounter)]
    /\ UNCHANGED <<Cpus, DiscoveryComplete, Trampoline, StartedCounter,
                   StartupAttemptCount, StartupSuccessCount, bsp>>

ApStoreCounter(a) ==
    /\ ap[a].pc = "counting"
    /\ StartedCounter' = ap[a].counter + 1
    /\ ap' = [ap EXCEPT ![a].pc = "parked"]
    /\ UNCHANGED <<Cpus, DiscoveryComplete, Trampoline,
                   StartupAttemptCount, StartupSuccessCount, bsp>>

----------------------------------------------------------------------------
BspStep ==
    \/ SkipCpu \/ AttemptCpu \/ LoopEnds \/ PatchStack \/ PatchApicId
    \/ SendInitIpi \/ SendStartupIpi \/ WaitForCpu \/ WaitRunsOut \/ CountCpu

ApStep(a) == \/ ApReadStack(a) \/ ApReadApicId(a) \/ ApMarkStarted(a)
             \/ ApLoadCounter(a) \/ ApStoreCounter(a)

Next ==
    \/ \E madt \in Madts : Discover(madt)
    \/ \E madt \in Madts, canStart \in BOOLEAN : SmpInit(madt, canStart)
    \/ BspStep
    \/ \E a \in Aps : ApStep(a)

Spec == Init /\ [][Next]_vars

\* The BSP runs, its loops are bounded and nothing preempts it; a processor
\* that was started runs as well.
FairSpec == Spec /\ WF_vars(BspStep) /\ \A a \in Aps : WF_vars(ApStep(a))

----------------------------------------------------------------------------
(* Properties.                                                             *)

HasStack(a) == ap[a].pc \in {"haveStack", "haveId", "marked", "counting",
                             "parked"}
Entered(a) == ap[a].pc \in {"marked", "counting", "parked"}
EnteredAps == {a \in Aps : Entered(a)}

\* A slot is marked started only if some AP that entered the kernel was given
\* that slot's id: even when a late AP marks the slot of another one, the
\* successes OrynKernelSmpPrintProof reports never exceed the processors that
\* really run.
SuccessesAreReal == StartupSuccessCount <= Cardinality(EnteredAps)

\* The test behind "SMP application processors entered kernel AP loop."
\* (KernelSmpPrint.c): if every startup attempted so far was counted as a
\* success, then each of those processors did enter, knows its own id and runs
\* on its own stack -- although a late AP may read what was meant for the next
\* one, and a counter moved by one AP ends the wait for another.
ClaimIsSound ==
    (bsp.pc \in {"idle", "loop"} /\ StartupSuccessCount = StartupAttemptCount)
        => \A i \in DOMAIN Cpus :
             (IsApplicationProcessor(i) /\ StartupAttemptCount > 0
                /\ (bsp.pc = "idle" \/ i < bsp.index))
                => LET a == Cpus[i].apicId
                   IN  Entered(a) /\ ap[a].apicId = a /\ ap[a].stack = i

\* No AP runs on the stack of a processor whose startup has not been attempted,
\* or on the BSP's slot of gSmpStacks.
StacksOfAttempted ==
    \A a \in Aps : HasStack(a) =>
        /\ ap[a].stack \in DOMAIN Cpus
        /\ IsApplicationProcessor(ap[a].stack)
        /\ bsp.pc # "idle" => ap[a].stack <= bsp.index

\* What the BSP counts and reports of its APs is true, and each of them is on a
\* stack of its own kind, whatever is lost, late or not there
\* (KernelSmp.c OrynKernelSmpInit).
StartsAccounted ==
    /\ TypeOK
    /\ SuccessesAreReal
    /\ ClaimIsSound
    /\ StacksOfAttempted

\* An AP that runs is never sent through INIT again: a second
\* OrynKernelSmpInit, or a second slot, never resets it.
NeverRestarted ==
    [][\A a \in Aps : HasStack(a) => /\ HasStack(a)'
                                     /\ ap'[a].stack = ap[a].stack]_vars

\* OrynKernelSmpInit returns, whichever processors are absent, deaf or late.
BspFinishes == (bsp.pc # "idle") ~> (bsp.pc = "idle")
=============================================================================
