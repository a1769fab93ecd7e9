------------------------------ MODULE SmpProofs ------------------------------
(***************************************************************************)
(* The start of the application processors is accounted for, whatever      *)
(* MADT the firmware provides and however late a processor answers.        *)
(***************************************************************************)
EXTENDS Smp, FiniteSetTheorems, TLAPS

\* The BSP is between the attempt to start a CPU and the count of it.
Mid == {"patchStack", "patchId", "init", "sipi1", "wait1", "sipi2", "wait2",
        "count"}
\* A STARTUP for the current CPU may have been sent.
Sent == {"wait1", "sipi2", "wait2", "count"}

Pending == IF bsp.pc \in Mid THEN 1 ELSE 0

Awake(a) == ap[a].pc \in {"trampoline", "haveStack", "haveId", "marked",
                          "counting", "parked"}
Parked == {a \in Aps : ap[a].pc = "parked"}

\* Where the BSP is in the table, and what it has discovered.
Slots ==
    /\ \A i, j \in DOMAIN Cpus : Cpus[i].apicId = Cpus[j].apicId => i = j
    /\ ~DiscoveryComplete => bsp.pc = "idle" /\ StartupAttemptCount = 0
    /\ bsp.pc # "idle" => bsp.index \in 1 .. Len(Cpus) + 1
    /\ bsp.pc \in Mid => bsp.index \in DOMAIN Cpus
                         /\ IsApplicationProcessor(bsp.index)

\* An attempt is counted when it begins, a success when it ends.
Counts ==
    /\ StartupSuccessCount + Pending <= StartupAttemptCount
    /\ bsp.pc # "idle" => StartupAttemptCount + 1 <= bsp.index + Pending

\* A processor left its reset only if the BSP came to its slot and sent the
\* STARTUP there.
Reached(i) ==
    /\ IsApplicationProcessor(i)
    /\ StartupAttemptCount > 0
    /\ bsp.pc # "idle" => \/ i < bsp.index
                          \/ i = bsp.index /\ bsp.pc \in Sent

OutOfReset ==
    \A a \in Aps : Awake(a) =>
        \E i \in DOMAIN Cpus : Cpus[i].apicId = a /\ Reached(i)

\* k is the stack of a processor the BSP came to, and of slot i or a later one.
StackFor(k, i) ==
    /\ k \in DOMAIN Cpus
    /\ IsApplicationProcessor(k)
    /\ i <= k
    /\ bsp.pc # "idle" => k <= bsp.index

\* What an AP will read, or has read, is a stack of its own slot or a later one:
\* the BSP only moves forward.
Stacks ==
    /\ bsp.pc \in Mid \ {"patchStack"} => Trampoline.stack = bsp.index
    /\ \A i \in DOMAIN Cpus : Cpus[i].apicId \in Aps /\ Awake(Cpus[i].apicId) =>
         /\ StackFor(Trampoline.stack, i)
         /\ HasStack(Cpus[i].apicId) => StackFor(ap[Cpus[i].apicId].stack, i)

\* A slot is marked by an AP that entered with that slot's id.
Marks ==
    \A i \in DOMAIN Cpus : IsApplicationProcessor(i) /\ Cpus[i].started =>
        \E a \in Aps : Entered(a) /\ ap[a].apicId = Cpus[i].apicId

\* The ids of the marked slots the BSP is done with.
CountedIds ==
    {Cpus[i].apicId : i \in {i \in DOMAIN Cpus :
        /\ IsApplicationProcessor(i)
        /\ Cpus[i].started
        /\ bsp.pc = "idle" \/ i < bsp.index}}

Successes == StartupSuccessCount <= Cardinality(CountedIds)

Own(i) == LET a == Cpus[i].apicId
          IN  Entered(a) /\ ap[a].apicId = a /\ ap[a].stack = i

\* As long as nothing failed, every processor the BSP is done with entered under
\* its own id and on its own stack.
Claim ==
    StartupSuccessCount + Pending = StartupAttemptCount =>
        \A i \in DOMAIN Cpus :
            /\ IsApplicationProcessor(i)
            /\ IF bsp.pc = "idle" THEN StartupAttemptCount > 0
                                  ELSE i < bsp.index
            => Own(i)

\* The counter never exceeds the parked processors: updates may be lost, none
\* is made up.
Counter ==
    /\ StartedCounter <= Cardinality(Parked)
    /\ \A a \in Aps : ap[a].pc = "counting" =>
                        ap[a].counter <= Cardinality(Parked)

\* The inductive invariant.
IInv ==
    /\ TypeOK
    /\ Slots
    /\ Counts
    /\ OutOfReset
    /\ Stacks
    /\ Marks
    /\ Successes
    /\ Claim
    /\ Counter

-----------------------------------------------------------------------------
(* Facts about the constants and the tables.                               *)

CpuRecord == [apicId : Ids, enabled : BOOLEAN, started : BOOLEAN]

\* A function on 1 .. n is a sequence of length n.
LEMMA FunctionIsSeq ==
    ASSUME NEW S, NEW n \in Nat, NEW f \in [1 .. n -> S]
    PROVE  f \in Seq(S) /\ Len(f) = n
OBVIOUS

\* The ids are finitely many, so the processors that are anywhere are.
LEMMA FiniteAps ==
    /\ IsFiniteSet(Aps)
    /\ \A S \in SUBSET Aps : IsFiniteSet(S) /\ Cardinality(S) \in Nat
                             /\ Cardinality(S) <= Cardinality(Aps)
<1>1. IsFiniteSet(Aps)
  <2>1. Aps \in SUBSET Ids
    BY DEF Aps
  <2> QED
    BY <2>1, SmpAssumption, FS_Subset
<1> QED
  BY <1>1, FS_Subset, FS_CardinalityType

\* The table that discovery makes: at most MaxCpus slots, no id twice, and no
\* application processor started.
LEMMA Discovery ==
    ASSUME NEW madt \in Madts
    PROVE  LET D == DiscoveredCpus(madt)
           IN  /\ D \in Seq(CpuRecord)
               /\ Len(D) <= MaxCpus
               /\ \A i, j \in DOMAIN D : D[i].apicId = D[j].apicId => i = j
               /\ \A i \in DOMAIN D : D[i].apicId # Bsp => ~D[i].started
<1> DEFINE D == DiscoveredCpus(madt)
<1>1. CASE madt = << >>
  <2>1. D = <<[apicId |-> Bsp, enabled |-> TRUE, started |-> TRUE]>>
    BY <1>1 DEF DiscoveredCpus
  <2>2. [apicId |-> Bsp, enabled |-> TRUE, started |-> TRUE] \in CpuRecord
    BY DEF CpuRecord, Ids
  <2>3. D \in Seq(CpuRecord) /\ Len(D) = 1 /\ DOMAIN D = {1}
    BY <2>1, <2>2
  <2> QED
    BY <2>1, <2>3, SmpAssumption
<1>2. CASE madt # << >>
  <2> DEFINE n == Min({Len(madt), MaxCpus})
  <2>1. madt \in Seq([apicId : Ids, enabled : BOOLEAN]) /\ MaxCpus \in Nat
    BY SmpAssumption
  <2>2. Len(madt) \in Nat
    BY <2>1
  <2>3. n \in {Len(madt), MaxCpus} /\ n <= Len(madt) /\ n <= MaxCpus
    <3>1. \E x \in {Len(madt), MaxCpus} : \A y \in {Len(madt), MaxCpus} : x <= y
      BY <2>1, <2>2
    <3> QED
      BY <3>1 DEF Min
  <2> HIDE DEF n
  <2>4. D = [i \in 1 .. n |-> [apicId |-> madt[i].apicId, enabled |-> madt[i].enabled,
                              started |-> madt[i].apicId = Bsp]]
    BY <1>2 DEF DiscoveredCpus, n
  <2> HIDE DEF D
  <2>5. n \in Nat /\ \A i \in 1 .. n : i \in 1 .. Len(madt)
    BY <2>1, <2>2, <2>3
  <2>6. \A i \in 1 .. n : madt[i].apicId \in Ids /\ madt[i].enabled \in BOOLEAN
    <3> DEFINE E == [apicId : Ids, enabled : BOOLEAN]
    <3>1. \A e \in E : e.apicId \in Ids /\ e.enabled \in BOOLEAN
      OBVIOUS
    <3> HIDE DEF E
    <3>2. madt \in Seq(E)
      BY <2>1 DEF E
    <3>3. \A i \in 1 .. n : madt[i] \in E
      BY <2>5, <3>2
    <3> QED
      BY <3>1, <3>3
  <2>7. D \in [1 .. n -> CpuRecord]
    BY <2>4, <2>6 DEF CpuRecord
  <2>8. D \in Seq(CpuRecord) /\ Len(D) = n /\ DOMAIN D = 1 .. n
    BY <2>5, <2>7, FunctionIsSeq
  <2>9. \A i \in DOMAIN D : D[i].apicId = madt[i].apicId
                           /\ (D[i].started <=> madt[i].apicId = Bsp)
    BY <2>4, <2>8
  <2>10. \A i, j \in 1 .. Len(madt) : madt[i].apicId = madt[j].apicId => i = j
    BY SmpAssumption
  <2> QED
    BY <2>3, <2>5, <2>8, <2>9, <2>10 DEF D
<1> QED
  BY <1>1, <1>2

\* What TypeOK says of the elements.
LEMMA Elements ==
    ASSUME TypeOK
    PROVE  /\ Cpus \in Seq(CpuRecord) /\ Len(Cpus) \in Nat
           /\ DOMAIN Cpus = 1 .. Len(Cpus) /\ Len(Cpus) <= MaxCpus
           /\ MaxCpus \in Nat
           /\ \A i \in DOMAIN Cpus : Cpus[i] \in CpuRecord
           /\ \A i \in DOMAIN Cpus : IsApplicationProcessor(i) =>
                                      Cpus[i].apicId \in Aps
           /\ bsp.pc \in BspPcs /\ bsp.index \in Nat /\ bsp.before \in Nat
           /\ StartedCounter \in Nat /\ StartupAttemptCount \in Nat
           /\ StartupSuccessCount \in Nat
           /\ Trampoline.stack \in Nat
           /\ \A a \in Aps : /\ ap[a].pc \in ApPcs /\ ap[a].stack \in Nat
                              /\ ap[a].counter \in Nat
<1>1. Cpus \in Seq(CpuRecord)
  BY DEF TypeOK, CpuRecord
<1>2. Len(Cpus) \in Nat /\ DOMAIN Cpus = 1 .. Len(Cpus)
  BY <1>1
<1>3. \A i \in DOMAIN Cpus : Cpus[i] \in CpuRecord
  BY <1>1, <1>2
<1>4. MaxCpus \in Nat /\ Len(Cpus) <= MaxCpus
  BY SmpAssumption DEF TypeOK
<1>5. \A i \in DOMAIN Cpus : IsApplicationProcessor(i) => Cpus[i].apicId \in Aps
  BY <1>3 DEF CpuRecord, IsApplicationProcessor, Aps
<1>6. bsp.pc \in BspPcs /\ bsp.index \in Nat /\ bsp.before \in Nat
  BY <1>4 DEF TypeOK
<1>7. StartedCounter \in Nat
  BY FiniteAps DEF TypeOK
<1>8. StartupAttemptCount \in Nat /\ StartupSuccessCount \in Nat
  BY <1>2 DEF TypeOK
<1>9. Trampoline.stack \in Nat
  BY <1>4 DEF TypeOK
<1>10. \A a \in Aps : /\ ap[a].pc \in ApPcs /\ ap[a].stack \in Nat
                      /\ ap[a].counter \in Nat
  BY <1>4 DEF TypeOK
<1> QED
  BY <1>1, <1>2, <1>3, <1>4, <1>5, <1>6, <1>7, <1>8, <1>9, <1>10

\* Initially no table is known and every AP is where the firmware left it.
LEMMA InitIInv == Init => IInv
<1> SUFFICES ASSUME Init PROVE IInv
  OBVIOUS
<1>1. Len(Cpus) = 0 /\ DOMAIN Cpus = {} /\ Cpus \in Seq(CpuRecord) /\ MaxCpus \in Nat
  BY SmpAssumption DEF Init
<1>2. \A a \in Aps : /\ ap[a].pc \in {"firmware", "waitSipi", "absent"}
                     /\ ap[a] = Ap(ap[a].pc, NoIndex, NoIndex, 0)
  BY DEF Init, Ap
<1>3. ap \in [Aps -> [pc : ApPcs, stack : 0 .. MaxCpus,
                     apicId : Ids \cup {NoIndex}, counter : Nat]]
  <2>1. \A p \in {"firmware", "waitSipi", "absent"} :
            Ap(p, NoIndex, NoIndex, 0) \in [pc : ApPcs, stack : 0 .. MaxCpus,
                     apicId : Ids \cup {NoIndex}, counter : Nat]
    BY <1>1 DEF Ap, NoIndex, ApPcs
  <2>2. ap \in [Aps -> {Ap(p, NoIndex, NoIndex, 0) : p \in {"firmware", "waitSipi", "absent"}}]
    BY DEF Init
  <2> QED
    BY <2>1, <2>2
<1>4. Cardinality(Aps) \in Nat
  BY FiniteAps
<1>5. TypeOK
  <2>1. Cpus \in Seq([apicId : Ids, enabled : BOOLEAN, started : BOOLEAN])
    BY <1>1 DEF CpuRecord
  <2>2. bsp \in [pc : BspPcs, index : 0 .. MaxCpus + 1, before : Nat]
    BY <1>1 DEF Init, BspPcs, NoIndex
  <2>3. Trampoline \in [stack : 0 .. MaxCpus, apicId : Ids \cup {NoIndex}]
    BY <1>1 DEF Init, NoIndex
  <2>4. /\ StartedCounter \in 0 .. Cardinality(Aps)
        /\ StartupAttemptCount \in 0 .. Len(Cpus)
        /\ StartupSuccessCount \in 0 .. StartupAttemptCount
        /\ Len(Cpus) <= MaxCpus
    BY <1>1, <1>4 DEF Init
  <2>5. DiscoveryComplete \in BOOLEAN
    BY DEF Init
  <2> QED
    BY <1>3, <2>1, <2>2, <2>3, <2>4, <2>5 DEF TypeOK
<1>6. Slots /\ Counts /\ Stacks /\ Marks /\ Claim
  BY <1>1 DEF Init, Slots, Counts, Stacks, Marks, Claim, Pending, Mid
<1>7. OutOfReset
  BY <1>2 DEF OutOfReset, Awake
<1>8. Parked = {} /\ CountedIds = {}
  BY <1>1, <1>2 DEF Parked, CountedIds
<1>9. Successes /\ Counter
  BY <1>2, <1>8, FS_EmptySet DEF Init, Successes, Counter
<1> QED
  BY <1>5, <1>6, <1>7, <1>9 DEF IInv

-----------------------------------------------------------------------------
(* Discovery and the loop of the BSP.                                      *)

\* Before the first attempt every AP is in reset, or still with the firmware.
LEMMA NobodyAwake ==
    ASSUME IInv, StartupAttemptCount = 0, NEW a \in Aps
    PROVE  ~Awake(a) /\ ~HasStack(a) /\ ~Entered(a)
BY DEF IInv, OutOfReset, Reached, Awake, HasStack, Entered

\* A new table, read while nothing was attempted, keeps the invariant.
LEMMA NewTable ==
    ASSUME IInv, StartupAttemptCount = 0, StartupSuccessCount = 0,
           bsp.pc = "idle", NEW madt \in Madts,
           Cpus' = DiscoveredCpus(madt) \/ (DiscoveryComplete /\ Cpus' = Cpus),
           DiscoveryComplete' = TRUE,
           Trampoline' \in {Trampoline, [stack |-> NoIndex, apicId |-> NoIndex]},
           bsp' \in {bsp, [pc |-> "loop", index |-> 1, before |-> bsp.before]},
           UNCHANGED <<StartedCounter, StartupAttemptCount, StartupSuccessCount, ap>>
    PROVE  IInv'
<1> USE DEF IInv
<1>1. /\ Cpus' \in Seq(CpuRecord) /\ Len(Cpus') <= MaxCpus
      /\ \A i, j \in DOMAIN Cpus' : Cpus'[i].apicId = Cpus'[j].apicId => i = j
  <2>1. CASE Cpus' = DiscoveredCpus(madt)
    BY <2>1, Discovery
  <2>2. CASE Cpus' = Cpus
    BY <2>2, Elements DEF Slots
  <2> QED
    BY <2>1, <2>2
<1>2. Len(Cpus') \in Nat /\ DOMAIN Cpus' = 1 .. Len(Cpus') /\ MaxCpus \in Nat
  BY <1>1, Elements
<1>3. TypeOK'
  <2>1. (Cpus \in Seq([apicId : Ids, enabled : BOOLEAN, started : BOOLEAN]))'
    BY <1>1 DEF CpuRecord
  <2>2. (bsp \in [pc : BspPcs, index : 0 .. MaxCpus + 1, before : Nat])'
    BY <1>2, Elements DEF TypeOK, BspPcs
  <2>3. (Trampoline \in [stack : 0 .. MaxCpus, apicId : Ids \cup {NoIndex}])'
    BY <1>2 DEF TypeOK, NoIndex
  <2> QED
    BY <1>1, <1>2, <2>1, <2>2, <2>3 DEF TypeOK
<1>4. Slots'
  BY <1>1, <1>2 DEF Slots, Mid
<1>5. Counts'
  BY Elements DEF Counts, Pending, Mid
<1>6. \A a \in Aps : ~Awake(a)' /\ ~HasStack(a)' /\ ~Entered(a)'
  BY NobodyAwake DEF Awake, HasStack, Entered
<1>7. OutOfReset'
  BY <1>6 DEF OutOfReset
<1>8. Stacks'
  BY <1>6 DEF Stacks, Mid
<1>9. Marks'
  <2>1. CASE Cpus' = DiscoveredCpus(madt)
    BY <2>1, Discovery DEF Marks, IsApplicationProcessor
  <2>2. CASE Cpus' = Cpus
    BY <2>2 DEF Marks, IsApplicationProcessor, Entered
  <2> QED
    BY <2>1, <2>2
<1>10. Successes'
  <2>1. \A i \in DOMAIN Cpus' : IsApplicationProcessor(i)' => Cpus'[i].apicId \in Aps
    <3>1. \A i \in DOMAIN Cpus' : Cpus'[i] \in CpuRecord
      BY <1>1, <1>2
    <3> QED
      BY <3>1 DEF CpuRecord, IsApplicationProcessor, Aps
  <2>2. CountedIds' \in SUBSET Aps
    BY <2>1 DEF CountedIds
  <2> QED
    BY <2>2, FiniteAps DEF Successes
<1>11. Claim'
  BY <1>2 DEF Claim
<1>12. Counter'
  BY DEF Counter, Parked
<1> QED
  BY <1>3, <1>4, <1>5, <1>7, <1>8, <1>9, <1>10, <1>11, <1>12

LEMMA DiscoverIInv ==
    ASSUME IInv, NEW madt \in Madts, Discover(madt)
    PROVE  IInv'
<1>1. StartupAttemptCount = 0 /\ StartupSuccessCount = 0
  BY Elements DEF IInv, Slots, Counts, Discover, TypeOK, Pending
<1>2. /\ bsp.pc = "idle"
      /\ Trampoline' \in {Trampoline, [stack |-> NoIndex, apicId |-> NoIndex]}
      /\ bsp' \in {bsp, [pc |-> "loop", index |-> 1, before |-> bsp.before]}
      /\ UNCHANGED <<StartedCounter, StartupAttemptCount, StartupSuccessCount, ap>>
  BY DEF Discover
<1>3. /\ Cpus' = DiscoveredCpus(madt) \/ (DiscoveryComplete /\ Cpus' = Cpus)
      /\ DiscoveryComplete' = TRUE
  BY Zenon DEF Discover
<1> QED
  BY <1>1, <1>2, <1>3, NewTable

LEMMA SmpInitIInv ==
    ASSUME IInv, NEW madt \in Madts, NEW canStart \in BOOLEAN, SmpInit(madt, canStart)
    PROVE  IInv'
<1>1. /\ StartupAttemptCount = 0 /\ StartupSuccessCount = 0
      /\ bsp.pc = "idle"
      /\ Trampoline' \in {Trampoline, [stack |-> NoIndex, apicId |-> NoIndex]}
      /\ bsp' \in {bsp, [pc |-> "loop", index |-> 1, before |-> bsp.before]}
      /\ UNCHANGED <<StartedCounter, StartupAttemptCount, StartupSuccessCount, ap>>
  BY DEF SmpInit, NotAttempted, GotoSlot
<1>2. /\ Cpus' = DiscoveredCpus(madt) \/ (DiscoveryComplete /\ Cpus' = Cpus)
      /\ DiscoveryComplete' = TRUE
  BY Zenon DEF SmpInit
<1> QED
  BY <1>1, <1>2, NewTable

\* The BSP passes a slot over that is not an AP to start.
LEMMA SkipCpuIInv ==
    ASSUME IInv, SkipCpu
    PROVE  IInv'
<1> USE DEF IInv
<1>1. /\ bsp'.pc = "loop" /\ bsp.pc = "loop" /\ bsp'.index = bsp.index + 1
      /\ bsp.index \in 1 .. Len(Cpus) /\ ~IsApplicationProcessor(bsp.index)
  BY Elements DEF SkipCpu, GotoSlot
<1>2. TypeOK'
  BY <1>1, Elements DEF TypeOK, SkipCpu, GotoSlot
<1>3. Slots'
  BY <1>1, Elements DEF Slots, SkipCpu, Mid
<1>4. Counts'
  BY <1>1, Elements DEF Counts, SkipCpu, Pending, Mid
<1>5. OutOfReset'
  BY <1>1, Elements DEF OutOfReset, SkipCpu, Awake, Reached, IsApplicationProcessor, Sent
<1>6. Stacks'
  <2>1. \A k, i : StackFor(k, i) => StackFor(k, i)'
    BY <1>1, Elements DEF StackFor, SkipCpu, IsApplicationProcessor
  <2> QED
    BY <1>1, <2>1 DEF Stacks, SkipCpu, Awake, HasStack, Mid
<1>7. Marks'
  BY DEF Marks, SkipCpu, IsApplicationProcessor, Entered
<1>8. Successes'
  <2>1. CountedIds' = CountedIds
    BY <1>1, Elements DEF CountedIds, SkipCpu, IsApplicationProcessor
  <2> QED
    BY <2>1 DEF Successes, SkipCpu
<1>9. Claim'
  BY <1>1, Elements DEF Claim, SkipCpu, Pending, Mid, IsApplicationProcessor, Own, Entered
<1>10. Counter'
  BY DEF Counter, Parked, SkipCpu
<1> QED
  BY <1>2, <1>3, <1>4, <1>5, <1>6, <1>7, <1>8, <1>9, <1>10

\* The attempt is counted before anything is sent.
LEMMA AttemptCpuIInv ==
    ASSUME IInv, AttemptCpu
    PROVE  IInv'
<1> USE DEF IInv
<1>1. /\ bsp'.pc = "patchStack" /\ bsp.pc = "loop" /\ bsp'.index = bsp.index
      /\ bsp.index \in 1 .. Len(Cpus) /\ IsApplicationProcessor(bsp.index)
      /\ StartupAttemptCount' = StartupAttemptCount + 1
  BY Elements DEF AttemptCpu
<1>2. TypeOK'
  <2>1. StartupAttemptCount + 1 <= Len(Cpus)
    BY <1>1, Elements DEF Counts, Pending, Mid
  <2>2. (bsp \in [pc : BspPcs, index : 0 .. MaxCpus + 1, before : Nat])'
    BY Elements DEF TypeOK, AttemptCpu, BspPcs
  <2> QED
    BY <1>1, <2>1, <2>2, Elements DEF TypeOK, AttemptCpu
<1>3. Slots'
  BY <1>1, Elements DEF Slots, AttemptCpu, Mid, IsApplicationProcessor
<1>4. Counts'
  BY <1>1, Elements DEF Counts, AttemptCpu, Pending, Mid
<1>5. OutOfReset'
  BY <1>1, Elements DEF OutOfReset, AttemptCpu, Awake, Reached, IsApplicationProcessor, Sent
<1>6. Stacks'
  <2>1. \A k, i : StackFor(k, i) => StackFor(k, i)'
    BY <1>1, Elements DEF StackFor, AttemptCpu, IsApplicationProcessor
  <2> QED
    BY <1>1, <2>1 DEF Stacks, AttemptCpu, Awake, HasStack, Mid
<1>7. Marks'
  BY DEF Marks, AttemptCpu, IsApplicationProcessor, Entered
<1>8. Successes'
  <2>1. CountedIds' = CountedIds
    BY <1>1, Elements DEF CountedIds, AttemptCpu, IsApplicationProcessor
  <2> QED
    BY <2>1 DEF Successes, AttemptCpu
<1>9. Claim'
  BY <1>1, Elements DEF Claim, AttemptCpu, Pending, Mid, IsApplicationProcessor, Own, Entered
<1>10. Counter'
  BY DEF Counter, Parked, AttemptCpu
<1> QED
  BY <1>2, <1>3, <1>4, <1>5, <1>6, <1>7, <1>8, <1>9, <1>10

\* The loop ends behind the last slot.
LEMMA LoopEndsIInv ==
    ASSUME IInv, LoopEnds
    PROVE  IInv'
<1> USE DEF IInv
<1>1. /\ bsp'.pc = "idle" /\ bsp.pc = "loop" /\ bsp'.index = 0
      /\ bsp.index = Len(Cpus) + 1
  BY Elements DEF LoopEnds, GotoSlot, NoIndex, Slots
<1>2. TypeOK'
  BY <1>1, Elements DEF TypeOK, LoopEnds, GotoSlot, NoIndex, BspPcs
<1>3. Slots'
  <2>1. DiscoveryComplete
    BY <1>1 DEF Slots
  <2> QED
    BY <1>1, <2>1, Elements DEF Slots, LoopEnds, Mid
<1>4. Counts'
  BY <1>1, Elements DEF Counts, LoopEnds, Pending, Mid
<1>5. OutOfReset'
  BY <1>1, Elements DEF OutOfReset, LoopEnds, Awake, Reached, IsApplicationProcessor, Sent
<1>6. Stacks'
  <2>1. \A k, i : StackFor(k, i) => StackFor(k, i)'
    BY <1>1, Elements DEF StackFor, LoopEnds, IsApplicationProcessor
  <2> QED
    BY <1>1, <2>1 DEF Stacks, LoopEnds, Awake, HasStack, Mid
<1>7. Marks'
  BY DEF Marks, LoopEnds, IsApplicationProcessor, Entered
<1>8. Successes'
  <2>1. CountedIds' = CountedIds
    BY <1>1, Elements DEF CountedIds, LoopEnds, IsApplicationProcessor
  <2> QED
    BY <2>1 DEF Successes, LoopEnds
<1>9. Claim'
  BY <1>1, Elements DEF Claim, LoopEnds, Pending, Mid, IsApplicationProcessor, Own, Entered
<1>10. Counter'
  BY DEF Counter, Parked, LoopEnds
<1> QED
  BY <1>2, <1>3, <1>4, <1>5, <1>6, <1>7, <1>8, <1>9, <1>10

-----------------------------------------------------------------------------
(* One attempt of the BSP.                                                 *)

InReset == {"absent", "firmware", "waitSipi"}

\* What an IPI to the current CPU may do to a processor: its registers stay, and
\* it leaves its reset only for a STARTUP of the BSP.
Hears(a) ==
    /\ ap'[a].stack = ap[a].stack /\ ap'[a].apicId = ap[a].apicId
    /\ ap'[a].counter = ap[a].counter
    /\ \/ ap'[a].pc = ap[a].pc
       \/ ap[a].pc \in InReset /\ ap'[a].pc \in InReset
       \/ /\ ap[a].pc = "waitSipi" /\ ap'[a].pc = "trampoline"
          /\ a = Cpus[bsp.index].apicId /\ bsp'.pc \in Sent
          /\ bsp.pc # "patchStack"

\* A step from one point of an attempt to a later one.
Proceeds ==
    /\ bsp.pc \in Mid /\ bsp'.pc \in Mid \ {"patchStack"}
    /\ bsp' = [bsp EXCEPT !.pc = bsp'.pc]
    /\ bsp.pc \in Sent => bsp'.pc \in Sent
    /\ Trampoline' \in [stack : 0 .. MaxCpus, apicId : Ids \cup {NoIndex}]
    /\ Trampoline'.stack = bsp.index
    /\ ap' \in [Aps -> [pc : ApPcs, stack : 0 .. MaxCpus,
                        apicId : Ids \cup {NoIndex}, counter : Nat]]
    /\ \A a \in Aps : Hears(a)
    /\ UNCHANGED <<Cpus, DiscoveryComplete, StartedCounter,
                   StartupAttemptCount, StartupSuccessCount>>

LEMMA ProceedsIInv ==
    ASSUME IInv, Proceeds
    PROVE  IInv'
<1> USE DEF IInv
<1>1. /\ bsp.pc \in Mid /\ bsp'.pc \in Mid \ {"patchStack"}
      /\ bsp'.index = bsp.index /\ bsp'.before = bsp.before
      /\ bsp.pc \in Sent => bsp'.pc \in Sent
      /\ bsp.index \in 1 .. Len(Cpus) /\ IsApplicationProcessor(bsp.index)
      /\ Trampoline'.stack = bsp.index
      /\ Cpus' = Cpus /\ DiscoveryComplete' = DiscoveryComplete
      /\ StartedCounter' = StartedCounter
      /\ StartupAttemptCount' = StartupAttemptCount
      /\ StartupSuccessCount' = StartupSuccessCount
  BY Elements DEF Proceeds, TypeOK, Slots
<1>2. \A a \in Aps : Hears(a)
  BY DEF Proceeds
<1>3. \A a \in Aps : /\ HasStack(a)' <=> HasStack(a)
                     /\ Entered(a)' <=> Entered(a)
                     /\ Awake(a) => Awake(a)'
                     /\ Awake(a)' => \/ Awake(a)
                                     \/ /\ a = Cpus[bsp.index].apicId
                                        /\ bsp'.pc \in Sent
                     /\ ap'[a].stack = ap[a].stack /\ ap'[a].apicId = ap[a].apicId
                     /\ ap'[a].counter = ap[a].counter
                     /\ ap'[a].pc = "counting" <=> ap[a].pc = "counting"
                     /\ ap'[a].pc = "parked" <=> ap[a].pc = "parked"
  BY <1>2 DEF Hears, InReset, HasStack, Entered, Awake
<1>4. TypeOK'
  BY <1>1, Elements DEF Proceeds, TypeOK, Mid, BspPcs
<1>5. Slots'
  BY <1>1, Elements DEF Slots, Mid, IsApplicationProcessor
<1>6. Counts'
  BY <1>1, Elements DEF Counts, Pending, Mid
<1>7. \A i : IsApplicationProcessor(i)' <=> IsApplicationProcessor(i)
  BY <1>1 DEF IsApplicationProcessor
<1>8. OutOfReset'
  <2>1. StartupAttemptCount > 0 /\ bsp.pc # "idle" /\ bsp'.pc # "idle"
    BY <1>1, Elements DEF Counts, Pending, Mid
  <2>2. \A i : Reached(i) => Reached(i)'
    BY <1>1, <1>7, <2>1 DEF Reached
  <2>3. bsp'.pc \in Sent => Reached(bsp.index)'
    BY <1>1, <1>7, <2>1 DEF Reached
  <2>4. bsp.index \in DOMAIN Cpus
    BY <1>1, Elements
  <2> QED
    BY <1>1, <1>3, <2>2, <2>3, <2>4 DEF OutOfReset
<1>9. Stacks'
  <2>1. \A k, i : StackFor(k, i)' <=> StackFor(k, i)
    BY <1>1, <1>7 DEF StackFor, Mid
  <2>2. ASSUME NEW i \in DOMAIN Cpus, Cpus[i].apicId \in Aps,
               Awake(Cpus[i].apicId)'
        PROVE  StackFor(bsp.index, i)
    <3>1. PICK j \in DOMAIN Cpus' : Cpus'[j].apicId = Cpus[i].apicId /\ Reached(j)'
      BY <1>1, <1>8, <2>2 DEF OutOfReset, Awake
    <3>2. j = i
      BY <1>1, <3>1 DEF Slots
    <3>3. i <= bsp.index
      BY <1>1, <3>1, <3>2, Elements DEF Reached, Mid
    <3> QED
      BY <1>1, <3>3, Elements DEF StackFor
  <2> QED
    BY <1>1, <1>3, <2>1, <2>2 DEF Stacks, Awake, HasStack
<1>10. Marks'
  BY <1>1, <1>3, <1>7 DEF Marks
<1>11. Successes'
  <2>1. CountedIds' = CountedIds
    BY <1>1, <1>7 DEF CountedIds, Mid
  <2> QED
    BY <1>1, <2>1 DEF Successes
<1>12. Claim'
  <2>1. Pending' = Pending
    BY <1>1 DEF Pending
  <2>2. \A i \in DOMAIN Cpus : IsApplicationProcessor(i) /\ Own(i) => Own(i)'
    BY <1>1, <1>3, Elements DEF Own
  <2> QED
    BY <1>1, <1>7, <2>1, <2>2 DEF Claim, Mid
<1>13. Counter'
  <2>1. Parked' = Parked
    BY <1>3 DEF Parked
  <2> QED
    BY <1>1, <1>3, <2>1 DEF Counter
<1> QED
  BY <1>4, <1>5, <1>6, <1>8, <1>9, <1>10, <1>11, <1>12, <1>13

\* The two writes to the trampoline.
LEMMA PatchIInv ==
    ASSUME IInv, PatchStack \/ PatchApicId
    PROVE  IInv'
<1> USE DEF IInv
<1>1. bsp.index \in 0 .. MaxCpus /\ bsp.index \in DOMAIN Cpus
      /\ Cpus[bsp.index].apicId \in Ids
  BY Elements DEF PatchStack, PatchApicId, Slots, Mid, CpuRecord
<1>2. \A a \in Aps : Hears(a)
  BY DEF PatchStack, PatchApicId, Hears
<1>3. /\ Trampoline' \in [stack : 0 .. MaxCpus, apicId : Ids \cup {NoIndex}]
      /\ Trampoline'.stack = bsp.index
  BY <1>1 DEF TypeOK, PatchStack, PatchApicId, Stacks, Mid
<1>4. bsp.pc \in Mid /\ bsp' = [bsp EXCEPT !.pc = bsp'.pc]
      /\ bsp'.pc \in {"patchId", "init"} /\ bsp.pc \notin Sent
  BY Elements DEF PatchStack, PatchApicId, Goto, TypeOK, Mid, Sent
<1>5. Proceeds
  BY <1>2, <1>3, <1>4 DEF Proceeds, PatchStack, PatchApicId, TypeOK, Mid
<1> QED
  BY <1>5, ProceedsIInv

\* The target of the IPIs is an AP; when INIT is sent it is in reset still.
LEMMA Target ==
    ASSUME IInv, bsp.pc \in Mid
    PROVE  /\ Cpus[bsp.index].apicId \in Aps
           /\ bsp.pc \notin Sent => ap[Cpus[bsp.index].apicId].pc \in InReset
<1> DEFINE t == Cpus[bsp.index].apicId
<1>1. bsp.index \in DOMAIN Cpus /\ t \in Aps
  BY Elements DEF IInv, Slots
<1>2. ASSUME Awake(t), bsp.pc \notin Sent PROVE FALSE
  <2>1. PICK i \in DOMAIN Cpus : Cpus[i].apicId = t /\ Reached(i)
    BY <1>1, <1>2 DEF IInv, OutOfReset
  <2>2. i = bsp.index
    BY <1>1, <2>1 DEF IInv, Slots
  <2> QED
    BY <1>2, <2>1, <2>2, Elements DEF IInv, Reached, Mid
<1>3. ap[t].pc \in ApPcs
  BY <1>1, Elements DEF IInv
<1> QED
  BY <1>1, <1>2, <1>3 DEF Awake, ApPcs, InReset

\* INIT reaches a processor that is in reset, never one that runs.
LEMMA SendInitIpiIInv ==
    ASSUME IInv, SendInitIpi
    PROVE  IInv'
<1> USE DEF IInv
<1> DEFINE t == Cpus[bsp.index].apicId
<1>1. /\ bsp.pc = "init" /\ bsp'.pc = "sipi1" /\ bsp' = [bsp EXCEPT !.pc = bsp'.pc]
      /\ bsp.pc \in Mid /\ bsp.pc \notin Sent
  BY Elements DEF SendInitIpi, Goto, TypeOK, Mid, Sent
<1>2. t \in Aps /\ ap[t].pc \in InReset
  BY <1>1, Target
<1>3. ap' = ap \/ ap' = [ap EXCEPT ![t].pc = AfterInit(@)]
  BY DEF SendInitIpi
<1>4. ap' \in [Aps -> [pc : ApPcs, stack : 0 .. MaxCpus,
                      apicId : Ids \cup {NoIndex}, counter : Nat]]
      /\ \A a \in Aps : Hears(a)
  <2>1. CASE ap' = ap
    BY <2>1 DEF TypeOK, Hears
  <2>2. CASE ap' = [ap EXCEPT ![t].pc = AfterInit(@)]
    <3>1. AfterInit(ap[t].pc) \in InReset
      BY <1>2 DEF AfterInit, InReset
    <3> HIDE DEF t
    <3> QED
      BY <1>2, <2>2, <3>1 DEF TypeOK, Hears, InReset, ApPcs
  <2> QED
    BY <1>3, <2>1, <2>2
<1>5. Proceeds
  BY <1>1, <1>4, Elements DEF Proceeds, SendInitIpi, TypeOK, Mid, Stacks
<1> QED
  BY <1>5, ProceedsIInv

\* STARTUP wakes the target if it waits for one.
LEMMA SendStartupIpiIInv ==
    ASSUME IInv, SendStartupIpi
    PROVE  IInv'
<1> USE DEF IInv
<1> DEFINE t == Cpus[bsp.index].apicId
<1>1. /\ bsp.pc \in {"sipi1", "sipi2"} /\ bsp'.pc \in {"wait1", "wait2", "count"}
      /\ bsp' = [bsp EXCEPT !.pc = bsp'.pc]
      /\ bsp.pc \in Mid
  BY Elements DEF SendStartupIpi, Goto, TypeOK, Mid
<1>2. t \in Aps
  BY <1>1, Target
<1>3. ap' = ap \/ ap' = [ap EXCEPT ![t].pc = AfterStartup(@)]
  BY DEF SendStartupIpi
<1>4. ap' \in [Aps -> [pc : ApPcs, stack : 0 .. MaxCpus,
                      apicId : Ids \cup {NoIndex}, counter : Nat]]
      /\ \A a \in Aps : Hears(a)
  <2>1. CASE ap' = ap
    BY <2>1 DEF TypeOK, Hears
  <2>2. CASE ap' = [ap EXCEPT ![t].pc = AfterStartup(@)]
    <3>1. /\ AfterStartup(ap[t].pc) \in ApPcs
          /\ \/ AfterStartup(ap[t].pc) = ap[t].pc
             \/ ap[t].pc = "waitSipi" /\ AfterStartup(ap[t].pc) = "trampoline"
      BY <1>2, Elements DEF AfterStartup, ApPcs
    <3>2. bsp'.pc \in Sent /\ bsp.pc # "patchStack"
      BY <1>1 DEF Sent
    <3>3. t = Cpus[bsp.index].apicId
      OBVIOUS
    <3> HIDE DEF t
    <3>4. /\ \A a \in Aps : a # t => ap'[a] = ap[a]
          /\ ap'[t] = [ap[t] EXCEPT !.pc = AfterStartup(ap[t].pc)]
          /\ ap' = [ap EXCEPT ![t] = ap'[t]]
      BY <1>2, <2>2 DEF TypeOK
    <3>5. Hears(t) /\ ap'[t] \in [pc : ApPcs, stack : 0 .. MaxCpus,
                      apicId : Ids \cup {NoIndex}, counter : Nat]
      BY <1>2, <3>1, <3>2, <3>3, <3>4 DEF TypeOK, Hears
    <3>6. \A a \in Aps : a # t => Hears(a)
      BY <3>4 DEF Hears
    <3> QED
      BY <1>2, <3>4, <3>5, <3>6 DEF TypeOK
  <2> QED
    BY <1>3, <2>1, <2>2
<1>5. Proceeds
  BY <1>1, <1>4, Elements DEF Proceeds, SendStartupIpi, TypeOK, Mid, Sent, Stacks
<1> QED
  BY <1>5, ProceedsIInv

\* The wait ends with a sign of life or without one.
LEMMA WaitIInv ==
    ASSUME IInv, WaitForCpu \/ WaitRunsOut
    PROVE  IInv'
<1> USE DEF IInv
<1>1. /\ bsp.pc \in {"wait1", "wait2"} /\ bsp'.pc \in {"sipi2", "count"}
      /\ bsp' = [bsp EXCEPT !.pc = bsp'.pc]
      /\ bsp.pc \in Mid
  BY Elements DEF WaitForCpu, WaitRunsOut, Goto, TypeOK, Mid
<1>2. \A a \in Aps : Hears(a)
  BY DEF WaitForCpu, WaitRunsOut, Hears
<1>3. Proceeds
  BY <1>1, <1>2, Elements DEF Proceeds, WaitForCpu, WaitRunsOut, TypeOK, Mid, Sent, Stacks
<1> QED
  BY <1>3, ProceedsIInv

\* The last look at the slot.  If nothing failed before, the AP that marked it
\* cannot be an earlier one, for those have ids of their own, and it cannot have
\* read the stack of a later one.
LEMMA CountCpuIInv ==
    ASSUME IInv, CountCpu
    PROVE  IInv'
<1> USE DEF IInv
<1> DEFINE t == Cpus[bsp.index].apicId
<1>1. /\ bsp'.pc = "loop" /\ bsp.pc = "count" /\ bsp'.index = bsp.index + 1
      /\ bsp.index \in 1 .. Len(Cpus) /\ bsp.index \in DOMAIN Cpus
      /\ IsApplicationProcessor(bsp.index)
      /\ Cpus' = Cpus /\ ap' = ap /\ StartupAttemptCount' = StartupAttemptCount
      /\ DiscoveryComplete' = DiscoveryComplete /\ Trampoline' = Trampoline
      /\ StartedCounter' = StartedCounter
      /\ StartupSuccessCount' = IF Cpus[bsp.index].started
                                THEN StartupSuccessCount + 1 ELSE StartupSuccessCount
  BY Elements DEF CountCpu, GotoSlot, Slots, Mid
<1>2. StartupSuccessCount + 1 <= StartupAttemptCount /\ StartupAttemptCount <= bsp.index
  BY <1>1, Elements DEF Counts, Pending, Mid
<1>3. TypeOK'
  <2>1. (bsp \in [pc : BspPcs, index : 0 .. MaxCpus + 1, before : Nat])'
    BY <1>1, Elements DEF CountCpu, GotoSlot, BspPcs
  <2>2. StartupSuccessCount' \in 0 .. StartupAttemptCount
    BY <1>1, <1>2, Elements
  <2> QED
    BY <1>1, <2>1, <2>2 DEF TypeOK
<1>4. Slots'
  BY <1>1, Elements DEF Slots, Mid
<1>5. Counts'
  BY <1>1, <1>2, Elements DEF Counts, Pending, Mid
<1>6. OutOfReset'
  <2>1. \A i \in DOMAIN Cpus : Reached(i) => Reached(i)'
    BY <1>1, Elements DEF Reached, IsApplicationProcessor, Sent
  <2> QED
    BY <1>1, <2>1 DEF OutOfReset, Awake
<1>7. Stacks'
  <2>1. \A k, i : StackFor(k, i) => StackFor(k, i)'
    BY <1>1, Elements DEF StackFor, IsApplicationProcessor
  <2> QED
    BY <1>1, <2>1 DEF Stacks, Awake, HasStack, Mid
<1>8. Marks'
  BY <1>1 DEF Marks, IsApplicationProcessor, Entered
<1>9. Successes'
  <2>1. CountedIds \in SUBSET Aps
    BY Elements DEF CountedIds
  <2>2. IsFiniteSet(CountedIds) /\ Cardinality(CountedIds) \in Nat
    BY <2>1, FiniteAps
  <2>3. CASE Cpus[bsp.index].started
    <3>1. t \notin CountedIds
      <4> SUFFICES ASSUME t \in CountedIds PROVE FALSE
        OBVIOUS
      <4>1. PICK i \in DOMAIN Cpus : Cpus[i].apicId = t /\ i < bsp.index
        BY <1>1 DEF CountedIds
      <4>2. i = bsp.index
        BY <1>1, <4>1 DEF Slots
      <4> QED
        BY <1>1, <4>1, <4>2
    <3>2. CountedIds' = CountedIds \cup {t}
      BY <1>1, <2>3, Elements DEF CountedIds, IsApplicationProcessor
    <3>3. Cardinality(CountedIds') = Cardinality(CountedIds) + 1
      BY <2>2, <3>1, <3>2, FS_AddElement
    <3> QED
      BY <1>1, <2>2, <2>3, <3>3, Elements DEF Successes
  <2>4. CASE ~Cpus[bsp.index].started
    <3>1. CountedIds' = CountedIds
      BY <1>1, <2>4, Elements DEF CountedIds, IsApplicationProcessor
    <3> QED
      BY <1>1, <2>4, <3>1 DEF Successes
  <2> QED
    BY <2>3, <2>4
<1>10. Claim'
  <2>1. Pending = 1 /\ Pending' = 0
    BY <1>1 DEF Pending, Mid
  <2>2. CASE ~Cpus[bsp.index].started
    BY <1>1, <1>2, <2>1, <2>2, Elements DEF Claim
  <2>3. CASE Cpus[bsp.index].started /\ StartupSuccessCount + 1 = StartupAttemptCount
    <3>1. \A i \in DOMAIN Cpus : IsApplicationProcessor(i) /\ i < bsp.index => Own(i)
      BY <1>1, <2>1, <2>3 DEF Claim
    <3>2. PICK a \in Aps : Entered(a) /\ ap[a].apicId = t
      BY <1>1, <2>3 DEF Marks
    <3>3. PICK i \in DOMAIN Cpus : Cpus[i].apicId = a /\ Reached(i)
      BY <3>2 DEF OutOfReset, Awake, Entered
    <3>4. i = bsp.index
      <4>1. i < bsp.index => Own(i)
        BY <3>1, <3>3 DEF Reached
      <4>2. i < bsp.index => Cpus[i].apicId = t
        BY <3>2, <3>3, <4>1 DEF Own
      <4> QED
        BY <1>1, <3>3, <4>2, Elements DEF Slots, Reached
    <3>5. a = t
      BY <3>3, <3>4
    <3>6. ap[t].stack = bsp.index
      <4>1. Awake(t) /\ HasStack(t) /\ t \in Aps
        BY <3>2, <3>5 DEF Awake, HasStack, Entered
      <4>2. StackFor(ap[t].stack, bsp.index)
        BY <1>1, <4>1 DEF Stacks
      <4> QED
        BY <1>1, <4>1, <4>2, Elements DEF StackFor
    <3>7. Own(bsp.index)
      BY <3>2, <3>5, <3>6 DEF Own
    <3>8. \A j \in DOMAIN Cpus : Own(j) => Own(j)'
      BY <1>1 DEF Own, Entered
    <3>9. \A j \in DOMAIN Cpus : j < bsp'.index => j < bsp.index \/ j = bsp.index
      BY <1>1, Elements
    <3> QED
      BY <1>1, <3>1, <3>7, <3>8, <3>9 DEF Claim, IsApplicationProcessor
  <2> QED
    BY <1>1, <2>1, <2>2, <2>3, Elements DEF Claim
<1>11. Counter'
  BY <1>1 DEF Counter, Parked
<1> QED
  BY <1>3, <1>4, <1>5, <1>6, <1>7, <1>8, <1>9, <1>10, <1>11

-----------------------------------------------------------------------------
(* The application processors.                                             *)

\* A step of an AP that is out of reset: it gets a stack once and an id once,
\* and marks slots only with that id.
Advances(a) ==
    /\ \A b \in Aps \ {a} : ap'[b] = ap[b]
    /\ Awake(a) /\ HasStack(a)'
    /\ ap'[a].stack = IF HasStack(a) THEN ap[a].stack ELSE Trampoline.stack
    /\ Entered(a) => Entered(a)' /\ ap'[a].apicId = ap[a].apicId
    /\ Cpus' \in Seq(CpuRecord) /\ Len(Cpus') = Len(Cpus)
    /\ \A i \in DOMAIN Cpus :
         /\ Cpus'[i].apicId = Cpus[i].apicId /\ Cpus'[i].enabled = Cpus[i].enabled
         /\ Cpus[i].started => Cpus'[i].started
         /\ Cpus'[i].started => \/ Cpus[i].started
                                \/ Entered(a)' /\ ap'[a].apicId = Cpus[i].apicId
    /\ UNCHANGED <<DiscoveryComplete, Trampoline, StartupAttemptCount,
                   StartupSuccessCount, bsp>>

LEMMA AdvancesIInv ==
    ASSUME IInv, NEW a \in Aps, Advances(a), TypeOK', Counter'
    PROVE  IInv'
<1> USE DEF IInv
<1>1. /\ DOMAIN Cpus' = DOMAIN Cpus /\ Len(Cpus') = Len(Cpus)
      /\ DiscoveryComplete' = DiscoveryComplete /\ Trampoline' = Trampoline
      /\ StartupAttemptCount' = StartupAttemptCount
      /\ StartupSuccessCount' = StartupSuccessCount /\ bsp' = bsp
  BY Elements DEF Advances
<1>2. \A i \in DOMAIN Cpus : /\ Cpus'[i].apicId = Cpus[i].apicId
                             /\ IsApplicationProcessor(i)' <=> IsApplicationProcessor(i)
  BY DEF Advances, IsApplicationProcessor
<1>3. \A b \in Aps : /\ Awake(b)' <=> Awake(b)
                     /\ Entered(b) => Entered(b)' /\ ap'[b].apicId = ap[b].apicId
                     /\ HasStack(b) => HasStack(b)' /\ ap'[b].stack = ap[b].stack
                     /\ HasStack(b)' => \/ HasStack(b) /\ ap'[b].stack = ap[b].stack
                                        \/ ap'[b].stack = Trampoline.stack
  BY DEF Advances, Awake, Entered, HasStack
<1>4. Slots'
  BY <1>1, <1>2 DEF Slots
<1>5. Counts'
  BY <1>1 DEF Counts, Pending
<1>6. OutOfReset'
  BY <1>1, <1>2, <1>3 DEF OutOfReset, Reached
<1>7. Stacks'
  <2>1. \A k, i : StackFor(k, i) => StackFor(k, i)'
    BY <1>1, <1>2 DEF StackFor
  <2>2. ASSUME NEW i \in DOMAIN Cpus, Cpus[i].apicId \in Aps, Awake(Cpus[i].apicId)
        PROVE  /\ StackFor(Trampoline.stack, i)'
               /\ HasStack(Cpus[i].apicId)' => StackFor(ap[Cpus[i].apicId].stack, i)'
    <3> DEFINE b == Cpus[i].apicId
    <3>1. Cpus'[i].apicId = b /\ b \in Aps
      BY <1>2, <2>2
    <3>2. StackFor(Trampoline.stack, i) /\ (HasStack(b) => StackFor(ap[b].stack, i))
      BY <2>2 DEF Stacks
    <3>3. StackFor(Trampoline.stack, i)'
      BY <1>1, <2>1, <3>2
    <3>4. HasStack(b) => StackFor(ap[b].stack, i)'
      BY <1>3, <2>1, <3>1, <3>2
    <3> QED
      BY <1>1, <1>3, <3>1, <3>3, <3>4 DEF HasStack
  <2> QED
    BY <1>1, <1>2, <1>3, <2>2 DEF Stacks, Awake, HasStack
<1>8. Marks'
  <2> SUFFICES ASSUME NEW i \in DOMAIN Cpus', IsApplicationProcessor(i)', Cpus'[i].started
               PROVE  \E b \in Aps : Entered(b)' /\ ap'[b].apicId = Cpus'[i].apicId
    BY DEF Marks
  <2>1. CASE Cpus[i].started
    BY <1>1, <1>2, <1>3, <2>1 DEF Marks
  <2>2. CASE Entered(a)' /\ ap'[a].apicId = Cpus[i].apicId
    BY <1>1, <1>2, <2>2
  <2> QED
    BY <1>1, <2>1, <2>2 DEF Advances
<1>9. Successes'
  <2>1. CountedIds \in SUBSET CountedIds' /\ CountedIds' \in SUBSET Aps
    <3>1. CountedIds \subseteq CountedIds'
      BY <1>1, <1>2 DEF CountedIds, Advances
    <3>2. CountedIds' \subseteq Aps
      BY <1>1, <1>2, Elements DEF CountedIds
    <3> QED
      BY <3>1, <3>2
  <2>2. IsFiniteSet(CountedIds') /\ IsFiniteSet(CountedIds)
        /\ Cardinality(CountedIds') \in Nat /\ Cardinality(CountedIds) \in Nat
    BY <2>1, FiniteAps
  <2>3. Cardinality(CountedIds) <= Cardinality(CountedIds')
    BY <2>1, <2>2, FS_Subset
  <2> QED
    BY <1>1, <2>2, <2>3, Elements DEF Successes
<1>10. Claim'
  <2>1. \A i \in DOMAIN Cpus : IsApplicationProcessor(i) /\ Own(i) => Own(i)'
    BY <1>2, <1>3, Elements DEF Own, Entered, HasStack
  <2> QED
    BY <1>1, <1>2, <2>1 DEF Claim, Pending
<1> QED
  BY <1>4, <1>5, <1>6, <1>7, <1>8, <1>9, <1>10

ApRecord == [pc : ApPcs, stack : 0 .. MaxCpus, apicId : Ids \cup {NoIndex},
             counter : Nat]

\* A register file of the right type keeps TypeOK when only it changes.
LEMMA ApTypeOK ==
    ASSUME TypeOK, NEW a \in Aps, NEW r \in ApRecord, ap' = [ap EXCEPT ![a] = r],
           UNCHANGED <<Cpus, DiscoveryComplete, Trampoline, StartedCounter,
                       StartupAttemptCount, StartupSuccessCount, bsp>>
    PROVE  TypeOK' /\ ap'[a] = r /\ \A b \in Aps \ {a} : ap'[b] = ap[b]
BY DEF TypeOK, ApRecord

LEMMA ApReadIInv ==
    ASSUME IInv, NEW a \in Aps, ApReadStack(a) \/ ApReadApicId(a) \/ ApLoadCounter(a)
    PROVE  IInv'
<1> USE DEF IInv
<1> DEFINE r == ap'[a]
<1>1. ap \in [Aps -> ApRecord] /\ ap[a] \in ApRecord /\ StartedCounter \in Nat
      /\ Trampoline.stack \in 0 .. MaxCpus /\ Trampoline.apicId \in Ids \cup {NoIndex}
  BY Elements DEF TypeOK, ApRecord
<1>2. r \in ApRecord /\ ap' = [ap EXCEPT ![a] = r]
      /\ UNCHANGED <<Cpus, DiscoveryComplete, Trampoline, StartedCounter,
                     StartupAttemptCount, StartupSuccessCount, bsp>>
  <2>1. CASE ApReadStack(a)
    BY <1>1, <2>1 DEF ApReadStack, Ap, ApRecord, ApPcs
  <2>2. CASE ApReadApicId(a)
    BY <1>1, <2>2 DEF ApReadApicId, Ap, ApRecord, ApPcs
  <2>3. CASE ApLoadCounter(a)
    BY <1>1, <2>3 DEF ApLoadCounter, Ap, ApRecord, ApPcs
  <2> QED
    BY <2>1, <2>2, <2>3
<1>3. /\ ap[a].pc \in {"trampoline", "haveStack", "marked"}
      /\ r.pc = CASE ap[a].pc = "trampoline" -> "haveStack"
                  [] ap[a].pc = "haveStack" -> "haveId"
                  [] ap[a].pc = "marked" -> "counting"
      /\ r.stack = IF ap[a].pc = "trampoline" THEN Trampoline.stack ELSE ap[a].stack
      /\ ap[a].pc = "marked" => r.apicId = ap[a].apicId /\ r.counter = StartedCounter
  <2>1. CASE ApReadStack(a)
    BY <1>1, <2>1 DEF ApReadStack, Ap
  <2>2. CASE ApReadApicId(a)
    BY <1>1, <2>2 DEF ApReadApicId, Ap
  <2>3. CASE ApLoadCounter(a)
    BY <1>1, <2>3 DEF ApLoadCounter, Ap
  <2> QED
    BY <2>1, <2>2, <2>3
<1>4. TypeOK' /\ \A b \in Aps \ {a} : ap'[b] = ap[b]
  <2> HIDE DEF r
  <2> QED
    BY <1>2, ApTypeOK
<1>5. Advances(a)
  BY <1>2, <1>3, <1>4, Elements DEF Advances, Awake, HasStack, Entered
<1>6. Counter'
  <2>1. Parked' = Parked
    BY <1>3, <1>4 DEF Parked
  <2> QED
    BY <1>2, <1>3, <1>4, <2>1 DEF Counter
<1> QED
  BY <1>4, <1>5, <1>6, AdvancesIInv

LEMMA ApMarkStartedIInv ==
    ASSUME IInv, NEW a \in Aps, ApMarkStarted(a)
    PROVE  IInv'
<1> USE DEF IInv
<1>1. /\ \A b \in Aps \ {a} : ap'[b] = ap[b]
      /\ ap[a].pc = "haveId" /\ ap'[a].pc = "marked" /\ ap'[a].stack = ap[a].stack
      /\ ap'[a].apicId = ap[a].apicId
      /\ ap' \in [Aps -> ApRecord]
      /\ Cpus' = Marked(ap[a].apicId)
      /\ UNCHANGED <<DiscoveryComplete, Trampoline, StartedCounter,
                     StartupAttemptCount, StartupSuccessCount, bsp>>
  BY DEF TypeOK, ApMarkStarted, ApRecord, ApPcs
<1>2. \A i \in DOMAIN Cpus :
        /\ Cpus'[i] \in CpuRecord
        /\ Cpus'[i].apicId = Cpus[i].apicId /\ Cpus'[i].enabled = Cpus[i].enabled
        /\ Cpus'[i].started = (Cpus[i].started \/ Cpus[i].apicId = ap[a].apicId)
  <2> SUFFICES ASSUME NEW i \in DOMAIN Cpus
               PROVE  /\ Cpus'[i] \in CpuRecord
                      /\ Cpus'[i].apicId = Cpus[i].apicId
                      /\ Cpus'[i].enabled = Cpus[i].enabled
                      /\ Cpus'[i].started = (Cpus[i].started \/ Cpus[i].apicId = ap[a].apicId)
    OBVIOUS
  <2>1. Cpus[i] \in CpuRecord
    BY Elements
  <2>2. Cpus'[i] = IF Cpus[i].apicId = ap[a].apicId
                   THEN [Cpus[i] EXCEPT !.started = TRUE] ELSE Cpus[i]
    BY <1>1 DEF Marked
  <2> QED
    BY <2>1, <2>2 DEF CpuRecord
<1>3. Cpus' \in [1 .. Len(Cpus) -> CpuRecord]
  BY <1>1, <1>2, Elements DEF Marked
<1>4. Cpus' \in Seq(CpuRecord) /\ Len(Cpus') = Len(Cpus)
  BY <1>3, Elements, FunctionIsSeq
<1>5. TypeOK'
  BY <1>1, <1>4 DEF TypeOK, CpuRecord, ApRecord
<1>6. Advances(a)
  BY <1>1, <1>2, <1>4 DEF Advances, Awake, HasStack, Entered
<1>7. Counter'
  <2>1. Parked' = Parked
    BY <1>1 DEF Parked
  <2> QED
    BY <1>1, <2>1 DEF Counter
<1> QED
  BY <1>5, <1>6, <1>7, AdvancesIInv

\* The store may lose the updates of others; it never counts more than are
\* parked with this one.
LEMMA ApStoreCounterIInv ==
    ASSUME IInv, NEW a \in Aps, ApStoreCounter(a)
    PROVE  IInv'
<1> USE DEF IInv
<1>1. /\ \A b \in Aps \ {a} : ap'[b] = ap[b]
      /\ ap[a].pc = "counting" /\ ap'[a].pc = "parked" /\ ap'[a].stack = ap[a].stack
      /\ ap'[a].apicId = ap[a].apicId
      /\ ap' \in [Aps -> ApRecord]
      /\ StartedCounter' = ap[a].counter + 1
      /\ UNCHANGED <<Cpus, DiscoveryComplete, Trampoline,
                     StartupAttemptCount, StartupSuccessCount, bsp>>
  BY DEF TypeOK, ApStoreCounter, ApRecord, ApPcs
<1>2. Parked \in SUBSET Aps /\ Parked' \in SUBSET Aps /\ a \notin Parked
      /\ Parked' = Parked \cup {a}
  BY <1>1 DEF Parked
<1>3. Cardinality(Parked') = Cardinality(Parked) + 1 /\ Cardinality(Parked) \in Nat
      /\ Cardinality(Parked') <= Cardinality(Aps) /\ Cardinality(Aps) \in Nat
  BY <1>2, FiniteAps, FS_AddElement
<1>4. StartedCounter' <= Cardinality(Parked') /\ StartedCounter' \in Nat
  <2>1. ap[a].counter \in Nat /\ ap[a].counter <= Cardinality(Parked)
    BY <1>1, Elements DEF Counter
  <2> QED
    BY <1>1, <1>3, <2>1
<1>5. TypeOK'
  <2>1. StartedCounter' \in 0 .. Cardinality(Aps)
    BY <1>3, <1>4
  <2> QED
    BY <1>1, <2>1 DEF TypeOK, ApRecord
<1>6. Counter'
  <2>1. \A b \in Aps : ap'[b].pc = "counting" => b # a /\ ap'[b] = ap[b]
    BY <1>1
  <2>2. \A b \in Aps : ap'[b].pc = "counting" => ap'[b].counter <= Cardinality(Parked')
    BY <1>3, <2>1, Elements DEF Counter
  <2> QED
    BY <1>4, <2>2 DEF Counter
<1>7. Advances(a)
  BY <1>1, Elements DEF Advances, Awake, HasStack, Entered
<1> QED
  BY <1>5, <1>6, <1>7, AdvancesIInv

-----------------------------------------------------------------------------

LEMMA NextIInv ==
    ASSUME IInv, [Next]_vars
    PROVE  IInv'
<1>1. CASE Next
  <2>1. CASE \E madt \in Madts : Discover(madt)
    BY <2>1, DiscoverIInv
  <2>2. CASE \E madt \in Madts, canStart \in BOOLEAN : SmpInit(madt, canStart)
    BY <2>2, SmpInitIInv
  <2>3. CASE BspStep
    BY <2>3, SkipCpuIInv, AttemptCpuIInv, LoopEndsIInv, PatchIInv, SendInitIpiIInv,
       SendStartupIpiIInv, WaitIInv, CountCpuIInv DEF BspStep
  <2>4. CASE \E a \in Aps : ApStep(a)
    BY <2>4, ApReadIInv, ApMarkStartedIInv, ApStoreCounterIInv DEF ApStep
  <2> QED
    BY <1>1, <2>1, <2>2, <2>3, <2>4 DEF Next
<1>2. CASE UNCHANGED vars
  BY <1>2 DEF vars, IInv, TypeOK, Slots, Counts, Pending, OutOfReset, Reached, Awake,
              Stacks, StackFor, HasStack, Marks, Entered, Successes, CountedIds, Claim,
              Own, Counter, Parked, IsApplicationProcessor
<1> QED
  BY <1>1, <1>2

\* The invariant says what the reports of the BSP need.
LEMMA IInvSound == IInv => StartsAccounted
<1> SUFFICES ASSUME IInv PROVE StartsAccounted
  OBVIOUS
<1> USE DEF IInv
<1>1. SuccessesAreReal
  <2> DEFINE f == [a \in EnteredAps |-> ap[a].apicId]
             T == {ap[a].apicId : a \in EnteredAps}
  <2>1. IsFiniteSet(EnteredAps) /\ Cardinality(EnteredAps) \in Nat
    BY FiniteAps DEF EnteredAps
  <2>2. f \in Surjection(EnteredAps, T)
    BY DEF Surjection
  <2>3. IsFiniteSet(T) /\ Cardinality(T) <= Cardinality(EnteredAps)
    BY <2>1, <2>2, FS_Surjection
  <2>4. CountedIds \in SUBSET T
    BY DEF CountedIds, Marks, EnteredAps
  <2>5. Cardinality(CountedIds) <= Cardinality(T) /\ IsFiniteSet(CountedIds)
    BY <2>3, <2>4, FS_Subset
  <2>6. Cardinality(T) \in Nat /\ Cardinality(CountedIds) \in Nat
    BY <2>3, <2>5, FS_CardinalityType
  <2> QED
    BY <2>1, <2>3, <2>5, <2>6, Elements DEF Successes, SuccessesAreReal
<1>2. ClaimIsSound
  BY Elements DEF Claim, ClaimIsSound, Pending, Mid, Own
<1>3. StacksOfAttempted
  <2> SUFFICES ASSUME NEW a \in Aps, HasStack(a)
               PROVE  /\ ap[a].stack \in DOMAIN Cpus
                      /\ IsApplicationProcessor(ap[a].stack)
                      /\ bsp.pc # "idle" => ap[a].stack <= bsp.index
    BY DEF StacksOfAttempted
  <2>1. Awake(a)
    BY DEF Awake, HasStack
  <2>2. PICK i \in DOMAIN Cpus : Cpus[i].apicId = a
    BY <2>1 DEF OutOfReset
  <2>3. StackFor(ap[a].stack, i)
    BY <2>1, <2>2 DEF Stacks
  <2> QED
    BY <2>3 DEF StackFor
<1> QED
  BY <1>1, <1>2, <1>3 DEF StartsAccounted

LEMMA InvariantHolds == Spec => []IInv
BY InitIInv, NextIInv, PTL DEF Spec

\* What OrynKernelSmpInit counts and reports is true for every table of CPUs:
\* successes are processors that run, a run without failures left every one of
\* them with its own id and stack, and no AP is on a stack that was not prepared.
THEOREM StartsAlwaysAccounted == Spec => []StartsAccounted
BY InvariantHolds, IInvSound, PTL

\* A processor that has its stack is never reset and never loses it: INIT is
\* sent to each processor at most once, before it runs.
THEOREM NeverRestartedHolds == Spec => NeverRestarted
<1>1. ASSUME IInv, [Next]_vars, NEW a \in Aps, HasStack(a)
      PROVE  HasStack(a)' /\ ap'[a].stack = ap[a].stack
  <2>1. ap \in [Aps -> ApRecord]
    BY <1>1 DEF IInv, TypeOK, ApRecord
  <2>2. CASE SendInitIpi
    <3>1. bsp.pc \in Mid /\ bsp.pc \notin Sent
      BY <2>2 DEF SendInitIpi, Mid, Sent
    <3>2. a # Cpus[bsp.index].apicId
      BY <1>1, <3>1, Target DEF HasStack, InReset
    <3> QED
      BY <1>1, <2>1, <2>2, <3>2 DEF SendInitIpi, HasStack
  <2>3. CASE SendStartupIpi
    BY <1>1, <2>1, <2>3 DEF SendStartupIpi, AfterStartup, HasStack, ApRecord
  <2>4. CASE UNCHANGED ap
    BY <1>1, <2>4 DEF HasStack
  <2>5. CASE \E b \in Aps : ApStep(b)
    <3>1. PICK b \in Aps : ApStep(b)
      BY <2>5
    <3>2. CASE b # a
      BY <1>1, <2>1, <3>1, <3>2 DEF ApStep, ApReadStack, ApReadApicId, ApMarkStarted,
                                    ApLoadCounter, ApStoreCounter, HasStack
    <3>3. CASE b = a
      BY <1>1, <2>1, <3>1, <3>3 DEF ApStep, ApReadStack, ApReadApicId, ApMarkStarted,
                       ApLoadCounter, ApStoreCounter, HasStack, Ap, ApRecord
    <3> QED
      BY <3>2, <3>3
  <2> QED
    BY <1>1, <2>2, <2>3, <2>4, <2>5 DEF Next, vars, BspStep, Discover, SmpInit, SkipCpu,
       AttemptCpu, LoopEnds, PatchStack, PatchApicId, WaitForCpu, WaitRunsOut, CountCpu
<1>2. ASSUME IInv, [Next]_vars
      PROVE  [\A a \in Aps : HasStack(a) => /\ HasStack(a)'
                                            /\ ap'[a].stack = ap[a].stack]_vars
  BY <1>1, <1>2
<1> QED
  BY <1>2, InvariantHolds, PTL DEF Spec, NeverRestarted
=============================================================================
