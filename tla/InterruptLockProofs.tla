------------------------- MODULE InterruptLockProofs -------------------------
(***************************************************************************)
(* The interrupt lock is safe for every set of CPUs.                       *)
(***************************************************************************)
EXTENDS InterruptLock, TLAPS

\* The points at which a context is deaf to interrupts.
Masked == Holding \cup {"exchange", "tryExchange", "giveUp", "restore"}

\* The lock word is set exactly while some context is between the exchange that
\* won and the store of Release.
LockWord == Locked <=> \E x \in Contexts : pc[x] \in Holding

\* An interrupt context exists only while its CPU runs it, with the flag off,
\* on top of a task that had interrupts enabled.
InterruptState ==
    \A x \in Contexts :
        /\ inInterrupt[x[1]] => ~IF_[x[1]]
        /\ inInterrupt[x[1]] /\ x[2] = "task" => pc[x] \notin Masked
        /\ ~inInterrupt[x[1]] /\ x[2] = "irq" => pc[x] = "outside"

\* The flag to bring back travels from the local of Acquire through the lock
\* to the local of Release unchanged.
SavedFlag ==
    \A x \in Contexts :
        /\ pc[x] # "outside" => wasEnabled[x] = before[x]
        /\ pc[x] # "outside" /\ x[2] = "irq" => before[x] = FALSE
        /\ pc[x] = "critical" => SavedInterruptState = before[x]
        /\ pc[x] \in {"unlock", "restore"} => restore[x] = before[x]

\* The inductive invariant.
IInv ==
    /\ TypeOK
    /\ LockWord
    /\ MutualExclusion
    /\ HolderUninterrupted
    /\ InterruptState
    /\ SavedFlag

\* Initially nobody is inside the lock functions.
LEMMA InitIInv == Init => IInv
BY DEF Init, IInv, TypeOK, LockWord, MutualExclusion, HolderUninterrupted, InterruptState,
       SavedFlag, Holding, Masked, Points, Contexts, Levels, Cpu, Running

USE DEF Contexts, Levels, Cpu, Running, Holding, Masked, Points

\* A context is its CPU and its level.
LEMMA ContextPair ==
    /\ \A x \in Contexts : x[1] \in Cpus /\ x[2] \in {"task", "irq"}
    /\ \A x, y \in Contexts : x[1] = y[1] /\ x[2] = y[2] => x = y
    /\ \A c \in Cpus : <<c, "irq">> \in Contexts /\ <<c, "task">> \in Contexts
OBVIOUS

\* Calling Acquire or TryAcquire reads the flag and changes nothing else.
LEMMA ReadFlagIInv ==
    ASSUME IInv, NEW x \in Contexts, NEW next \in {"disable", "tryDisable"}, ReadFlag(x, next)
    PROVE  IInv'
<1>1. TypeOK'
  BY ContextPair DEF IInv, TypeOK, ReadFlag
<1>2. LockWord'
  BY ContextPair DEF IInv, TypeOK, LockWord, MutualExclusion, ReadFlag
<1>3. MutualExclusion'
  BY ContextPair DEF IInv, TypeOK, LockWord, MutualExclusion, ReadFlag
<1>4. HolderUninterrupted'
  BY ContextPair DEF IInv, TypeOK, HolderUninterrupted, InterruptState, ReadFlag
<1>5. InterruptState'
  BY ContextPair DEF IInv, TypeOK, HolderUninterrupted, InterruptState, SavedFlag, ReadFlag
<1>6. SavedFlag'
  BY ContextPair DEF IInv, TypeOK, MutualExclusion, InterruptState, SavedFlag, ReadFlag
<1> QED BY <1>1, <1>2, <1>3, <1>4, <1>5, <1>6 DEF IInv

\* The flag goes off before the lock word is touched.
LEMMA DisableFlagIInv ==
    ASSUME IInv, NEW x \in Contexts, DisableFlag(x)
    PROVE  IInv'
<1>1. TypeOK'
  BY ContextPair DEF IInv, TypeOK, DisableFlag
<1>2. LockWord'
  BY ContextPair DEF IInv, TypeOK, LockWord, MutualExclusion, DisableFlag
<1>3. MutualExclusion'
  BY ContextPair DEF IInv, TypeOK, LockWord, MutualExclusion, DisableFlag
<1>4. HolderUninterrupted'
  BY ContextPair DEF IInv, TypeOK, HolderUninterrupted, InterruptState, DisableFlag
<1>5. InterruptState'
  BY ContextPair DEF IInv, TypeOK, HolderUninterrupted, InterruptState, SavedFlag, DisableFlag
<1>6. SavedFlag'
  BY ContextPair DEF IInv, TypeOK, MutualExclusion, InterruptState, SavedFlag, DisableFlag
<1> QED BY <1>1, <1>2, <1>3, <1>4, <1>5, <1>6 DEF IInv

\* The exchange that reads 0 makes its context the only holder.
LEMMA ExchangeWinsIInv ==
    ASSUME IInv, NEW x \in Contexts, ExchangeWins(x)
    PROVE  IInv'
<1>1. TypeOK'
  BY ContextPair DEF IInv, TypeOK, ExchangeWins
<1>2. LockWord'
  BY ContextPair DEF IInv, TypeOK, LockWord, MutualExclusion, ExchangeWins
<1>3. MutualExclusion'
  BY ContextPair DEF IInv, TypeOK, LockWord, MutualExclusion, ExchangeWins
<1>4. HolderUninterrupted'
  BY ContextPair DEF IInv, TypeOK, HolderUninterrupted, InterruptState, ExchangeWins
<1>5. InterruptState'
  BY ContextPair DEF IInv, TypeOK, HolderUninterrupted, InterruptState, SavedFlag, ExchangeWins
<1>6. SavedFlag'
  BY ContextPair DEF IInv, TypeOK, MutualExclusion, InterruptState, SavedFlag, ExchangeWins
<1> QED BY <1>1, <1>2, <1>3, <1>4, <1>5, <1>6 DEF IInv

\* A failed exchange changes nothing but the point of its context.
LEMMA ExchangeLosesIInv ==
    ASSUME IInv, NEW x \in Contexts, ExchangeLoses(x)
    PROVE  IInv'
<1>1. TypeOK'
  BY ContextPair DEF IInv, TypeOK, ExchangeLoses
<1>2. LockWord'
  BY ContextPair DEF IInv, TypeOK, LockWord, MutualExclusion, ExchangeLoses
<1>3. MutualExclusion'
  BY ContextPair DEF IInv, TypeOK, LockWord, MutualExclusion, ExchangeLoses
<1>4. HolderUninterrupted'
  BY ContextPair DEF IInv, TypeOK, HolderUninterrupted, InterruptState, ExchangeLoses
<1>5. InterruptState'
  BY ContextPair DEF IInv, TypeOK, HolderUninterrupted, InterruptState, SavedFlag, ExchangeLoses
<1>6. SavedFlag'
  BY ContextPair DEF IInv, TypeOK, MutualExclusion, InterruptState, SavedFlag, ExchangeLoses
<1> QED BY <1>1, <1>2, <1>3, <1>4, <1>5, <1>6 DEF IInv

\* A failed TryAcquire brings back the flag it read.
LEMMA GiveUpIInv ==
    ASSUME IInv, NEW x \in Contexts, GiveUp(x)
    PROVE  IInv'
<1>1. TypeOK'
  BY ContextPair DEF IInv, TypeOK, GiveUp
<1>2. LockWord'
  BY ContextPair DEF IInv, TypeOK, LockWord, MutualExclusion, GiveUp
<1>3. MutualExclusion'
  BY ContextPair DEF IInv, TypeOK, LockWord, MutualExclusion, GiveUp
<1>4. HolderUninterrupted'
  BY ContextPair DEF IInv, TypeOK, HolderUninterrupted, InterruptState, GiveUp
<1>5. InterruptState'
  BY ContextPair DEF IInv, TypeOK, HolderUninterrupted, InterruptState, SavedFlag, GiveUp
<1>6. SavedFlag'
  BY ContextPair DEF IInv, TypeOK, MutualExclusion, InterruptState, SavedFlag, GiveUp
<1> QED BY <1>1, <1>2, <1>3, <1>4, <1>5, <1>6 DEF IInv

\* The new holder records the flag it read; nobody else holds the lock.
LEMMA RecordStateIInv ==
    ASSUME IInv, NEW x \in Contexts, RecordState(x)
    PROVE  IInv'
<1>1. TypeOK'
  BY ContextPair DEF IInv, TypeOK, RecordState
<1>2. LockWord'
  BY ContextPair DEF IInv, TypeOK, LockWord, MutualExclusion, RecordState
<1>3. MutualExclusion'
  BY ContextPair DEF IInv, TypeOK, LockWord, MutualExclusion, RecordState
<1>4. HolderUninterrupted'
  BY ContextPair DEF IInv, TypeOK, HolderUninterrupted, InterruptState, RecordState
<1>5. InterruptState'
  BY ContextPair DEF IInv, TypeOK, HolderUninterrupted, InterruptState, SavedFlag, RecordState
<1>6. SavedFlag'
  BY ContextPair DEF IInv, TypeOK, MutualExclusion, InterruptState, SavedFlag, RecordState
<1> QED BY <1>1, <1>2, <1>3, <1>4, <1>5, <1>6 DEF IInv

\* Release finds the lock locked and reads what its own Acquire recorded.
LEMMA ReadSavedIInv ==
    ASSUME IInv, NEW x \in Contexts, ReadSaved(x)
    PROVE  IInv'
<1>1. TypeOK'
  BY ContextPair DEF IInv, TypeOK, ReadSaved
<1>2. LockWord'
  BY ContextPair DEF IInv, TypeOK, LockWord, MutualExclusion, ReadSaved
<1>3. MutualExclusion'
  BY ContextPair DEF IInv, TypeOK, LockWord, MutualExclusion, ReadSaved
<1>4. HolderUninterrupted'
  BY ContextPair DEF IInv, TypeOK, HolderUninterrupted, InterruptState, ReadSaved
<1>5. InterruptState'
  BY ContextPair DEF IInv, TypeOK, HolderUninterrupted, InterruptState, SavedFlag, ReadSaved
<1>6. SavedFlag'
  BY ContextPair DEF IInv, TypeOK, MutualExclusion, InterruptState, SavedFlag, ReadSaved
<1> QED BY <1>1, <1>2, <1>3, <1>4, <1>5, <1>6 DEF IInv

\* The store of Release ends the only holder's ownership.
LEMMA UnlockIInv ==
    ASSUME IInv, NEW x \in Contexts, Unlock(x)
    PROVE  IInv'
<1>1. TypeOK'
  BY ContextPair DEF IInv, TypeOK, Unlock
<1>2. LockWord'
  BY ContextPair DEF IInv, TypeOK, LockWord, MutualExclusion, Unlock
<1>3. MutualExclusion'
  BY ContextPair DEF IInv, TypeOK, LockWord, MutualExclusion, Unlock
<1>4. HolderUninterrupted'
  BY ContextPair DEF IInv, TypeOK, HolderUninterrupted, InterruptState, Unlock
<1>5. InterruptState'
  BY ContextPair DEF IInv, TypeOK, HolderUninterrupted, InterruptState, SavedFlag, Unlock
<1>6. SavedFlag'
  BY ContextPair DEF IInv, TypeOK, MutualExclusion, InterruptState, SavedFlag, Unlock
<1> QED BY <1>1, <1>2, <1>3, <1>4, <1>5, <1>6 DEF IInv

\* Release brings the flag back after the store.
LEMMA RestoreFlagIInv ==
    ASSUME IInv, NEW x \in Contexts, RestoreFlag(x)
    PROVE  IInv'
<1>1. TypeOK'
  BY ContextPair DEF IInv, TypeOK, RestoreFlag
<1>2. LockWord'
  BY ContextPair DEF IInv, TypeOK, LockWord, MutualExclusion, RestoreFlag
<1>3. MutualExclusion'
  BY ContextPair DEF IInv, TypeOK, LockWord, MutualExclusion, RestoreFlag
<1>4. HolderUninterrupted'
  BY ContextPair DEF IInv, TypeOK, HolderUninterrupted, InterruptState, RestoreFlag
<1>5. InterruptState'
  BY ContextPair DEF IInv, TypeOK, HolderUninterrupted, InterruptState, SavedFlag, RestoreFlag
<1>6. SavedFlag'
  BY ContextPair DEF IInv, TypeOK, MutualExclusion, InterruptState, SavedFlag, RestoreFlag
<1> QED BY <1>1, <1>2, <1>3, <1>4, <1>5, <1>6 DEF IInv

\* An interrupt is taken with the flag on, so outside the masked points.
LEMMA InterruptIInv ==
    ASSUME IInv, NEW c \in Cpus, Interrupt(c)
    PROVE  IInv'
<1>1. TypeOK'
  BY ContextPair DEF IInv, TypeOK, Interrupt
<1>2. LockWord'
  BY ContextPair DEF IInv, TypeOK, LockWord, MutualExclusion, Interrupt
<1>3. MutualExclusion'
  BY ContextPair DEF IInv, TypeOK, LockWord, MutualExclusion, Interrupt
<1>4. HolderUninterrupted'
  <2> SUFFICES ASSUME NEW y \in Contexts, pc'[y] \in Masked
               PROVE  ~IF_'[Cpu(y)] /\ (inInterrupt'[Cpu(y)] = (y[2] = "irq"))
    BY DEF HolderUninterrupted
  <2>1. pc'[y] = pc[y]
    BY DEF Interrupt
  <2>2. ~IF_[Cpu(y)] /\ Running(y)
    BY <2>1 DEF IInv, HolderUninterrupted
  <2>3. Cpu(y) # c
    BY <2>2 DEF Interrupt
  <2> QED BY <2>2, <2>3, ContextPair DEF IInv, TypeOK, Interrupt
<1>5. InterruptState'
  BY ContextPair DEF IInv, TypeOK, HolderUninterrupted, InterruptState, SavedFlag, Interrupt
<1>6. SavedFlag'
  BY ContextPair DEF IInv, TypeOK, MutualExclusion, InterruptState, SavedFlag, Interrupt
<1> QED BY <1>1, <1>2, <1>3, <1>4, <1>5, <1>6 DEF IInv

\* An interrupt context ends outside the lock functions.
LEMMA ReturnFromInterruptIInv ==
    ASSUME IInv, NEW c \in Cpus, ReturnFromInterrupt(c)
    PROVE  IInv'
<1>1. TypeOK'
  BY ContextPair DEF IInv, TypeOK, ReturnFromInterrupt
<1>2. LockWord'
  BY ContextPair DEF IInv, TypeOK, LockWord, MutualExclusion, ReturnFromInterrupt
<1>3. MutualExclusion'
  BY ContextPair DEF IInv, TypeOK, LockWord, MutualExclusion, ReturnFromInterrupt
<1>4. HolderUninterrupted'
  <2> SUFFICES ASSUME NEW y \in Contexts, pc'[y] \in Masked
               PROVE  ~IF_'[Cpu(y)] /\ (inInterrupt'[Cpu(y)] = (y[2] = "irq"))
    BY DEF HolderUninterrupted
  <2>1. pc'[y] = pc[y]
    BY DEF ReturnFromInterrupt
  <2>2. ~IF_[Cpu(y)] /\ Running(y)
    BY <2>1 DEF IInv, HolderUninterrupted
  <2>3. ASSUME Cpu(y) = c PROVE FALSE
    <3>1. y[2] = "irq"
      BY <2>2, <2>3 DEF ReturnFromInterrupt
    <3>2. y = <<c, "irq">>
      BY <3>1, <2>3, ContextPair
    <3> QED BY <2>1, <3>2 DEF ReturnFromInterrupt
  <2> QED BY <2>2, <2>3, ContextPair DEF IInv, TypeOK, ReturnFromInterrupt
<1>5. InterruptState'
  BY ContextPair DEF IInv, TypeOK, HolderUninterrupted, InterruptState, SavedFlag, ReturnFromInterrupt
<1>6. SavedFlag'
  BY ContextPair DEF IInv, TypeOK, MutualExclusion, InterruptState, SavedFlag, ReturnFromInterrupt
<1> QED BY <1>1, <1>2, <1>3, <1>4, <1>5, <1>6 DEF IInv

\* Code outside the lock functions may switch the flag.
LEMMA SetFlagIInv ==
    ASSUME IInv, NEW c \in Cpus, SetFlag(c)
    PROVE  IInv'
<1>1. TypeOK'
  BY ContextPair DEF IInv, TypeOK, SetFlag
<1>2. LockWord'
  BY ContextPair DEF IInv, TypeOK, LockWord, MutualExclusion, SetFlag
<1>3. MutualExclusion'
  BY ContextPair DEF IInv, TypeOK, LockWord, MutualExclusion, SetFlag
<1>4. HolderUninterrupted'
  BY ContextPair DEF IInv, TypeOK, HolderUninterrupted, InterruptState, SetFlag
<1>5. InterruptState'
  BY ContextPair DEF IInv, TypeOK, HolderUninterrupted, InterruptState, SavedFlag, SetFlag
<1>6. SavedFlag'
  BY ContextPair DEF IInv, TypeOK, MutualExclusion, InterruptState, SavedFlag, SetFlag
<1> QED BY <1>1, <1>2, <1>3, <1>4, <1>5, <1>6 DEF IInv

-----------------------------------------------------------------------------
\* Every step of the lock keeps the invariant.
LEMMA NextIInv == IInv /\ [Next]_vars => IInv'
<1> SUFFICES ASSUME IInv, [Next]_vars PROVE IInv'
  OBVIOUS
<1>1. ASSUME NEW x \in Contexts, Acquire(x) \/ TryAcquire(x) PROVE IInv'
  BY <1>1, ReadFlagIInv DEF Acquire, TryAcquire
<1>2. ASSUME NEW x \in Contexts, Step(x) PROVE IInv'
  BY <1>2, DisableFlagIInv, ExchangeWinsIInv, ExchangeLosesIInv, GiveUpIInv, RecordStateIInv,
     ReadSavedIInv, UnlockIInv, RestoreFlagIInv DEF Step
<1>3. ASSUME NEW c \in Cpus, Interrupt(c) \/ ReturnFromInterrupt(c) \/ SetFlag(c) PROVE IInv'
  BY <1>3, InterruptIInv, ReturnFromInterruptIInv, SetFlagIInv
<1>4. ASSUME UNCHANGED vars PROVE IInv'
  BY <1>4 DEF vars, IInv, TypeOK, LockWord, MutualExclusion, HolderUninterrupted,
              InterruptState, SavedFlag
<1> QED BY <1>1, <1>2, <1>3, <1>4 DEF Next

\* The inductive invariant holds throughout.
THEOREM Invariance == Spec => []IInv
BY InitIInv, NextIInv, PTL DEF Spec

\* The lock's state keeps its type.
THEOREM TypeCorrect == Spec => []TypeOK
<1>1. IInv => TypeOK
  BY DEF IInv
<1> QED BY <1>1, Invariance, PTL

\* On any number of CPUs, with interrupts arriving at any moment, at most one
\* context is between Acquire and Release.
THEOREM Serialized == Spec => []MutualExclusion
<1>1. IInv => MutualExclusion
  BY DEF IInv
<1> QED BY <1>1, Invariance, PTL

\* Waiting for the lock and holding it is never interrupted.
THEOREM Uninterrupted == Spec => []HolderUninterrupted
<1>1. IInv => HolderUninterrupted
  BY DEF IInv
<1> QED BY <1>1, Invariance, PTL

\* An interrupt handler never spins for a lock that its own CPU's task holds.
THEOREM SelfDeadlockFree == Spec => []NoSelfDeadlock
<1>1. IInv => NoSelfDeadlock
  <2> SUFFICES ASSUME IInv, NEW c \in Cpus, pc[<<c, "irq">>] \in {"exchange", "tryExchange"},
                      pc[<<c, "task">>] \in Holding
               PROVE  FALSE
    BY DEF NoSelfDeadlock
  <2>1. <<c, "irq">> \in Contexts /\ <<c, "task">> \in Contexts
    BY ContextPair
  <2>2. Running(<<c, "irq">>) /\ Running(<<c, "task">>)
    BY <2>1 DEF IInv, HolderUninterrupted
  <2> QED BY <2>2
<1> QED BY <1>1, Invariance, PTL

\* The lock functions leave the interrupt flag as they found it.
THEOREM FlagAlwaysRestored == Spec => FlagRestored
<1> DEFINE Restored == \A x \in Contexts :
               pc[x] # "outside" /\ pc'[x] = "outside" => IF_'[Cpu(x)] = before[x]
<1>1. IInv /\ [Next]_vars => [Restored]_vars
  <2> SUFFICES ASSUME IInv, Next, NEW x \in Contexts, pc[x] # "outside", pc'[x] = "outside"
               PROVE  IF_'[Cpu(x)] = before[x]
    OBVIOUS
  <2>1. \A y \in Contexts : ~Acquire(y) /\ ~TryAcquire(y)
    BY DEF Acquire, TryAcquire, ReadFlag, IInv, TypeOK
  <2>2. ~\E c \in Cpus : Interrupt(c) \/ ReturnFromInterrupt(c) \/ SetFlag(c)
    BY DEF Interrupt, ReturnFromInterrupt, SetFlag
  <2>3. PICK y \in Contexts : Step(y)
    BY <2>1, <2>2 DEF Next
  <2>4. y = x /\ (GiveUp(x) \/ RestoreFlag(x))
    BY <2>3 DEF Step, DisableFlag, ExchangeWins, ExchangeLoses, GiveUp, RecordState, ReadSaved,
                Unlock, RestoreFlag, IInv, TypeOK, LockWord
  <2>5. ~IF_[Cpu(x)]
    BY <2>4 DEF GiveUp, RestoreFlag, IInv, HolderUninterrupted
  <2>6. CASE GiveUp(x)
    BY <2>5, <2>6, ContextPair DEF GiveUp, IInv, TypeOK, SavedFlag
  <2>7. CASE RestoreFlag(x)
    BY <2>5, <2>7, ContextPair DEF RestoreFlag, IInv, TypeOK, SavedFlag
  <2> QED BY <2>4, <2>6, <2>7
<1>2. Spec => [][Restored]_vars
  BY <1>1, Invariance, PTL DEF Spec
<1> QED BY <1>2 DEF FlagRestored
=============================================================================
