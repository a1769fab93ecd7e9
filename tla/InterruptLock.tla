---------------------------- MODULE InterruptLock ----------------------------
(***************************************************************************)
(* The interrupt-safe spin lock (KernelInterruptLock.c) and the interrupt  *)
(* flag it saves and restores (KernelInterrupts.c).                        *)
(*                                                                         *)
(* Each CPU runs a task context and, on top of it, at most one interrupt   *)
(* context: the IDT holds interrupt gates only, so a handler starts with   *)
(* interrupts disabled and nothing in the kernel enables them inside one.  *)
(* One step is one access to the flag or to the lock word.  The saved flag *)
(* lives in the lock, not on the stack of its holder.                      *)
(***************************************************************************)
EXTENDS Integers, FiniteSets

CONSTANT Cpus

Levels == {"task", "irq"}
Contexts == Cpus \X Levels

VARIABLES
    IF_,                  \* the interrupt flag of each CPU (RFLAGS.IF)
    inInterrupt,          \* the CPU runs its interrupt context
    Locked,               \* lock->Locked
    SavedInterruptState,  \* lock->SavedInterruptState
    pc,                   \* where each context is inside the lock functions
    wasEnabled,           \* local of Acquire and TryAcquire
    restore,              \* local of Release
    before                \* history: IF when the context called Acquire or TryAcquire

vars == <<IF_, inInterrupt, Locked, SavedInterruptState, pc, wasEnabled, restore, before>>

Cpu(x) == x[1]
\* A CPU executes its interrupt context while it has one, else its task.
Running(x) == inInterrupt[Cpu(x)] = (x[2] = "irq")

\* The lock word belongs to the context at one of these points.
Holding == {"record", "critical", "unlock"}

Init ==
    /\ IF_ \in [Cpus -> BOOLEAN]
    /\ inInterrupt = [c \in Cpus |-> FALSE]
    /\ Locked = FALSE
    /\ SavedInterruptState = FALSE
    /\ pc = [x \in Contexts |-> "outside"]
    /\ wasEnabled = [x \in Contexts |-> FALSE]
    /\ restore = [x \in Contexts |-> FALSE]
    /\ before = [x \in Contexts |-> FALSE]

-----------------------------------------------------------------------------
(* Acquire and TryAcquire *)

\* wasEnabled = OrynKernelInterruptsAreEnabled()
ReadFlag(x, next) ==
    /\ Running(x)
    /\ pc[x] = "outside"
    /\ wasEnabled' = [wasEnabled EXCEPT ![x] = IF_[Cpu(x)]]
    /\ before' = [before EXCEPT ![x] = IF_[Cpu(x)]]
    /\ pc' = [pc EXCEPT ![x] = next]
    /\ UNCHANGED <<IF_, inInterrupt, Locked, SavedInterruptState, restore>>

Acquire(x) == ReadFlag(x, "disable")
TryAcquire(x) == ReadFlag(x, "tryDisable")

\* Mutants of DisableFlag: interrupts stay on, or the flag is saved in the lock
\* before the lock is owned.
DisableNothing(x) ==
    /\ Running(x)
    /\ pc[x] \in {"disable", "tryDisable"}
    /\ pc' = [pc EXCEPT ![x] = IF pc[x] = "disable" THEN "exchange" ELSE "tryExchange"]
    /\ UNCHANGED <<IF_, inInterrupt, Locked, SavedInterruptState, wasEnabled, restore, before>>

DisableAndSave(x) ==
    /\ Running(x)
    /\ pc[x] \in {"disable", "tryDisable"}
    /\ IF_' = [IF_ EXCEPT ![Cpu(x)] = FALSE]
    /\ SavedInterruptState' = wasEnabled[x]
    /\ pc' = [pc EXCEPT ![x] = IF pc[x] = "disable" THEN "exchange" ELSE "tryExchange"]
    /\ UNCHANGED <<inInterrupt, Locked, wasEnabled, restore, before>>

\* OrynKernelInterruptsDisable()
DisableFlag(x) ==
    /\ Running(x)
    /\ pc[x] \in {"disable", "tryDisable"}
    /\ IF_' = [IF_ EXCEPT ![Cpu(x)] = FALSE]
    /\ pc' = [pc EXCEPT ![x] = IF pc[x] = "disable" THEN "exchange" ELSE "tryExchange"]
    /\ UNCHANGED <<inInterrupt, Locked, SavedInterruptState, wasEnabled, restore, before>>

\* Mutant of ExchangeWins: the value read is not looked at.
ExchangeAlways(x) ==
    /\ Running(x)
    /\ pc[x] \in {"exchange", "tryExchange"}
    /\ Locked' = TRUE
    /\ pc' = [pc EXCEPT ![x] = "record"]
    /\ UNCHANGED <<IF_, inInterrupt, SavedInterruptState, wasEnabled, restore, before>>

\* The exchange stores 1 in either case; it owns the lock if it read 0.
ExchangeWins(x) ==
    /\ Running(x)
    /\ pc[x] \in {"exchange", "tryExchange"}
    /\ ~Locked
    /\ Locked' = TRUE
    /\ pc' = [pc EXCEPT ![x] = "record"]
    /\ UNCHANGED <<IF_, inInterrupt, SavedInterruptState, wasEnabled, restore, before>>

\* TryAcquire gives up where Acquire pauses and exchanges again.
ExchangeLoses(x) ==
    /\ Running(x)
    /\ pc[x] = "tryExchange"
    /\ Locked
    /\ pc' = [pc EXCEPT ![x] = "giveUp"]
    /\ UNCHANGED <<IF_, inInterrupt, Locked, SavedInterruptState, wasEnabled, restore, before>>

GiveUp(x) ==
    /\ Running(x)
    /\ pc[x] = "giveUp"
    /\ IF_' = [IF_ EXCEPT ![Cpu(x)] = @ \/ wasEnabled[x]]
    /\ pc' = [pc EXCEPT ![x] = "outside"]
    /\ UNCHANGED <<inInterrupt, Locked, SavedInterruptState, wasEnabled, restore, before>>

RecordState(x) ==
    /\ Running(x)
    /\ pc[x] = "record"
    /\ SavedInterruptState' = wasEnabled[x]
    /\ pc' = [pc EXCEPT ![x] = "critical"]
    /\ UNCHANGED <<IF_, inInterrupt, Locked, wasEnabled, restore, before>>

-----------------------------------------------------------------------------
(* Release *)

\* The state to restore is read before the lock is given up; an unlocked lock
\* is left alone, the interrupt flag included.
ReadSaved(x) ==
    /\ Running(x)
    /\ pc[x] = "critical"
    /\ IF Locked
       THEN /\ restore' = [restore EXCEPT ![x] = SavedInterruptState]
            /\ pc' = [pc EXCEPT ![x] = "unlock"]
       ELSE /\ pc' = [pc EXCEPT ![x] = "outside"]
            /\ UNCHANGED restore
    /\ UNCHANGED <<IF_, inInterrupt, Locked, SavedInterruptState, wasEnabled, before>>

\* Mutant of Unlock: the store is forgotten.
UnlockNothing(x) ==
    /\ Running(x)
    /\ pc[x] = "unlock"
    /\ pc' = [pc EXCEPT ![x] = "restore"]
    /\ UNCHANGED <<IF_, inInterrupt, Locked, SavedInterruptState, wasEnabled, restore, before>>

Unlock(x) ==
    /\ Running(x)
    /\ pc[x] = "unlock"
    /\ Locked' = FALSE
    /\ pc' = [pc EXCEPT ![x] = "restore"]
    /\ UNCHANGED <<IF_, inInterrupt, SavedInterruptState, wasEnabled, restore, before>>

RestoreFlag(x) ==
    /\ Running(x)
    /\ pc[x] = "restore"
    /\ IF_' = [IF_ EXCEPT ![Cpu(x)] = @ \/ restore[x]]
    /\ pc' = [pc EXCEPT ![x] = "outside"]
    /\ UNCHANGED <<inInterrupt, Locked, SavedInterruptState, wasEnabled, restore, before>>

-----------------------------------------------------------------------------
(* Interrupts and code outside the lock *)

\* The interrupt gate clears IF; iret brings the interrupted flag back.
Interrupt(c) ==
    /\ IF_[c]
    /\ ~inInterrupt[c]
    /\ inInterrupt' = [inInterrupt EXCEPT ![c] = TRUE]
    /\ IF_' = [IF_ EXCEPT ![c] = FALSE]
    /\ UNCHANGED <<Locked, SavedInterruptState, pc, wasEnabled, restore, before>>

ReturnFromInterrupt(c) ==
    /\ inInterrupt[c]
    /\ pc[<<c, "irq">>] = "outside"
    /\ inInterrupt' = [inInterrupt EXCEPT ![c] = FALSE]
    /\ IF_' = [IF_ EXCEPT ![c] = TRUE]
    /\ UNCHANGED <<Locked, SavedInterruptState, pc, wasEnabled, restore, before>>

\* OrynKernelInterruptsEnable and Disable as boot code calls them.
SetFlag(c) ==
    /\ ~inInterrupt[c]
    /\ pc[<<c, "task">>] = "outside"
    /\ IF_' = [IF_ EXCEPT ![c] = ~@]
    /\ UNCHANGED <<inInterrupt, Locked, SavedInterruptState, pc, wasEnabled, restore, before>>

-----------------------------------------------------------------------------
\* What a context does once it has called Acquire, TryAcquire or Release.
Step(x) ==
    \/ DisableFlag(x)
    \/ ExchangeWins(x)
    \/ ExchangeLoses(x)
    \/ GiveUp(x)
    \/ RecordState(x)
    \/ ReadSaved(x)
    \/ Unlock(x)
    \/ RestoreFlag(x)

Next ==
    \/ \E x \in Contexts : Acquire(x) \/ TryAcquire(x) \/ Step(x)
    \/ \E c \in Cpus : Interrupt(c) \/ ReturnFromInterrupt(c) \/ SetFlag(c)

Spec == Init /\ [][Next]_vars

\* A running context keeps executing: critical sections are straight-line code
\* and nothing preempts a CPU that has interrupts disabled.
FairSpec == Spec /\ \A x \in Contexts : WF_vars(Step(x))

-----------------------------------------------------------------------------
(* Properties *)

Points == {"outside", "disable", "tryDisable", "exchange", "tryExchange", "giveUp"}
              \cup Holding \cup {"restore"}

\* Type invariant of the lock, the flags and the contexts.
TypeOK ==
    /\ IF_ \in [Cpus -> BOOLEAN]
    /\ inInterrupt \in [Cpus -> BOOLEAN]
    /\ Locked \in BOOLEAN
    /\ SavedInterruptState \in BOOLEAN
    /\ pc \in [Contexts -> Points]
    /\ wasEnabled \in [Contexts -> BOOLEAN]
    /\ restore \in [Contexts -> BOOLEAN]
    /\ before \in [Contexts -> BOOLEAN]

\* At most one context of one CPU is between Acquire and Release ("serialize
\* access", KernelInterruptLock.c), whatever the interrupts do.
MutualExclusion ==
    \A x, y \in Contexts : pc[x] \in Holding /\ pc[y] \in Holding => x = y

\* Whoever waits for the lock or holds it has interrupts disabled on its CPU and
\* is not interrupted ("Interrupt-safe lock primitives disable interrupts").
HolderUninterrupted ==
    \A x \in Contexts :
        pc[x] \in Holding \cup {"exchange", "tryExchange", "giveUp", "restore"}
            => ~IF_[Cpu(x)] /\ Running(x)

\* No context spins for a lock that the code it interrupted holds: that CPU
\* would never make progress again.
NoSelfDeadlock ==
    \A c \in Cpus :
        ~(pc[<<c, "irq">>] \in {"exchange", "tryExchange"} /\ pc[<<c, "task">>] \in Holding)

\* Leaving the lock functions leaves the interrupt flag as they found it,
\* although the flag is saved in the lock every CPU shares.
FlagRestored ==
    [][\A x \in Contexts :
          pc[x] # "outside" /\ pc'[x] = "outside" => IF_'[Cpu(x)] = before[x]]_vars

\* Waiting is not forever for everybody: when some context spins, some
\* context gets the lock.  (Which one is not fixed: the exchange is not fair.)
SomeoneEnters ==
    (\E x \in Contexts : pc[x] = "exchange") ~> (\E x \in Contexts : pc[x] = "critical")
=============================================================================
