------------------------------ MODULE Scheduler ------------------------------
(***************************************************************************)
(* Run queues, wait queue and thread states: KernelSchedulerRoundRobin.c,  *)
(* the wait queue of KernelScheduler.c and the thread functions of         *)
(* KernelProcessLifecycle.c and KernelProcessEvents.c.                     *)
(*                                                                         *)
(* The scheduler does not block or switch by itself: the code of a CPU     *)
(* calls Wait, SleepUntil, ThreadExit or ThreadStop for the thread it      *)
(* runs, then PickNext; it calls PreemptCurrent at the end of a time       *)
(* slice; and whoever wakes or creates a thread calls AddRunnableThread    *)
(* for it, as OrynKernelSchedulerRunSelfTest does.  `running' is the       *)
(* thread a CPU was last given and `owed' the threads that nobody has      *)
(* enqueued yet: neither is in the code, whose own idea of what runs is    *)
(* Current.  AnyTick lets PreemptCurrent come at other times too.          *)
(*                                                                         *)
(* A run queue is a sequence (its ring is that of DeferredQueue).  The     *)
(* loop of PickNext is one step per candidate; no other call starts        *)
(* before it ends.  A sleeping thread has a timer in the wheel (see        *)
(* TimerWheel), here a member of `timers'.                                 *)
(***************************************************************************)
EXTENDS Integers, Sequences, FiniteSets

CONSTANTS
    CpuCount,      \* CPUs are 0 .. CpuCount-1
    Threads,
    Priorities,    \* priority arguments of SetPriority
    Channels,      \* wait channels
    WaitLimit,     \* ORYN_KERNEL_WAIT_QUEUE_LIMIT
    QueueLimit,    \* ORYN_KERNEL_RUN_QUEUE_LIMIT
    AnyTick        \* whether a time slice may end whatever the CPU runs

Cpus == 0 .. CpuCount - 1
WaitSlots == 1 .. WaitLimit
None == "None"

ASSUME SchedulerAssumption ==
    /\ CpuCount \in Nat \ {0}
    /\ Priorities \subseteq Nat /\ Priorities # {}
    /\ WaitLimit \in Nat /\ QueueLimit \in Nat
    /\ AnyTick \in BOOLEAN
    /\ None \notin Threads \cup Channels

VARIABLES
    State,         \* of each thread
    Priority,
    Affinity,      \* the CPUs of CpuAffinityMask; all while AffinitySet is 0
    queue,         \* RunQueues[cpu].Threads from Head to Tail
    Current,
    WaitQueue,     \* thread and channel of each slot in use
    WaitQueueCount,
    timers,        \* threads with a queued sleep timer
    scan,          \* the loop of PickNext
    running,       \* the thread each CPU was given last, None for idle
    owed           \* Ready threads that their creator or waker has to enqueue

vars == <<State, Priority, Affinity, queue, Current, WaitQueue,
          WaitQueueCount, timers, scan, running, owed>>
attributes == <<Priority, Affinity>>
waits == <<WaitQueue, WaitQueueCount, timers>>

NoWaiter == [thread |-> None, channel |-> None]
NoScan == [cpu |-> -1, left |-> 0, best |-> None, before |-> << >>]

Init ==
    /\ State = [t \in Threads |-> "Ready"]
    /\ Priority \in [Threads -> Priorities]
    /\ Affinity = [t \in Threads |-> Cpus]
    /\ queue = [c \in Cpus |-> << >>]
    /\ Current = [c \in Cpus |-> None]
    /\ WaitQueue = [i \in WaitSlots |-> NoWaiter]
    /\ WaitQueueCount = 0
    /\ timers = {}
    /\ scan = NoScan
    /\ running = [c \in Cpus |-> None]
    /\ owed = Threads

----------------------------------------------------------------------------
(* AddRunnableThread.                                                      *)

\* The CPU that was asked for, or the first one the thread may run on.
TargetCpu(c, t) ==
    IF c \in Affinity[t] THEN c
    ELSE CHOOSE d \in Affinity[t] : \A e \in Affinity[t] : d <= e

Accepts(queues, c, t) ==
    /\ Affinity[t] # {}
    /\ Len(queues[TargetCpu(c, t)]) < QueueLimit

Added(queues, c, t) ==
    IF Accepts(queues, c, t)
    THEN [queues EXCEPT ![TargetCpu(c, t)] = Append(@, t)]
    ELSE queues

\* The state of a thread that was added; a refused one keeps its own.
Readied(states, queues, c, t) ==
    IF Accepts(queues, c, t) THEN [states EXCEPT ![t] = "Ready"] ELSE states

IsRunning(t) == \E c \in Cpus : running[c] = t

\* The creator or waker of t enqueues it, once no CPU runs it any more.
AddRunnableThread(c, t) ==
    /\ scan = NoScan
    /\ t \in owed
    /\ ~IsRunning(t)
    /\ queue' = Added(queue, c, t)
    /\ State' = Readied(State, queue, c, t)
    /\ owed' = IF Accepts(queue, c, t) THEN owed \ {t} ELSE owed
    /\ UNCHANGED <<attributes, Current, waits, scan, running>>

----------------------------------------------------------------------------
(* PickNext and PreemptCurrent.                                            *)

\* What PickNext does first, on the queues it finds: an empty queue gives the
\* idle thread and leaves Current alone.
BeginPick(c, queues) ==
    IF queues[c] = << >>
    THEN /\ running' = [running EXCEPT ![c] = None]
         /\ UNCHANGED scan
    ELSE /\ scan' = [cpu |-> c, left |-> Len(queues[c]), best |-> None,
                     before |-> queues[c]]
         /\ UNCHANGED running

\* A CPU looks for a thread when it is idle or its thread cannot go on.
PickNext(c) ==
    /\ scan = NoScan
    /\ running[c] # None => State[running[c]] # "Running"
    /\ BeginPick(c, queue)
    /\ UNCHANGED <<State, attributes, queue, Current, waits, owed>>

\* Mutant of Beats: a later thread of the same priority is preferred.
BeatsOrEquals(t) == scan.best = None \/ Priority[t] >= Priority[scan.best]

Beats(t) == scan.best = None \/ Priority[t] > Priority[scan.best]

\* Mutant of Loser: the replaced best is not put back.
LoserDropped(t) == IF Beats(t) THEN None ELSE t

Loser(t) == IF Beats(t) THEN scan.best ELSE t

\* The candidate at the head replaces the best one so far or goes to the tail,
\* and so does the one it replaces.
PickScan ==
    /\ scan.left > 0
    /\ LET c      == scan.cpu
           t      == Head(queue[c])
           popped == [queue EXCEPT ![c] = Tail(@)]
       IN  /\ scan' = [cpu |-> c, left |-> scan.left - 1,
                       best |-> IF Beats(t) THEN t ELSE scan.best,
                       before |-> scan.before]
           /\ IF Loser(t) = None
              THEN queue' = popped /\ UNCHANGED State
              ELSE /\ queue' = Added(popped, c, Loser(t))
                   /\ State' = Readied(State, popped, c, Loser(t))
    /\ UNCHANGED <<attributes, Current, waits, running, owed>>

PickEnd ==
    /\ scan # NoScan /\ scan.left = 0
    /\ Current' = [Current EXCEPT ![scan.cpu] = scan.best]
    /\ running' = [running EXCEPT ![scan.cpu] = scan.best]
    /\ State' = [State EXCEPT ![scan.best] = "Running"]
    /\ scan' = NoScan
    /\ UNCHANGED <<attributes, queue, waits, owed>>

\* The end of a time slice: Current goes to the tail and PickNext follows.
PreemptCurrent(c) ==
    /\ scan = NoScan
    /\ ~AnyTick =>
         running[c] # None /\ State[running[c]] = "Running"
    /\ IF Current[c] = None
       THEN UNCHANGED <<State, queue>> /\ BeginPick(c, queue)
       ELSE LET added == Added(queue, c, Current[c])
            IN  /\ State' = [State EXCEPT ![Current[c]] = "Ready"]
                /\ queue' = added
                /\ BeginPick(c, added)
    /\ UNCHANGED <<attributes, Current, waits, owed>>

----------------------------------------------------------------------------
(* What a CPU does for the thread it runs.                                 *)

Runs(c, t) == scan = NoScan /\ running[c] = t /\ State[t] = "Running"

FreeWaitSlots == {i \in WaitSlots : WaitQueue[i] = NoWaiter}
IsFirst(i, slots) == i \in slots /\ \A j \in slots : i <= j

\* A full wait queue refuses and the thread goes on.
Wait(c, t, channel) ==
    /\ Runs(c, t)
    /\ \E i \in WaitSlots :
         /\ IsFirst(i, FreeWaitSlots)
         /\ WaitQueue' = [WaitQueue EXCEPT
                            ![i] = [thread |-> t, channel |-> channel]]
    /\ WaitQueueCount' = WaitQueueCount + 1
    /\ State' = [State EXCEPT ![t] = "Blocked"]
    /\ UNCHANGED <<attributes, queue, Current, timers, scan, running, owed>>

\* Mutant of SleepUntil: the state is not changed.
SleepUntilStaysRunning(c, t) ==
    /\ Runs(c, t)
    /\ timers' = timers \cup {t}
    /\ UNCHANGED <<State, attributes, queue, Current, WaitQueue, WaitQueueCount,
                   scan, running, owed>>

SleepUntil(c, t) ==
    /\ Runs(c, t)
    /\ State' = [State EXCEPT ![t] = "Sleeping"]
    /\ timers' = timers \cup {t}
    /\ UNCHANGED <<attributes, queue, Current, WaitQueue, WaitQueueCount,
                   scan, running, owed>>

\* ThreadExit and ThreadStop; nothing starts a stopped thread again.
EndThread(c, t, final) ==
    /\ Runs(c, t)
    /\ State' = [State EXCEPT ![t] = final]
    /\ UNCHANGED <<attributes, queue, Current, waits, scan, running, owed>>

SetPriority(t, p) ==
    /\ scan = NoScan
    /\ Priority' = [Priority EXCEPT ![t] = p]
    /\ UNCHANGED <<State, Affinity, queue, Current, waits, scan, running, owed>>

\* A mask without a CPU is refused.
SetCpuAffinity(t, mask) ==
    /\ scan = NoScan
    /\ mask # {}
    /\ \E c \in Cpus : Runs(c, t)
    /\ Affinity' = [Affinity EXCEPT ![t] = mask]
    /\ UNCHANGED <<State, Priority, queue, Current, waits, scan, running, owed>>

----------------------------------------------------------------------------
(* Waking.                                                                 *)

\* The slots a wake-up looks for; the null channel matches every waiter.
Waiting(channel) ==
    {i \in WaitSlots \ FreeWaitSlots :
        channel = None \/ WaitQueue[i].channel = channel}

\* Clear these slots and make their threads ready; enqueuing them is left to
\* the caller.
Wake(slots) ==
    LET woken == {WaitQueue[i].thread : i \in slots}
    IN  /\ WaitQueue' = [i \in WaitSlots |->
                           IF i \in slots THEN NoWaiter ELSE WaitQueue[i]]
        /\ WaitQueueCount' = WaitQueueCount - Cardinality(slots)
        /\ State' = [t \in Threads |-> IF t \in woken THEN "Ready"
                                                      ELSE State[t]]
        /\ owed' = owed \cup woken
        /\ UNCHANGED <<attributes, queue, Current, timers, scan, running>>

\* WakeOne takes the first slot of the channel.
WakeOne(channel) ==
    /\ scan = NoScan
    /\ \E i \in WaitSlots : IsFirst(i, Waiting(channel)) /\ Wake({i})

WakeAll(channel) ==
    /\ scan = NoScan
    /\ Waiting(channel) # {}
    /\ Wake(Waiting(channel))

SleepExpires(t) ==
    /\ scan = NoScan
    /\ t \in timers
    /\ timers' = timers \ {t}
    /\ State' = [State EXCEPT ![t] = "Ready"]
    /\ owed' = owed \cup {t}
    /\ UNCHANGED <<attributes, queue, Current, WaitQueue, WaitQueueCount,
                   scan, running>>

----------------------------------------------------------------------------
Pick == PickScan \/ PickEnd

\* CPU c asks for a thread, or its time slice ends.
Dispatch(c) == PickNext(c) \/ PreemptCurrent(c)

ThreadStep(c, t) ==
    \/ \E channel \in Channels : Wait(c, t, channel)
    \/ SleepUntil(c, t)
    \/ \E final \in {"Zombie", "Stopped"} : EndThread(c, t, final)

Next ==
    \/ Pick
    \/ \E c \in Cpus : Dispatch(c)
    \/ \E c \in Cpus, t \in Threads : AddRunnableThread(c, t) \/ ThreadStep(c, t)
    \/ \E t \in Threads, p \in Priorities : SetPriority(t, p)
    \/ \E t \in Threads, mask \in SUBSET Cpus : SetCpuAffinity(t, mask)
    \/ \E channel \in Channels \cup {None} : WakeOne(channel) \/ WakeAll(channel)
    \/ \E t \in Threads : SleepExpires(t)

Spec == Init /\ [][Next]_vars

\* The use of the scheduler that the proofs are about: a run queue holds every
\* thread there is, and only a CPU that runs a thread ends a time slice.
RegularUse ==
    /\ IsFiniteSet(Threads)
    /\ Cardinality(Threads) <= QueueLimit
    /\ ~AnyTick

----------------------------------------------------------------------------
(* Properties.                                                             *)

\* Type invariant.
TypeOK ==
    /\ State \in [Threads -> {"Ready", "Running", "Sleeping", "Blocked",
                              "Zombie", "Stopped"}]
    /\ Priority \in [Threads -> Priorities]
    /\ Affinity \in [Threads -> (SUBSET Cpus) \ {{}}]
    /\ queue \in [Cpus -> Seq(Threads)]
    /\ \A c \in Cpus : Len(queue[c]) <= QueueLimit
    /\ Current \in [Cpus -> Threads \cup {None}]
    /\ WaitQueue \in [WaitSlots -> [thread : Threads \cup {None},
                                    channel : Channels \cup {None}]]
    /\ WaitQueueCount \in 0 .. WaitLimit
    /\ timers \subseteq Threads
    /\ scan \in [cpu : Cpus \cup {-1}, left : 0 .. QueueLimit,
                best : Threads \cup {None}, before : Seq(Threads)]
    /\ running \in [Cpus -> Threads \cup {None}]
    /\ owed \subseteq Threads

\* Where t can be found: a place of a run queue, a CPU, or the hands of
\* PickNext.  The CPU that PickNext works for has given up its thread.
Places(t) ==
    {p \in {"queue"} \X Cpus \X (1 .. QueueLimit) :
        p[3] <= Len(queue[p[2]]) /\ queue[p[2]][p[3]] = t}
      \cup {p \in {"cpu"} \X Cpus \X {0} :
              p[2] # scan.cpu /\ running[p[2]] = t}
      \cup {p \in {"scan"} \X Cpus \X {0} :
              p[2] = scan.cpu /\ scan.best = t}

IsQueued(t) == \E c \in Cpus : \E i \in 1 .. Len(queue[c]) : queue[c][i] = t

\* A thread is in one place at most: it is never queued twice, never queued
\* while a CPU runs it, and never run by two CPUs (run queues of several CPUs
\* and the rotation of PickNext move threads about).
OnePlace == \A t \in Threads : \A p, q \in Places(t) : p = q

\* No thread is lost: a thread that is ready is in a run queue, in the hands of
\* PickNext, or known to the one who has to enqueue it.
NotLost ==
    \A t \in Threads :
        State[t] = "Ready" => IsQueued(t) \/ scan.best = t \/ t \in owed

\* "Scheduler wait/wake primitives block and wake sleeping threads by channel":
\* the threads in the wait queue are exactly the blocked ones, each in one slot,
\* and none of them is in a run queue.
WaitersBlocked ==
    /\ WaitQueueCount = Cardinality(WaitSlots \ FreeWaitSlots)
    /\ \A t \in Threads :
         /\ Cardinality({i \in WaitSlots : WaitQueue[i].thread = t}) =
                IF State[t] = "Blocked" THEN 1 ELSE 0
         /\ State[t] = "Blocked" => ~IsQueued(t)

\* Position of t in a sequence of distinct threads, and the order it defines.
Ahead(s, t, u) == \E i, j \in 1 .. Len(s) : i < j /\ s[i] = t /\ s[j] = u

InBefore(t) == \E i \in 1 .. Len(scan.before) : scan.before[i] = t

\* PickNext chooses the thread that has waited longest among those of the
\* highest priority in its queue, and the others of that priority keep their
\* order, although the loop takes the whole queue apart and puts it back.
PicksFirstOfBest ==
    (scan # NoScan /\ scan.left = 0) =>
        LET b == scan.best
        IN  /\ \A t \in Threads : InBefore(t) => Priority[t] <= Priority[b]
            /\ \A t \in Threads : Priority[t] = Priority[b] => ~Ahead(scan.before, t, b)
            /\ \A t, u \in Threads :
                 (Priority[t] = Priority[b] /\ Priority[u] = Priority[b]
                    /\ Ahead(scan.before, t, u) /\ t # b)
                    => ~Ahead(queue[scan.cpu], u, t)

\* "CPU affinity is enforced by the scheduler run-queue path": the thread that
\* PickNext is about to give to a CPU may run there, after it was moved between
\* queues by AddRunnableThread, by a preemption or by another pick.
AffinityEnforced ==
    (scan # NoScan /\ scan.left = 0) => scan.cpu \in Affinity[scan.best]

\* Every thread is where its state says: in one run queue, on one CPU or in one
\* wait slot, and nowhere twice, and it is given only to a CPU it may run on
\* (KernelSchedulerRoundRobin.c, KernelScheduler.c).
ThreadsAccounted ==
    /\ TypeOK
    /\ OnePlace
    /\ NotLost
    /\ WaitersBlocked
    /\ AffinityEnforced

\* A thread that exited or was stopped never becomes ready or runs again, and
\* nobody wakes it.
EndedStaysEnded ==
    [][\A t \in Threads : State[t] \in {"Zombie", "Stopped"}
                            => State'[t] = State[t] /\ t \notin owed']_vars

=============================================================================
