----------------------------- MODULE TimerWheel ------------------------------
(***************************************************************************)
(* The timer wheel of the scheduler and its sleepers (KernelScheduler.c).  *)
(*                                                                         *)
(* A timer sits in the list of the slot its deadline falls into; a tick    *)
(* walks the list of its own slot only and expires what is due.  The list  *)
(* of a slot is a sequence of timers, the one queued last first.  A tick   *)
(* is one step per timer of the list: a callback runs inside the walk and  *)
(* may queue its timer anew, which puts a timer in front of a list that is *)
(* being walked.                                                           *)
(***************************************************************************)
EXTENDS Integers, Sequences, FiniteSets

CONSTANTS
    SLOTS,        \* ORYN_KERNEL_TIMER_WHEEL_SLOTS
    TIMERS,       \* ORYN_KERNEL_TIMER_LIMIT
    Threads,
    MaxTick,      \* bound: last tick of the model and last deadline
    Advances,     \* by how much nowTick grows from one tick to the next
    Rearms        \* delays with which callbacks queue a timer again

ASSUME WheelAssumption == SLOTS \in Nat \ {0} /\ TIMERS \in Nat /\ MaxTick \in Nat
ASSUME DelayAssumption == Advances \subseteq Nat /\ Rearms \subseteq Nat

Ids == 1..TIMERS
Slots == 0..(SLOTS - 1)
NoThread == "NoThread"
NoTimer == 0
ASSUME ThreadAssumption == NoThread \notin Threads

VARIABLES
    Timers,          \* State, Kind, DeadlineTick and Thread of each timer
    Wheel,           \* the list of each slot
    CurrentTick,
    QueuedTimers,
    SleepQueueCount,
    asleep,          \* threads whose State is Sleeping
    walk             \* the tick in progress: what is left of the list, and the
                     \* last timer that stayed in it

vars == <<Timers, Wheel, CurrentTick, QueuedTimers, SleepQueueCount, asleep, walk>>

Timer(state, kind, deadline, thread) ==
    [State |-> state, Kind |-> kind, DeadlineTick |-> deadline, Thread |-> thread]
NoWalk == [active |-> FALSE, rest |-> <<>>, previous |-> NoTimer]

Init ==
    /\ Timers = [id \in Ids |-> Timer("Free", "None", 0, NoThread)]
    /\ Wheel = [slot \in Slots |-> <<>>]
    /\ CurrentTick = 0
    /\ QueuedTimers = 0
    /\ SleepQueueCount = 0
    /\ asleep = {}
    /\ walk = NoWalk

TimerSlot(tick) == tick % SLOTS

Free == {id \in Ids : Timers[id].State = "Free"}
Queued == {id \in Ids : Timers[id].State = "Queued"}

\* AllocateTimer takes the first free one; expired timers are not free.
IsAllocated(id) == id \in Free /\ \A other \in Free : id <= other

\* QueueNode on a wheel.
QueueNode(wheel, id, deadline) ==
    [wheel EXCEPT ![TimerSlot(deadline)] = <<id>> \o @]

-----------------------------------------------------------------------------
\* Without a free timer SleepUntil and QueueTimer refuse and change nothing; the
\* thread is not blocked.
SleepUntil(t, deadline) ==
    /\ ~walk.active
    /\ t \notin asleep
    /\ deadline > CurrentTick
    /\ \E id \in Ids :
          /\ IsAllocated(id)
          /\ Timers' = [Timers EXCEPT ![id] = Timer("Queued", "Sleep", deadline, t)]
          /\ Wheel' = QueueNode(Wheel, id, deadline)
    /\ asleep' = asleep \cup {t}
    /\ SleepQueueCount' = SleepQueueCount + 1
    /\ QueuedTimers' = QueuedTimers + 1
    /\ UNCHANGED <<CurrentTick, walk>>

QueueTimer(deadline) ==
    /\ ~walk.active
    /\ deadline > CurrentTick
    /\ \E id \in Ids :
          /\ IsAllocated(id)
          /\ Timers' = [Timers EXCEPT ![id] = Timer("Queued", "Callback", deadline, NoThread)]
          /\ Wheel' = QueueNode(Wheel, id, deadline)
    /\ QueuedTimers' = QueuedTimers + 1
    /\ UNCHANGED <<CurrentTick, SleepQueueCount, asleep, walk>>

-----------------------------------------------------------------------------
\* The tick of one CPU; CPUs that tick at the same time pass the same tick.
Tick(advance) ==
    /\ ~walk.active
    /\ CurrentTick + advance <= MaxTick
    /\ CurrentTick' = CurrentTick + advance
    /\ walk' = [active |-> TRUE, rest |-> Wheel[TimerSlot(CurrentTick')], previous |-> NoTimer]
    /\ UNCHANGED <<Timers, Wheel, QueuedTimers, SleepQueueCount, asleep>>

\* Mutant of Unlink: the head pointer is overwritten in any case.
UnlinkHead(list) == Tail(walk.rest)

\* The timer leaves the list: the head pointer is overwritten as long as no
\* timer stayed in front of it; else the one that stayed is linked to the next.
Unlink(list) ==
    IF walk.previous = NoTimer
    THEN Tail(walk.rest)
    ELSE SubSeq(list, 1, Len(list) - Len(walk.rest)) \o Tail(walk.rest)

WalkKeeps ==
    /\ walk.active
    /\ walk.rest # <<>>
    /\ Timers[Head(walk.rest)].DeadlineTick > CurrentTick
    /\ walk' = [walk EXCEPT !.rest = Tail(@), !.previous = Head(walk.rest)]
    /\ UNCHANGED <<Timers, Wheel, CurrentTick, QueuedTimers, SleepQueueCount, asleep>>

\* What ExpireNode does to the head of the rest, before its callback.
Expire(timers) == [timers EXCEPT ![Head(walk.rest)].State = "Expired"]
Unlinked == [Wheel EXCEPT ![TimerSlot(CurrentTick)] = Unlink(@)]
Minus1(n) == IF n > 0 THEN n - 1 ELSE n
\* Mutant of IsDue: the deadline of a later turn of the wheel is not told apart.
IsInSlot(kind) ==
    /\ walk.active
    /\ walk.rest # <<>>
    /\ Timers[Head(walk.rest)].Kind = kind

IsDue(kind) ==
    /\ walk.active
    /\ walk.rest # <<>>
    /\ Timers[Head(walk.rest)].DeadlineTick <= CurrentTick
    /\ Timers[Head(walk.rest)].Kind = kind

WakeSleepingThread ==
    /\ IsDue("Sleep")
    /\ Timers' = Expire(Timers)
    /\ Wheel' = Unlinked
    /\ QueuedTimers' = Minus1(QueuedTimers)
    /\ asleep' = asleep \ {Timers[Head(walk.rest)].Thread}
    /\ SleepQueueCount' = Minus1(SleepQueueCount)
    /\ walk' = [walk EXCEPT !.rest = Tail(@)]
    /\ UNCHANGED <<CurrentTick>>

RunCallback ==
    /\ IsDue("Callback")
    /\ Timers' = Expire(Timers)
    /\ Wheel' = Unlinked
    /\ QueuedTimers' = Minus1(QueuedTimers)
    /\ walk' = [walk EXCEPT !.rest = Tail(@)]
    /\ UNCHANGED <<CurrentTick, SleepQueueCount, asleep>>

\* The callback queues a new timer while the walk goes on.
RunCallbackThatRearms(delay) ==
    /\ IsDue("Callback")
    /\ delay > 0
    /\ CurrentTick + delay <= MaxTick
    /\ \E id \in Ids :
          /\ IsAllocated(id)
          /\ Timers' = [Expire(Timers) EXCEPT
                            ![id] = Timer("Queued", "Callback", CurrentTick + delay, NoThread)]
          /\ Wheel' = QueueNode(Unlinked, id, CurrentTick + delay)
    /\ QueuedTimers' = Minus1(QueuedTimers) + 1
    /\ walk' = [walk EXCEPT !.rest = Tail(@)]
    /\ UNCHANGED <<CurrentTick, SleepQueueCount, asleep>>

TickDone ==
    /\ walk.active
    /\ walk.rest = <<>>
    /\ walk' = NoWalk
    /\ UNCHANGED <<Timers, Wheel, CurrentTick, QueuedTimers, SleepQueueCount, asleep>>

-----------------------------------------------------------------------------
Walk ==
    \/ WalkKeeps
    \/ WakeSleepingThread
    \/ RunCallback
    \/ \E delay \in Rearms : RunCallbackThatRearms(delay)
    \/ TickDone

Next ==
    \/ \E t \in Threads, deadline \in 1..MaxTick : SleepUntil(t, deadline)
    \/ \E deadline \in 1..MaxTick : QueueTimer(deadline)
    \/ \E advance \in Advances : Tick(advance)
    \/ Walk

Spec == Init /\ [][Next]_vars

\* The clock goes on (only so many CPUs tick at the same time) and a tick, once
\* begun, ends.
FairSpec == Spec /\ SF_vars(\E advance \in Advances \ {0} : Tick(advance)) /\ WF_vars(Walk)

-----------------------------------------------------------------------------
(* Properties *)

\* What the wheel relies on: some CPU sees every tick, and a callback does not
\* queue a timer into the slot that is being walked.
TicksInOrder == Advances \subseteq {0, 1}
RearmsElsewhere == \A delay \in Rearms : delay % SLOTS # 0

\* Type invariant of the wheel.
TypeOK ==
    /\ Timers \in [Ids -> [State : {"Free", "Queued", "Expired"},
                           Kind : {"None", "Sleep", "Callback"},
                           DeadlineTick : 0..MaxTick,
                           Thread : Threads \cup {NoThread}]]
    /\ Wheel \in [Slots -> Seq(Ids)]
    /\ CurrentTick \in 0..MaxTick
    /\ QueuedTimers \in 0..TIMERS
    /\ SleepQueueCount \in 0..TIMERS
    /\ asleep \subseteq Threads
    /\ walk \in [active : BOOLEAN, rest : Seq(Ids), previous : Ids \cup {NoTimer}]

InList(list, id) == \E i \in 1..Len(list) : list[i] = id

\* Every queued timer is in the list of its slot, once, and nothing else is
\* in a list: no timer is lost or fires twice.
QueuedInWheel ==
    /\ \A slot \in Slots : \A i, j \in 1..Len(Wheel[slot]) :
          Wheel[slot][i] = Wheel[slot][j] => i = j
    /\ \A slot \in Slots, id \in Ids :
          InList(Wheel[slot], id) <=> id \in Queued /\ TimerSlot(Timers[id].DeadlineTick) = slot

\* A sleeping thread has exactly one queued timer that will wake it and an
\* awake thread has none, so no thread sleeps forever or is woken twice.
SleepersHaveTimers ==
    \A t \in Threads :
        Cardinality({id \in Queued : Timers[id].Kind = "Sleep" /\ Timers[id].Thread = t})
            = IF t \in asleep THEN 1 ELSE 0

\* The counters that diagnostics print agree with the wheel.
CountsAgree ==
    /\ QueuedTimers = Cardinality(Queued)
    /\ SleepQueueCount = Cardinality(asleep)

\* Between ticks no timer is overdue.
NoneOverdue ==
    ~walk.active => \A id \in Queued : Timers[id].DeadlineTick > CurrentTick

\* The wheel, the pool, the counters and the sleeping threads tell one story
\* through walks, callbacks that queue and slots that several turns share
\* (KernelScheduler.c OrynKernelSchedulerTick).
WheelSound ==
    /\ TypeOK
    /\ QueuedInWheel
    /\ SleepersHaveTimers
    /\ CountsAgree
    /\ NoneOverdue

\* A timer expires in the tick of its deadline, not before and not after, and
\* an expired timer never goes back to the queue.
ExpiresOnTime ==
    [][\A id \in Ids :
          /\ id \in Queued /\ id \notin Queued' => Timers[id].DeadlineTick = CurrentTick
          /\ Timers[id].State = "Expired" => Timers'[id].State = "Expired"]_vars

\* Every sleeping thread wakes up.
EveryoneWakes == \A t \in Threads : t \in asleep ~> t \notin asleep
=============================================================================
