--------------------------- MODULE SchedulerProofs ---------------------------
(***************************************************************************)
(* No thread is lost, queued twice or run twice, for every number of CPUs, *)
(* threads, channels and priorities.                                       *)
(***************************************************************************)
EXTENDS Scheduler, FiniteSetTheorems, TLAPS

\* The threads of a run queue, and a queue without repetition.
Elems(q) == {q[i] : i \in 1 .. Len(q)}
Distinct(q) == \A i, j \in 1 .. Len(q) : q[i] = q[j] => i = j

\* No thread is in two run queues or twice in one.
Queues ==
    /\ \A c \in Cpus : Distinct(queue[c])
    /\ \A c, d \in Cpus : \A t \in Elems(queue[c]) : t \in Elems(queue[d]) => c = d

\* t may be given to c: it is ready, nobody else has it or will enqueue it.
Available(t, c) ==
    /\ State[t] = "Ready" /\ t \notin owed
    /\ c \in Affinity[t]
    /\ \A d \in Cpus : d # scan.cpu => running[d] # t

Queued == \A c \in Cpus : \A t \in Elems(queue[c]) : Available(t, c) /\ t # scan.best

\* The loop of PickNext holds one thread from its first candidate on.
Scan ==
    /\ scan.cpu = -1 => scan = NoScan
    /\ scan # NoScan => /\ scan.left <= Len(queue[scan.cpu])
                        /\ scan.best = None => scan.left > 0
    /\ scan.best # None => Available(scan.best, scan.cpu)

\* A CPU's thread is its Current one, and no other CPU's.
Run ==
    /\ \A c \in Cpus : running[c] # None => Current[c] = running[c]
    /\ \A c, d \in Cpus : running[c] # None /\ running[c] = running[d] => c = d

\* Who has to be enqueued is ready; who has a timer sleeps.
Sleepers ==
    /\ \A t \in owed : State[t] = "Ready"
    /\ \A t \in timers : State[t] = "Sleeping"

Used == WaitSlots \ FreeWaitSlots

\* The slots in use and the blocked threads are paired.
Waiters ==
    /\ WaitQueueCount = Cardinality(Used)
    /\ \A i \in Used : WaitQueue[i].thread \in Threads
                       /\ State[WaitQueue[i].thread] = "Blocked"
    /\ \A i, j \in Used : WaitQueue[i].thread = WaitQueue[j].thread => i = j
    /\ \A t \in Threads : State[t] = "Blocked" => \E i \in Used : WaitQueue[i].thread = t

\* The inductive invariant.
IInv ==
    /\ TypeOK
    /\ Queues
    /\ Queued
    /\ Scan
    /\ Run
    /\ Sleepers
    /\ Waiters
    /\ NotLost

-----------------------------------------------------------------------------
(* Queues.                                                                 *)

\* Every non-empty set of CPUs has a first one.
LEMMA FirstCpu ==
    ASSUME NEW S \in SUBSET Cpus, S # {}
    PROVE  \E d \in S : \A e \in S : d <= e
<1>1. S \subseteq Nat
  BY SchedulerAssumption DEF Cpus
<1>2. \E x \in S : \A y \in S : ~(<<y, x>> \in OpToRel(<, Nat))
  BY <1>1, NatLessThanWellFounded, WFMin
<1>3. \A x, y \in Nat : ~(<<y, x>> \in OpToRel(<, Nat)) => x <= y
  BY DEF OpToRel
<1> QED
  BY <1>1, <1>2, <1>3

LEMMA Constants ==
    /\ None \notin Threads /\ -1 \notin Cpus /\ Cpus \subseteq Nat
    /\ WaitLimit \in Nat /\ QueueLimit \in Nat
    /\ WaitSlots \subseteq Nat
BY SchedulerAssumption DEF Cpus, WaitSlots

\* Taking the head leaves the others in place.
LEMMA Pop ==
    ASSUME NEW q \in Seq(Threads), Distinct(q), q # << >>
    PROVE  /\ Tail(q) \in Seq(Threads) /\ Len(Tail(q)) = Len(q) - 1
           /\ Len(q) \in Nat /\ Len(q) > 0
           /\ Head(q) \in Threads /\ Head(q) \in Elems(q)
           /\ Head(q) = q[1] /\ \A i \in 1 .. Len(q) - 1 : Tail(q)[i] = q[i + 1]
           /\ Distinct(Tail(q)) /\ Elems(Tail(q)) = Elems(q) \ {Head(q)}
<1>1. Len(q) \in Nat /\ Len(q) > 0
  OBVIOUS
<1>2. /\ Tail(q) \in Seq(Threads) /\ Len(Tail(q)) = Len(q) - 1 /\ Head(q) = q[1]
      /\ \A i \in 1 .. Len(q) - 1 : Tail(q)[i] = q[i + 1]
  BY <1>1
<1>3. Head(q) \in Threads /\ Head(q) \in Elems(q)
  BY <1>1, <1>2 DEF Elems
<1>4. Distinct(Tail(q))
  BY <1>1, <1>2 DEF Distinct
<1>5. ASSUME NEW x \in Elems(Tail(q)) PROVE x \in Elems(q) \ {Head(q)}
  <2>1. PICK i \in 1 .. Len(q) - 1 : x = Tail(q)[i]
    BY <1>2 DEF Elems
  <2>2. x = q[i + 1] /\ i + 1 \in 1 .. Len(q) /\ 1 \in 1 .. Len(q) /\ i + 1 # 1
    BY <1>1, <1>2, <2>1
  <2> QED
    BY <1>2, <2>2 DEF Distinct, Elems
<1>6. ASSUME NEW x \in Elems(q) \ {Head(q)} PROVE x \in Elems(Tail(q))
  <2>1. PICK i \in 1 .. Len(q) : x = q[i]
    BY DEF Elems
  <2>2. i # 1
    BY <1>2, <2>1
  <2>3. i - 1 \in 1 .. Len(q) - 1 /\ (i - 1) + 1 = i
    BY <1>1, <2>2
  <2>4. x = Tail(q)[i - 1]
    BY <1>2, <2>1, <2>3
  <2> QED
    BY <1>2, <2>3, <2>4 DEF Elems
<1> QED
  BY <1>1, <1>2, <1>3, <1>4, <1>5, <1>6

\* A thread that is not in the queue goes to its end.
LEMMA Push ==
    ASSUME NEW q \in Seq(Threads), Distinct(q), NEW t \in Threads, t \notin Elems(q)
    PROVE  /\ Append(q, t) \in Seq(Threads) /\ Len(Append(q, t)) = Len(q) + 1
           /\ Len(q) \in Nat
           /\ \A i \in 1 .. Len(q) : Append(q, t)[i] = q[i]
           /\ Append(q, t)[Len(q) + 1] = t
           /\ Distinct(Append(q, t)) /\ Elems(Append(q, t)) = Elems(q) \cup {t}
<1>1. /\ Append(q, t) \in Seq(Threads) /\ Len(Append(q, t)) = Len(q) + 1
      /\ Len(q) \in Nat
      /\ \A i \in 1 .. Len(q) : Append(q, t)[i] = q[i]
      /\ Append(q, t)[Len(q) + 1] = t
  OBVIOUS
<1> DEFINE a == Append(q, t)
<1> HIDE DEF a
<1>2. \A i \in 1 .. Len(a) : i \in 1 .. Len(q) \/ i = Len(q) + 1
  BY <1>1 DEF a
<1>3. \A i \in 1 .. Len(q) : a[i] = q[i] /\ i \in 1 .. Len(a) /\ q[i] # t
  BY <1>1 DEF a, Elems
<1>4. a[Len(q) + 1] = t /\ Len(q) + 1 \in 1 .. Len(a)
  BY <1>1 DEF a
<1>5. Distinct(a)
  BY <1>2, <1>3, <1>4 DEF Distinct
<1>6. Elems(a) = Elems(q) \cup {t}
  BY <1>2, <1>3, <1>4 DEF Elems
<1> QED
  BY <1>1, <1>5, <1>6 DEF a

\* A queue of distinct threads is no longer than the set of threads, and shorter
\* when one is missing.
LEMMA Room ==
    ASSUME RegularUse, NEW q \in Seq(Threads), Distinct(q)
    PROVE  /\ Len(q) \in Nat /\ Len(q) <= QueueLimit
           /\ \A t \in Threads : t \notin Elems(q) => Len(q) < QueueLimit
<1>1. Len(q) \in Nat /\ IsFiniteSet(Threads) /\ Cardinality(Threads) \in Nat
      /\ Cardinality(Threads) <= QueueLimit /\ QueueLimit \in Nat
  BY FS_CardinalityType, Constants DEF RegularUse
<1>2. ASSUME NEW p \in Seq(Threads), Distinct(p)
      PROVE  Len(p) <= Cardinality(Threads)
  <2> DEFINE f == [i \in 1 .. Len(p) |-> p[i]]
  <2>1. Len(p) \in Nat /\ \A i \in 1 .. Len(p) : p[i] \in Threads
    OBVIOUS
  <2>2. f \in [1 .. Len(p) -> Threads]
    BY <2>1
  <2>3. f \in Injection(1 .. Len(p), Threads)
    BY <1>2, <2>2 DEF Injection, IsInjective, Distinct
  <2>4. Cardinality(1 .. Len(p)) <= Cardinality(Threads)
    BY <1>1, <2>3, FS_Injection
  <2>5. Cardinality(1 .. Len(p)) = Len(p)
    <3>1. \A n \in Nat : Cardinality(1 .. n) = IF 1 > n THEN 0 ELSE n - 1 + 1
      BY FS_Interval
    <3> HIDE DEF f
    <3> QED
      BY <2>1, <3>1
  <2> QED
    BY <2>4, <2>5
<1>3. ASSUME NEW t \in Threads, t \notin Elems(q) PROVE Len(q) < QueueLimit
  <2>1. Append(q, t) \in Seq(Threads) /\ Distinct(Append(q, t))
        /\ Len(Append(q, t)) = Len(q) + 1
    BY <1>3, Push
  <2>2. Len(q) + 1 <= Cardinality(Threads)
    BY <1>2, <2>1
  <2> QED
    BY <1>1, <2>2
<1> QED
  BY <1>1, <1>2, <1>3

\* AddRunnableThread takes every thread that is in no queue: there is a CPU it
\* may run on and room for it there.
LEMMA Add ==
    ASSUME RegularUse, Affinity \in [Threads -> (SUBSET Cpus) \ {{}}],
           NEW qs \in [Cpus -> Seq(Threads)], \A d \in Cpus : Distinct(qs[d]),
           NEW c \in Cpus, NEW t \in Threads, \A d \in Cpus : t \notin Elems(qs[d])
    PROVE  /\ Accepts(qs, c, t)
           /\ TargetCpu(c, t) \in Affinity[t] /\ TargetCpu(c, t) \in Cpus
           /\ Added(qs, c, t) = [qs EXCEPT ![TargetCpu(c, t)] = Append(@, t)]
           /\ Added(qs, c, t) \in [Cpus -> Seq(Threads)]
           /\ \A d \in Cpus : /\ Distinct(Added(qs, c, t)[d])
                               /\ Elems(Added(qs, c, t)[d]) =
                                    IF d = TargetCpu(c, t) THEN Elems(qs[d]) \cup {t}
                                                           ELSE Elems(qs[d])
<1> DEFINE T == TargetCpu(c, t)
<1>1. Affinity[t] \in SUBSET Cpus /\ Affinity[t] # {}
  OBVIOUS
<1>2. T \in Affinity[t] /\ T \in Cpus
  BY <1>1, FirstCpu DEF TargetCpu
<1>3. Accepts(qs, c, t)
  BY <1>1, <1>2, Room DEF Accepts
<1>4. Added(qs, c, t) = [qs EXCEPT ![T] = Append(@, t)]
  BY <1>3 DEF Added
<1> DEFINE N == Added(qs, c, t)
<1> HIDE DEF T, N
<1>5. /\ Append(qs[T], t) \in Seq(Threads) /\ Distinct(Append(qs[T], t))
      /\ Elems(Append(qs[T], t)) = Elems(qs[T]) \cup {t}
  BY <1>2, Push
<1>6. N[T] = Append(qs[T], t) /\ (\A d \in Cpus : d # T => N[d] = qs[d])
      /\ N \in [Cpus -> Seq(Threads)]
  BY <1>2, <1>4, <1>5 DEF N
<1>7. \A d \in Cpus : /\ Distinct(N[d])
                      /\ Elems(N[d]) = IF d = T THEN Elems(qs[d]) \cup {t} ELSE Elems(qs[d])
  BY <1>5, <1>6
<1> QED
  BY <1>2, <1>3, <1>4, <1>6, <1>7 DEF T, N

\* Only the queue of c changed, and t is its new end.
AtEnd(new, qs, c, t) ==
    /\ new \in [Cpus -> Seq(Threads)]
    /\ \A d \in Cpus : Distinct(new[d])
    /\ new[c] = Append(qs[c], t) /\ Elems(new[c]) = Elems(qs[c]) \cup {t}
    /\ \A d \in Cpus : d # c => new[d] = qs[d]

\* A thread that may run on the CPU it is meant for goes to the end of its queue.
LEMMA AddHere ==
    ASSUME RegularUse, Affinity \in [Threads -> (SUBSET Cpus) \ {{}}],
           NEW qs \in [Cpus -> Seq(Threads)], \A d \in Cpus : Distinct(qs[d]),
           NEW c \in Cpus, NEW t \in Threads, \A d \in Cpus : t \notin Elems(qs[d]),
           c \in Affinity[t]
    PROVE  Accepts(qs, c, t) /\ AtEnd(Added(qs, c, t), qs, c, t)
<1> DEFINE N == Added(qs, c, t)
           T == TargetCpu(c, t)
<1>1. T = c
  BY DEF TargetCpu
<1>2. /\ Accepts(qs, c, t) /\ N \in [Cpus -> Seq(Threads)]
      /\ N = [qs EXCEPT ![T] = Append(@, t)]
      /\ \A d \in Cpus : /\ Distinct(N[d])
                         /\ Elems(N[d]) = IF d = T THEN Elems(qs[d]) \cup {t}
                                                  ELSE Elems(qs[d])
  BY Add
<1> HIDE DEF N, T
<1>3. N[c] = Append(qs[c], t) /\ \A d \in Cpus : d # c => N[d] = qs[d]
  BY <1>1, <1>2
<1>4. Elems(N[c]) = Elems(qs[c]) \cup {t} /\ \A d \in Cpus : Distinct(N[d])
  BY <1>1, <1>2
<1>5. AtEnd(N, qs, c, t)
  BY <1>2, <1>3, <1>4 DEF AtEnd
<1> QED
  BY <1>2, <1>5 DEF N

-----------------------------------------------------------------------------
(* The initial state.                                                      *)

LEMMA NoScanType == NoScan \in [cpu : Cpus \cup {-1}, left : 0 .. QueueLimit,
                              best : Threads \cup {None}, before : Seq(Threads)]
                   /\ NoScan.cpu = -1 /\ NoScan.best = None /\ NoScan.left = 0
<1>1. << >> \in Seq(Threads) /\ 0 \in 0 .. QueueLimit
  BY Constants
<1> QED
  BY <1>1 DEF NoScan

LEMMA InitIInv ==
    ASSUME RegularUse, Init
    PROVE  IInv
<1>1. \A c \in Cpus : queue[c] = << >> /\ Elems(queue[c]) = {} /\ Distinct(queue[c])
                      /\ Len(queue[c]) = 0
  BY DEF Init, Elems, Distinct
<1>2. Used = {} /\ Cardinality(Used) = 0
  BY FS_EmptySet DEF Init, Used, FreeWaitSlots
<1>3. TypeOK
  <2>1. queue \in [Cpus -> Seq(Threads)]
    BY DEF Init
  <2>2. Affinity \in [Threads -> (SUBSET Cpus) \ {{}}]
    <3>1. Cpus # {}
      BY SchedulerAssumption DEF Cpus
    <3> QED
      BY <3>1 DEF Init
  <2>3. WaitQueue \in [WaitSlots -> [thread : Threads \cup {None},
                                    channel : Channels \cup {None}]]
    BY DEF Init, NoWaiter
  <2>4. State \in [Threads -> {"Ready", "Running", "Sleeping", "Blocked",
                              "Zombie", "Stopped"}]
        /\ Priority \in [Threads -> Priorities]
        /\ Current \in [Cpus -> Threads \cup {None}]
        /\ running \in [Cpus -> Threads \cup {None}]
        /\ timers \subseteq Threads /\ owed \subseteq Threads
    BY DEF Init
  <2>5. WaitQueueCount \in 0 .. WaitLimit /\ \A c \in Cpus : Len(queue[c]) <= QueueLimit
    BY <1>1, Constants DEF Init
  <2>6. scan \in [cpu : Cpus \cup {-1}, left : 0 .. QueueLimit,
                 best : Threads \cup {None}, before : Seq(Threads)]
    BY NoScanType DEF Init
  <2> QED
    BY <2>1, <2>2, <2>3, <2>4, <2>5, <2>6 DEF TypeOK
<1>4. Queues /\ Queued
  BY <1>1 DEF Queues, Queued
<1>5. Scan
  BY NoScanType DEF Init, Scan
<1>6. Run /\ Sleepers /\ NotLost
  BY DEF Init, Run, Sleepers, NotLost
<1>7. Waiters
  BY <1>2 DEF Init, Waiters
<1> QED
  BY <1>3, <1>4, <1>5, <1>6, <1>7 DEF IInv

-----------------------------------------------------------------------------
(* AddRunnableThread, PickNext and PreemptCurrent.                         *)

LEMMA AddRunnableThreadIInv ==
    ASSUME RegularUse, IInv, NEW c \in Cpus, NEW t \in Threads, AddRunnableThread(c, t)
    PROVE  IInv'
<1> USE DEF IInv
<1> DEFINE T == TargetCpu(c, t)
<1>1. \A d \in Cpus : t \notin Elems(queue[d])
  BY DEF AddRunnableThread, Queued, Available
<1>2. queue \in [Cpus -> Seq(Threads)] /\ (\A d \in Cpus : Distinct(queue[d]))
      /\ Affinity \in [Threads -> (SUBSET Cpus) \ {{}}]
  BY DEF TypeOK, Queues
<1>3. /\ Accepts(queue, c, t) /\ T \in Affinity[t] /\ T \in Cpus
      /\ queue' \in [Cpus -> Seq(Threads)]
      /\ \A d \in Cpus : Distinct(queue'[d])
      /\ \A d \in Cpus : Elems(queue'[d]) = IF d = T THEN Elems(queue[d]) \cup {t}
                                                    ELSE Elems(queue[d])
  <2> DEFINE N == Added(queue, c, t)
  <2>1. /\ Accepts(queue, c, t) /\ T \in Affinity[t] /\ T \in Cpus
        /\ N \in [Cpus -> Seq(Threads)]
        /\ \A d \in Cpus : /\ Distinct(N[d])
                           /\ Elems(N[d]) = IF d = T THEN Elems(queue[d]) \cup {t}
                                                    ELSE Elems(queue[d])
    BY <1>1, <1>2, Add
  <2>2. queue' = N
    BY DEF AddRunnableThread
  <2> HIDE DEF N, T
  <2> QED
    BY <2>1, <2>2
<1> HIDE DEF T
<1>4. /\ scan = NoScan /\ t \in owed /\ ~IsRunning(t) /\ owed' = owed \ {t}
      /\ State' = [State EXCEPT ![t] = "Ready"]
      /\ UNCHANGED <<attributes, Current, waits, scan, running>>
  BY <1>3 DEF AddRunnableThread, Readied
<1>5. State[t] = "Ready" /\ State' = State
  BY <1>4 DEF Sleepers, TypeOK
<1>6. TypeOK'
  <2>1. \A d \in Cpus : Len(queue'[d]) <= QueueLimit
    BY <1>3, Room
  <2> QED
    BY <1>3, <1>4, <1>5, <2>1 DEF TypeOK, attributes, waits
<1>7. Queues'
  BY <1>1, <1>3 DEF Queues
<1>8. Queued'
  <2>1. \A u, d : Available(u, d) => Available(u, d)'
    BY <1>4, <1>5 DEF Available, attributes
  <2>2. ASSUME NEW d \in Cpus, d = T PROVE Available(t, d)'
    BY <1>3, <1>4, <1>5, <2>2 DEF Available, attributes, IsRunning
  <2>3. scan' = scan /\ scan.best # t
    BY <1>4, NoScanType, Constants
  <2> QED
    BY <1>3, <2>1, <2>2, <2>3 DEF Queued
<1>9. Scan'
  BY <1>4, NoScanType DEF Scan
<1>10. Run' /\ Sleepers'
  BY <1>4, <1>5 DEF Run, Sleepers, waits
<1>11. Waiters'
  BY <1>4, <1>5 DEF Waiters, Used, FreeWaitSlots, waits
<1>12. NotLost'
  <2>1. \A u : IsQueued(u) <=> \E d \in Cpus : u \in Elems(queue[d])
    BY DEF IsQueued, Elems
  <2>2. \A u : IsQueued(u)' <=> \E d \in Cpus : u \in Elems(queue'[d])
    BY DEF IsQueued, Elems
  <2> QED
    BY <1>3, <1>4, <1>5, <2>1, <2>2 DEF NotLost
<1> QED
  BY <1>6, <1>7, <1>8, <1>9, <1>10, <1>11, <1>12

\* The thread a CPU is given by PickNext, and where the search begins.
LEMMA BeginPickIInv ==
    ASSUME RegularUse, IInv, NEW c \in Cpus, scan = NoScan,
           NEW qs \in [Cpus -> Seq(Threads)], queue' = qs, BeginPick(c, qs),
           \A d \in Cpus : Distinct(qs[d]),
           \A d, e \in Cpus : \A u \in Elems(qs[d]) : u \in Elems(qs[e]) => d = e,
           State' \in [Threads -> {"Ready", "Running", "Sleeping", "Blocked",
                                   "Zombie", "Stopped"}],
           \A u \in Threads : State'[u] = "Blocked" <=> State[u] = "Blocked",
           \A u \in Threads : State[u] \in {"Ready", "Sleeping"} => State'[u] = State[u],
           \A u \in Threads :
               State'[u] = "Ready" => u \in owed \/ \E d \in Cpus : u \in Elems(qs[d]),
           \A d \in Cpus : \A u \in Elems(qs[d]) :
               /\ State'[u] = "Ready" /\ u \notin owed /\ d \in Affinity[u]
               /\ \A e \in Cpus : e # c => running[e] # u,
           UNCHANGED <<attributes, Current, waits, owed>>
    PROVE  IInv'
<1> USE DEF IInv
<1>1. /\ TypeOK /\ UNCHANGED <<Priority, Affinity, Current, owed>>
      /\ UNCHANGED <<WaitQueue, WaitQueueCount, timers>>
  BY DEF attributes, waits
<1>2. /\ \A u : IsQueued(u)' <=> \E d \in Cpus : u \in Elems(qs[d])
  BY DEF IsQueued, Elems
<1>3. \A d \in Cpus : Len(qs[d]) \in Nat /\ Len(qs[d]) <= QueueLimit
  BY Room
<1>4. /\ scan' \in [cpu : Cpus \cup {-1}, left : 0 .. QueueLimit,
                    best : Threads \cup {None}, before : Seq(Threads)]
      /\ scan'.best = None
      /\ scan'.cpu \in {c, -1}
      /\ scan'.cpu = -1 => scan' = NoScan
      /\ scan' # NoScan => scan'.left = Len(queue'[scan'.cpu]) /\ scan'.left > 0
  <2>1. CASE qs[c] = << >>
    BY <2>1, NoScanType, Constants DEF BeginPick
  <2>2. CASE qs[c] # << >>
    <3>1. scan' = [cpu |-> c, left |-> Len(qs[c]), best |-> None, before |-> qs[c]]
      BY <2>2 DEF BeginPick
    <3>2. Len(qs[c]) > 0 /\ qs[c] \in Seq(Threads) /\ Len(qs[c]) \in 0 .. QueueLimit
      BY <2>2, <1>3, Constants
    <3> QED
      BY <3>1, <3>2, Constants
  <2> QED
    BY <2>1, <2>2
<1>5. /\ running' \in [Cpus -> Threads \cup {None}]
      /\ \A d \in Cpus : running'[d] # None => running'[d] = running[d]
      /\ running'[c] = None \/ scan'.cpu = c
      /\ scan'.cpu = c \/ scan'.cpu = -1
  <2>0. running \in [Cpus -> Threads \cup {None}]
    BY DEF TypeOK
  <2>1. CASE qs[c] = << >>
    <3>1. running' = [running EXCEPT ![c] = None]
      BY <2>1 DEF BeginPick
    <3> QED
      BY <1>4, <2>0, <3>1
  <2>2. CASE qs[c] # << >>
    <3>1. running' = running /\ scan'.cpu = c
      BY <2>2 DEF BeginPick
    <3> QED
      BY <1>4, <2>0, <3>1
  <2> QED
    BY <2>1, <2>2
<1>6. TypeOK'
  <2>1. \A d \in Cpus : Len(queue'[d]) <= QueueLimit
    BY <1>3
  <2> QED
    BY <1>1, <1>4, <1>5, <2>1 DEF TypeOK
<1>7. Queues'
  BY DEF Queues
<1>8. Queued'
  <2>1. ASSUME NEW d \in Cpus, NEW u \in Elems(qs[d]) PROVE Available(u, d)' /\ u # scan'.best
    <3>1. u \in Threads
      BY DEF Elems
    <3>2. ASSUME NEW e \in Cpus, e # scan'.cpu, running'[e] = u PROVE FALSE
      <4>1. running'[e] # None
        BY <3>1, <3>2, Constants
      <4>2. running[e] = u /\ e # c
        BY <1>5, <3>2, <4>1
      <4> QED
        BY <4>2
    <3> QED
      BY <1>1, <1>4, <3>1, <3>2, Constants DEF Available
  <2> QED
    BY <2>1 DEF Queued
<1>9. Scan'
  BY <1>3, <1>4 DEF Scan
<1>10. Run'
  <2>1. /\ \A d \in Cpus : running[d] # None => Current[d] = running[d]
        /\ \A d, e \in Cpus : running[d] # None /\ running[d] = running[e] => d = e
    BY DEF Run
  <2>2. \A d \in Cpus : running'[d] # None => running'[d] = running[d]
    BY <1>5
  <2>3. \A d \in Cpus : running'[d] # None => Current'[d] = running'[d]
    BY <1>1, <2>1, <2>2
  <2>4. ASSUME NEW d \in Cpus, NEW e \in Cpus, running'[d] # None, running'[d] = running'[e]
        PROVE  d = e
    BY <2>1, <2>2, <2>4
  <2> QED
    BY <2>3, <2>4 DEF Run
<1>11. Sleepers'
  BY <1>1 DEF Sleepers, TypeOK
<1>12. Waiters'
  <2>1. Used' = Used /\ WaitQueue' = WaitQueue /\ WaitQueueCount' = WaitQueueCount
    BY <1>1 DEF Used, FreeWaitSlots
  <2> QED
    BY <2>1 DEF Waiters
<1>13. NotLost'
  BY <1>1, <1>2 DEF NotLost
<1> QED
  BY <1>6, <1>7, <1>8, <1>9, <1>10, <1>11, <1>12, <1>13

LEMMA PickNextIInv ==
    ASSUME RegularUse, IInv, NEW c \in Cpus, PickNext(c)
    PROVE  IInv'
<1> USE DEF IInv
<1>1. /\ scan = NoScan /\ BeginPick(c, queue) /\ State' = State /\ queue' = queue
      /\ UNCHANGED <<attributes, Current, waits, owed>>
  BY DEF PickNext
<1>2. /\ queue \in [Cpus -> Seq(Threads)] /\ (\A d \in Cpus : Distinct(queue[d]))
      /\ \A d, e \in Cpus : \A u \in Elems(queue[d]) : u \in Elems(queue[e]) => d = e
  BY DEF TypeOK, Queues
<1>3. /\ State' \in [Threads -> {"Ready", "Running", "Sleeping", "Blocked",
                                   "Zombie", "Stopped"}]
      /\ \A u \in Threads : State'[u] = "Blocked" <=> State[u] = "Blocked"
      /\ \A u \in Threads : State[u] \in {"Ready", "Sleeping"} => State'[u] = State[u]
  BY <1>1 DEF TypeOK
<1>4. \A u \in Threads :
          State'[u] = "Ready" => u \in owed \/ \E d \in Cpus : u \in Elems(queue[d])
  BY <1>1, NoScanType, Constants DEF NotLost, IsQueued, Elems
<1>5. \A d \in Cpus : \A u \in Elems(queue[d]) :
               /\ State'[u] = "Ready" /\ u \notin owed /\ d \in Affinity[u]
               /\ \A e \in Cpus : e # c => running[e] # u
  BY <1>1, NoScanType, Constants DEF Queued, Available
<1> QED
  BY <1>1, <1>2, <1>3, <1>4, <1>5, BeginPickIInv

LEMMA PreemptCurrentIInv ==
    ASSUME RegularUse, IInv, NEW c \in Cpus, PreemptCurrent(c)
    PROVE  IInv'
<1> USE DEF IInv
<1> DEFINE t == running[c]
<1> DEFINE N == Added(queue, c, t)
<1>1. /\ scan = NoScan /\ t # None /\ State[t] = "Running"
      /\ UNCHANGED <<attributes, Current, waits, owed>>
  BY DEF PreemptCurrent, RegularUse
<1>2. t \in Threads /\ Current[c] = t
  BY <1>1 DEF TypeOK, Run
<1>3. State' = [State EXCEPT ![t] = "Ready"] /\ queue' = N /\ BeginPick(c, N)
  BY <1>1, <1>2 DEF PreemptCurrent
<1>4. \A d \in Cpus : t \notin Elems(queue[d])
  BY <1>1 DEF Queued, Available
<1>5. queue \in [Cpus -> Seq(Threads)] /\ (\A d \in Cpus : Distinct(queue[d]))
      /\ Affinity \in [Threads -> (SUBSET Cpus) \ {{}}]
  BY DEF TypeOK, Queues
<1>6. PICK T \in Cpus : /\ T \in Affinity[t]
                        /\ N \in [Cpus -> Seq(Threads)]
                        /\ \A d \in Cpus :
                             /\ Distinct(N[d])
                             /\ Elems(N[d]) = IF d = T THEN Elems(queue[d]) \cup {t}
                                                       ELSE Elems(queue[d])
  <2>1. \A u \in Threads : (\A d \in Cpus : u \notin Elems(queue[d])) =>
           \E T \in Cpus :
             /\ T \in Affinity[u]
             /\ Added(queue, c, u) \in [Cpus -> Seq(Threads)]
             /\ \A d \in Cpus :
                  /\ Distinct(Added(queue, c, u)[d])
                  /\ Elems(Added(queue, c, u)[d]) =
                       IF d = T THEN Elems(queue[d]) \cup {u} ELSE Elems(queue[d])
    <3>1. TAKE u \in Threads
    <3>2. HAVE \A d \in Cpus : u \notin Elems(queue[d])
    <3> DEFINE TT == TargetCpu(c, u)
               M == Added(queue, c, u)
    <3>3. /\ TT \in Affinity[u] /\ TT \in Cpus
          /\ M \in [Cpus -> Seq(Threads)]
          /\ \A d \in Cpus : /\ Distinct(M[d])
                             /\ Elems(M[d]) = IF d = TT THEN Elems(queue[d]) \cup {u}
                                                       ELSE Elems(queue[d])
      BY <1>5, <3>2, Add
    <3> HIDE DEF TT, M
    <3>4. \E T \in Cpus : /\ T \in Affinity[u]
                          /\ M \in [Cpus -> Seq(Threads)]
                          /\ \A d \in Cpus :
                               /\ Distinct(M[d])
                               /\ Elems(M[d]) = IF d = T THEN Elems(queue[d]) \cup {u}
                                                         ELSE Elems(queue[d])
      BY <3>3
    <3> QED
      BY <3>4 DEF M
  <2> QED
    BY <1>2, <1>4, <2>1
<1> HIDE DEF t, N
<1>7. \A d, e \in Cpus : \A u \in Elems(N[d]) : u \in Elems(N[e]) => d = e
  BY <1>4, <1>6 DEF Queues
<1>8. /\ State \in [Threads -> {"Ready", "Running", "Sleeping", "Blocked",
                                   "Zombie", "Stopped"}]
      /\ State'[t] = "Ready" /\ \A u \in Threads : u # t => State'[u] = State[u]
      /\ State' \in [Threads -> {"Ready", "Running", "Sleeping", "Blocked",
                                   "Zombie", "Stopped"}]
  BY <1>2, <1>3 DEF TypeOK
<1>9. /\ \A u \in Threads : State'[u] = "Blocked" <=> State[u] = "Blocked"
      /\ \A u \in Threads : State[u] \in {"Ready", "Sleeping"} => State'[u] = State[u]
  BY <1>1, <1>8
<1>10. \A u \in Threads :
          State'[u] = "Ready" => u \in owed \/ \E d \in Cpus : u \in Elems(N[d])
  <2>1. \A u \in Threads :
          State[u] = "Ready" => u \in owed \/ \E d \in Cpus : u \in Elems(queue[d])
    BY <1>1, NoScanType, Constants DEF NotLost, IsQueued, Elems
  <2> QED
    BY <1>6, <1>8, <2>1
<1>11. \A d \in Cpus : \A u \in Elems(queue[d]) :
               /\ State'[u] = "Ready" /\ u \notin owed /\ d \in Affinity[u]
               /\ \A e \in Cpus : e # c => running[e] # u
  <2>1. \A d \in Cpus : \A u \in Elems(queue[d]) :
               /\ State[u] = "Ready" /\ u \notin owed /\ d \in Affinity[u]
               /\ \A e \in Cpus : running[e] # u
    BY <1>1, NoScanType, Constants DEF Queued, Available
  <2>2. \A d \in Cpus : \A u \in Elems(queue[d]) : u \in Threads
    BY <1>5 DEF Elems
  <2> QED
    BY <1>1, <1>8, <2>1, <2>2
<1>12. t \notin owed /\ \A e \in Cpus : e # c => running[e] # t
  <2>1. t \notin owed
    BY <1>1 DEF Sleepers
  <2> QED
    BY <1>1, <2>1 DEF Run, t
<1>13. \A d \in Cpus : \A u \in Elems(N[d]) :
               /\ State'[u] = "Ready" /\ u \notin owed /\ d \in Affinity[u]
               /\ \A e \in Cpus : e # c => running[e] # u
  <2>1. SUFFICES ASSUME NEW d \in Cpus, NEW u \in Elems(N[d])
                 PROVE  /\ State'[u] = "Ready" /\ u \notin owed /\ d \in Affinity[u]
                        /\ \A e \in Cpus : e # c => running[e] # u
    OBVIOUS
  <2>2. CASE u \in Elems(queue[d])
    BY <1>11, <2>2
  <2>3. CASE u \notin Elems(queue[d])
    <3>1. u = t /\ d = T
      BY <1>6, <2>3
    <3> QED
      BY <1>6, <1>8, <1>12, <3>1
  <2> QED
    BY <2>2, <2>3
<1>14. N \in [Cpus -> Seq(Threads)] /\ \A d \in Cpus : Distinct(N[d])
  BY <1>6
<1> QED
  BY <1>1, <1>3, <1>7, <1>8, <1>9, <1>10, <1>13, <1>14, BeginPickIInv

\* The loop goes on with this queue when its head was taken.
LEMMA Popped ==
    ASSUME IInv, scan.left > 0
    PROVE  LET c == scan.cpu
               t == Head(queue[c])
               P == [queue EXCEPT ![c] = Tail(@)]
           IN  /\ scan # NoScan /\ c \in Cpus /\ t \in Threads /\ t \in Elems(queue[c])
               /\ t # scan.best /\ Available(t, c)
               /\ queue[c] \in Seq(Threads) /\ queue[c] # << >>
               /\ P \in [Cpus -> Seq(Threads)] /\ P[c] = Tail(queue[c])
               /\ Len(P[c]) = Len(queue[c]) - 1 /\ Len(queue[c]) \in Nat
               /\ \A d \in Cpus : d # c => P[d] = queue[d]
               /\ \A d \in Cpus : Distinct(P[d]) /\ t \notin Elems(P[d])
                                  /\ Elems(P[d]) = Elems(queue[d]) \ {t}
<1> USE DEF IInv
<1> DEFINE c == scan.cpu
           t == Head(queue[c])
           P == [queue EXCEPT ![c] = Tail(@)]
<1>1. scan # NoScan /\ c \in Cpus
  BY NoScanType DEF Scan, TypeOK
<1>2. queue \in [Cpus -> Seq(Threads)] /\ queue[c] \in Seq(Threads) /\ Distinct(queue[c])
      /\ scan.left \in Nat
  BY <1>1 DEF TypeOK, Queues
<1>3. queue[c] # << >>
  <2>1. scan.left <= Len(queue[c])
    BY <1>1 DEF Scan
  <2> QED
    BY <1>2, <2>1
<1>4. /\ Tail(queue[c]) \in Seq(Threads) /\ Len(Tail(queue[c])) = Len(queue[c]) - 1
      /\ Len(queue[c]) \in Nat
      /\ t \in Threads /\ t \in Elems(queue[c])
      /\ Distinct(Tail(queue[c])) /\ Elems(Tail(queue[c])) = Elems(queue[c]) \ {t}
  BY <1>2, <1>3, Pop
<1>5. /\ P \in [Cpus -> Seq(Threads)] /\ P[c] = Tail(queue[c])
      /\ \A d \in Cpus : d # c => P[d] = queue[d]
  BY <1>1, <1>2, <1>4
<1> HIDE DEF P, t
<1>6. t # scan.best /\ Available(t, c)
  BY <1>1, <1>4 DEF Queued
<1>7. \A d \in Cpus : d # c => t \notin Elems(queue[d])
  BY <1>1, <1>4 DEF Queues
<1>8. \A d \in Cpus : Distinct(P[d]) /\ t \notin Elems(P[d])
                                  /\ Elems(P[d]) = Elems(queue[d]) \ {t}
  BY <1>4, <1>5, <1>7 DEF Queues
<1> QED
  BY <1>1, <1>2, <1>3, <1>4, <1>5, <1>6, <1>8 DEF P, t

\* A step of the loop that keeps the threads in the queues and in the hands of
\* PickNext keeps the invariant.
LEMMA LoopStep ==
    ASSUME RegularUse, IInv, scan.left > 0, NEW w \in Threads, Available(w, scan.cpu),
           scan' = [cpu |-> scan.cpu, left |-> scan.left - 1, best |-> w,
                    before |-> scan.before],
           State' = State, UNCHANGED <<attributes, Current, waits, running, owed>>,
           queue' \in [Cpus -> Seq(Threads)], \A d \in Cpus : Distinct(queue'[d]),
           \A d \in Cpus : w \notin Elems(queue'[d]),
           scan.left - 1 <= Len(queue'[scan.cpu]),
           \A d \in Cpus : d # scan.cpu => queue'[d] = queue[d],
           \A u \in Threads : u \in Elems(queue'[scan.cpu]) \/ u = w
                                <=> u \in Elems(queue[scan.cpu]) \/ u = scan.best
    PROVE  IInv'
<1> USE DEF IInv
<1> DEFINE c == scan.cpu
<1>1. /\ scan # NoScan /\ c \in Cpus /\ scan'.cpu = c
      /\ scan'.best = w /\ scan'.left = scan.left - 1
      /\ scan.left \in 0 .. QueueLimit /\ scan.before \in Seq(Threads)
  BY Popped DEF TypeOK
<1>2. /\ TypeOK /\ UNCHANGED <<Priority, Affinity, Current, owed, running>>
      /\ UNCHANGED <<WaitQueue, WaitQueueCount, timers>>
  BY DEF attributes, waits
<1>3. \A u, d : Available(u, d) => Available(u, d)'
  BY <1>1, <1>2 DEF Available
<1>4. \A d \in Cpus : \A u \in Elems(queue'[d]) : u \in Threads
  BY DEF Elems
<1>5. w # None
  BY Constants
<1>6. \A d \in Cpus : \A u \in Elems(queue'[d]) : Available(u, d)
  <2>1. SUFFICES ASSUME NEW d \in Cpus, NEW u \in Elems(queue'[d]) PROVE Available(u, d)
    OBVIOUS
  <2>2. u \in Threads /\ u # None
    BY <1>4, Constants
  <2>3. CASE d = c
    <3>1. u \in Elems(queue[c]) \/ u = scan.best
      BY <1>1, <2>2, <2>3
    <3> QED
      BY <1>1, <2>2, <2>3, <3>1 DEF Queued, Scan
  <2>4. CASE d # c
    BY <1>1, <2>4 DEF Queued
  <2> QED
    BY <2>3, <2>4
<1>7. TypeOK'
  <2>1. \A d \in Cpus : Len(queue'[d]) <= QueueLimit
    BY Room
  <2>2. scan' \in [cpu : Cpus \cup {-1}, left : 0 .. QueueLimit,
                   best : Threads \cup {None}, before : Seq(Threads)]
    <3>1. scan.left - 1 \in 0 .. QueueLimit
      BY <1>1, Constants
    <3> QED
      BY <1>1, <3>1
  <2> QED
    BY <1>2, <2>1, <2>2 DEF TypeOK
<1>8. Queues'
  <2>1. ASSUME NEW d \in Cpus, NEW e \in Cpus, NEW u \in Elems(queue'[d]),
               u \in Elems(queue'[e]), d = c, e # c
        PROVE  FALSE
    <3>1. u \in Threads /\ u # None /\ u \in Elems(queue[e])
      BY <1>4, <2>1, Constants
    <3>2. u \in Elems(queue[c]) \/ u = scan.best
      BY <2>1, <3>1
    <3> QED
      BY <1>1, <2>1, <3>1, <3>2 DEF Queues, Queued
  <2>2. \A d, e \in Cpus : \A u \in Elems(queue'[d]) : u \in Elems(queue'[e]) => d = e
    <3>1. SUFFICES ASSUME NEW d \in Cpus, NEW e \in Cpus, NEW u \in Elems(queue'[d]),
                          u \in Elems(queue'[e]), d # e
                   PROVE  FALSE
      OBVIOUS
    <3>2. CASE d # c /\ e # c
      BY <3>1, <3>2 DEF Queues
    <3> QED
      BY <2>1, <3>1, <3>2
  <2> QED
    BY <2>2 DEF Queues
<1>9. Queued'
  BY <1>1, <1>3, <1>6 DEF Queued
<1>10. Scan'
  BY <1>1, <1>3, <1>5, Constants DEF Scan
<1>11. Run' /\ Sleepers'
  BY <1>2 DEF Run, Sleepers
<1>12. Waiters'
  <2>1. Used' = Used /\ WaitQueue' = WaitQueue /\ WaitQueueCount' = WaitQueueCount
    BY <1>2 DEF Used, FreeWaitSlots
  <2> QED
    BY <2>1 DEF Waiters
<1>13. NotLost'
  <2>1. \A u : IsQueued(u) <=> \E d \in Cpus : u \in Elems(queue[d])
    BY DEF IsQueued, Elems
  <2>2. \A u : IsQueued(u)' <=> \E d \in Cpus : u \in Elems(queue'[d])
    BY DEF IsQueued, Elems
  <2>3. ASSUME NEW u \in Threads, IsQueued(u) \/ scan.best = u
        PROVE  IsQueued(u)' \/ scan'.best = u
    <3>1. CASE \E d \in Cpus : d # c /\ u \in Elems(queue[d])
      BY <2>2, <3>1
    <3>2. CASE u \in Elems(queue[c]) \/ scan.best = u
      BY <1>1, <2>2, <3>2
    <3> QED
      BY <2>1, <2>3, <3>1, <3>2
  <2> QED
    BY <1>2, <2>3 DEF NotLost
<1> QED
  BY <1>7, <1>8, <1>9, <1>10, <1>11, <1>12, <1>13

\* What a step of the loop does to the queue: its head is the candidate, and the
\* one of lower priority, if there are two, is its new end.
LEMMA ScanStep ==
    ASSUME RegularUse, IInv, PickScan
    PROVE  LET c == scan.cpu
               t == Head(queue[c])
               w == IF Beats(t) THEN t ELSE scan.best
           IN  /\ w \in Threads /\ Available(w, c)
               /\ scan' = [cpu |-> c, left |-> scan.left - 1, best |-> w,
                           before |-> scan.before]
               /\ State' = State
               /\ queue' \in [Cpus -> Seq(Threads)] /\ (\A d \in Cpus : Distinct(queue'[d]))
               /\ \A d \in Cpus : w \notin Elems(queue'[d])
               /\ scan.left - 1 <= Len(queue'[c])
               /\ \A d \in Cpus : d # c => queue'[d] = queue[d]
               /\ \A u \in Threads : u \in Elems(queue'[c]) \/ u = w
                                        <=> u \in Elems(queue[c]) \/ u = scan.best
               /\ queue'[c] = IF Loser(t) = None THEN Tail(queue[c])
                                                 ELSE Append(Tail(queue[c]), Loser(t))
<1> USE DEF IInv
<1> DEFINE c == scan.cpu
           t == Head(queue[c])
           P == [queue EXCEPT ![c] = Tail(@)]
           w == IF Beats(t) THEN t ELSE scan.best
           l == Loser(t)
<1>1. /\ scan.left > 0 /\ UNCHANGED <<attributes, Current, waits, running, owed>>
      /\ scan' = [cpu |-> c, left |-> scan.left - 1, best |-> w, before |-> scan.before]
      /\ l = None => queue' = P /\ State' = State
      /\ l # None => queue' = Added(P, c, l) /\ State' = Readied(State, P, c, l)
  BY DEF PickScan
<1>2. /\ scan # NoScan /\ c \in Cpus /\ t \in Threads /\ t \in Elems(queue[c])
      /\ t # scan.best /\ Available(t, c)
      /\ P \in [Cpus -> Seq(Threads)]
      /\ Len(P[c]) = Len(queue[c]) - 1 /\ Len(queue[c]) \in Nat
      /\ \A d \in Cpus : d # c => P[d] = queue[d]
      /\ \A d \in Cpus : Distinct(P[d]) /\ t \notin Elems(P[d])
                         /\ Elems(P[d]) = Elems(queue[d]) \ {t}
  BY <1>1, Popped
<1>9. P[c] = Tail(queue[c])
  BY <1>1, Popped
<1>3. scan.left \in Nat /\ scan.left <= Len(queue[c]) /\ scan.best \in Threads \cup {None}
      /\ State \in [Threads -> {"Ready", "Running", "Sleeping", "Blocked",
                                   "Zombie", "Stopped"}]
      /\ Affinity \in [Threads -> (SUBSET Cpus) \ {{}}]
  BY <1>2 DEF Scan, TypeOK
<1>4. /\ scan.best = None => w = t /\ l = None
      /\ scan.best # None => w \in {t, scan.best} /\ l \in {t, scan.best} /\ w # l
                             /\ (w = t <=> l = scan.best)
      /\ t # None
  BY <1>2, Constants DEF Beats, Loser
<1>5. scan.best # None => Available(scan.best, c) /\ \A d \in Cpus : scan.best \notin Elems(queue[d])
  BY DEF Scan, Queued
<1> HIDE DEF P, t, w, l
<1>6. w \in Threads /\ Available(w, c)
  BY <1>2, <1>3, <1>4, <1>5
<1>7. CASE scan.best = None
  <2>1. queue' = P /\ State' = State /\ w = t
    BY <1>1, <1>4, <1>7
  <2>2. queue' \in [Cpus -> Seq(Threads)] /\ (\A d \in Cpus : Distinct(queue'[d]))
        /\ \A d \in Cpus : w \notin Elems(queue'[d])
    BY <1>2, <2>1
  <2>3. scan.left - 1 <= Len(queue'[c])
    BY <1>2, <1>3, <2>1
  <2>4. \A d \in Cpus : d # c => queue'[d] = queue[d]
    BY <1>2, <2>1
  <2>5. \A u \in Threads : u \in Elems(queue'[c]) \/ u = w
                                <=> u \in Elems(queue[c]) \/ u = scan.best
    BY <1>2, <1>7, <2>1, Constants
  <2> QED
    BY <1>1, <1>4, <1>6, <1>7, <1>9, <2>1, <2>2, <2>3, <2>4, <2>5 DEF w, l, t
<1>8. CASE scan.best # None
  <2>1. l \in Threads /\ Available(l, c) /\ l # None
    BY <1>2, <1>3, <1>4, <1>5, <1>8
  <2>2. \A d \in Cpus : l \notin Elems(P[d]) /\ w \notin Elems(P[d])
    BY <1>2, <1>4, <1>5, <1>8
  <2> DEFINE N == Added(P, c, l)
  <2>3. /\ Accepts(P, c, l) /\ N \in [Cpus -> Seq(Threads)]
        /\ \A d \in Cpus : Distinct(N[d])
        /\ N[c] = Append(P[c], l)
        /\ Elems(N[c]) = Elems(P[c]) \cup {l}
        /\ \A d \in Cpus : d # c => N[d] = P[d]
    <3>1. c \in Affinity[l]
      BY <2>1 DEF Available
    <3>2. P \in [Cpus -> Seq(Threads)] /\ l \in Threads /\ c \in Cpus
          /\ (\A d \in Cpus : Distinct(P[d])) /\ \A d \in Cpus : l \notin Elems(P[d])
      BY <1>2, <2>1, <2>2
    <3> HIDE DEF N, c
    <3>3. Accepts(P, c, l) /\ AtEnd(Added(P, c, l), P, c, l)
      BY <1>3, <3>1, <3>2, AddHere
    <3>4. AtEnd(N, P, c, l)
      BY <3>3 DEF N
    <3> QED
      BY <3>3, <3>4 DEF AtEnd
  <2>5. State' = State
    <3>1. State' = [State EXCEPT ![l] = "Ready"]
      BY <1>1, <2>1, <2>3 DEF Readied
    <3> QED
      BY <1>3, <2>1, <3>1 DEF Available
  <2> HIDE DEF N
  <2>6. queue' = N
    BY <1>1, <2>1 DEF N
  <2>8. queue' \in [Cpus -> Seq(Threads)] /\ (\A d \in Cpus : Distinct(queue'[d]))
        /\ \A d \in Cpus : w \notin Elems(queue'[d])
    <3>1. \A d \in Cpus : w \notin Elems(N[d])
      BY <1>2, <1>4, <1>8, <2>2, <2>3
    <3> QED
      BY <2>3, <2>6, <3>1
  <2>9. scan.left - 1 <= Len(queue'[c])
    <3>1. P[c] \in Seq(Threads) /\ Len(Append(P[c], l)) = Len(P[c]) + 1
      BY <1>2
    <3> QED
      BY <1>2, <1>3, <2>3, <2>6, <3>1
  <2>10. \A d \in Cpus : d # c => queue'[d] = queue[d]
    BY <1>2, <2>3, <2>6
  <2>11. Elems(queue'[c]) = Elems(P[c]) \cup {l}
    BY <2>3, <2>6
  <2>12. \A u \in Threads : u \in Elems(queue'[c]) \/ u = w
                                <=> u \in Elems(queue[c]) \/ u = scan.best
    BY <1>2, <1>4, <1>8, <2>11
  <2> QED
    BY <1>1, <1>6, <1>9, <2>1, <2>3, <2>5, <2>6, <2>8, <2>9, <2>10, <2>12 DEF w, l, t
<1> QED
  BY <1>7, <1>8

LEMMA PickScanIInv ==
    ASSUME RegularUse, IInv, PickScan
    PROVE  IInv'
<1> DEFINE c == scan.cpu
           t == Head(queue[c])
           w == IF Beats(t) THEN t ELSE scan.best
<1>1. scan.left > 0 /\ UNCHANGED <<attributes, Current, waits, running, owed>>
  BY DEF PickScan
<1>2. /\ w \in Threads /\ Available(w, c)
      /\ scan' = [cpu |-> c, left |-> scan.left - 1, best |-> w, before |-> scan.before]
      /\ State' = State
      /\ queue' \in [Cpus -> Seq(Threads)] /\ (\A d \in Cpus : Distinct(queue'[d]))
      /\ \A d \in Cpus : w \notin Elems(queue'[d])
      /\ scan.left - 1 <= Len(queue'[c])
      /\ \A d \in Cpus : d # c => queue'[d] = queue[d]
      /\ \A u \in Threads : u \in Elems(queue'[c]) \/ u = w
                               <=> u \in Elems(queue[c]) \/ u = scan.best
  BY ScanStep
<1> HIDE DEF w
<1> QED
  BY <1>1, <1>2, LoopStep

LEMMA PickEndIInv ==
    ASSUME RegularUse, IInv, PickEnd
    PROVE  IInv'
<1> USE DEF IInv
<1> DEFINE c == scan.cpu
           b == scan.best
<1>1. /\ scan # NoScan /\ scan.left = 0 /\ scan' = NoScan /\ queue' = queue
      /\ Current' = [Current EXCEPT ![c] = b] /\ running' = [running EXCEPT ![c] = b]
      /\ State' = [State EXCEPT ![b] = "Running"]
      /\ UNCHANGED <<Priority, Affinity, owed, WaitQueue, WaitQueueCount, timers>>
  BY DEF PickEnd, attributes, waits
<1>2. c \in Cpus /\ b \in Threads /\ Available(b, c)
  BY <1>1 DEF Scan, TypeOK
<1> HIDE DEF c, b
<1>3. /\ State \in [Threads -> {"Ready", "Running", "Sleeping", "Blocked",
                                "Zombie", "Stopped"}]
      /\ Current \in [Cpus -> Threads \cup {None}] /\ running \in [Cpus -> Threads \cup {None}]
  BY DEF TypeOK
<1>4. /\ State'[b] = "Running" /\ State[b] = "Ready" /\ b \notin owed
      /\ \A u \in Threads : u # b => State'[u] = State[u]
      /\ State' \in [Threads -> {"Ready", "Running", "Sleeping", "Blocked",
                                "Zombie", "Stopped"}]
  BY <1>1, <1>2, <1>3 DEF Available
<1>5. /\ Current'[c] = b /\ running'[c] = b
      /\ \A d \in Cpus : d # c => Current'[d] = Current[d] /\ running'[d] = running[d]
      /\ Current' \in [Cpus -> Threads \cup {None}] /\ running' \in [Cpus -> Threads \cup {None}]
      /\ \A d \in Cpus : d # c => running[d] # b
  BY <1>1, <1>2, <1>3 DEF Available, c
<1>6. TypeOK'
  <2>1. \A d \in Cpus : Len(queue'[d]) <= QueueLimit
    BY <1>1 DEF TypeOK
  <2> QED
    BY <1>1, <1>4, <1>5, <2>1, NoScanType DEF TypeOK
<1>7. Queues'
  BY <1>1 DEF Queues
<1>8. Queued'
  <2>1. ASSUME NEW d \in Cpus, NEW u \in Elems(queue[d]) PROVE Available(u, d)' /\ u # None
    <3>1. u \in Threads
      BY DEF Elems, TypeOK
    <3>2. Available(u, d) /\ u # b
      BY DEF Queued, b
    <3> QED
      BY <1>1, <1>4, <1>5, <3>1, <3>2, Constants DEF Available, c
  <2> QED
    BY <1>1, <2>1, NoScanType DEF Queued
<1>9. Scan'
  BY <1>1, NoScanType DEF Scan
<1>10. Run'
  <2>1. /\ \A d \in Cpus : running[d] # None => Current[d] = running[d]
        /\ \A d, e \in Cpus : running[d] # None /\ running[d] = running[e] => d = e
    BY DEF Run
  <2>2. \A d \in Cpus : running'[d] # None => Current'[d] = running'[d]
    BY <1>2, <1>5, <2>1
  <2>3. ASSUME NEW d \in Cpus, NEW e \in Cpus, running'[d] # None, running'[d] = running'[e]
        PROVE  d = e
    <3>1. CASE d # c /\ e # c
      BY <1>5, <2>1, <2>3, <3>1
    <3> QED
      BY <1>5, <2>3, <3>1
  <2> QED
    BY <2>2, <2>3 DEF Run
<1>11. Sleepers'
  <2>1. timers \subseteq Threads /\ owed \subseteq Threads /\ b \notin timers
    BY <1>4 DEF TypeOK, Sleepers
  <2> QED
    BY <1>1, <1>4, <2>1 DEF Sleepers
<1>12. Waiters'
  <2>1. Used' = Used /\ WaitQueue' = WaitQueue /\ WaitQueueCount' = WaitQueueCount
    BY <1>1 DEF Used, FreeWaitSlots
  <2>2. \A u \in Threads : State'[u] = "Blocked" <=> State[u] = "Blocked"
    BY <1>4
  <2> QED
    BY <2>1, <2>2 DEF Waiters
<1>13. NotLost'
  <2>1. \A u : IsQueued(u)' <=> IsQueued(u)
    BY <1>1 DEF IsQueued
  <2> QED
    BY <1>1, <1>4, <2>1 DEF NotLost, b
<1> QED
  BY <1>6, <1>7, <1>8, <1>9, <1>10, <1>11, <1>12, <1>13

-----------------------------------------------------------------------------
(* What a CPU does for its thread, the attributes, and waking.             *)

\* Whatever leaves the queues and the CPUs alone keeps what is queued: a thread
\* that was ready stays so, and one that becomes ready is owed.
LEMMA Kept ==
    ASSUME IInv, scan = NoScan,
           UNCHANGED <<queue, Current, scan, running>>,
           \A u \in Threads : State[u] = "Ready" =>
               State'[u] = "Ready" /\ Affinity'[u] = Affinity[u] /\ (u \in owed' => u \in owed),
           \A u \in Threads : State'[u] = "Ready" => State[u] = "Ready" \/ u \in owed',
           owed \subseteq owed'
    PROVE  Queues' /\ Queued' /\ Scan' /\ Run' /\ NotLost'
<1> USE DEF IInv
<1>1. Queues' /\ Run'
  BY DEF Queues, Run
<1>2. Queued'
  <2>1. ASSUME NEW d \in Cpus, NEW u \in Elems(queue[d]) PROVE Available(u, d)' /\ u # scan.best
    <3>1. u \in Threads
      BY DEF Elems, TypeOK
    <3>2. Available(u, d) /\ u # scan.best
      BY DEF Queued
    <3> QED
      BY <3>1, <3>2 DEF Available
  <2> QED
    BY <2>1 DEF Queued
<1>3. Scan'
  BY NoScanType DEF Scan
<1>4. NotLost'
  <2>1. \A u : IsQueued(u)' <=> IsQueued(u)
    BY DEF IsQueued
  <2> QED
    BY <2>1 DEF NotLost
<1> QED
  BY <1>1, <1>2, <1>3, <1>4

\* Whatever leaves the wait queue and the blocked threads alone keeps them paired.
LEMMA KeptWaiters ==
    ASSUME IInv, UNCHANGED <<WaitQueue, WaitQueueCount>>,
           \A u \in Threads : State'[u] = "Blocked" <=> State[u] = "Blocked"
    PROVE  Waiters'
<1>1. Used' = Used
  BY DEF Used, FreeWaitSlots
<1> QED
  BY <1>1 DEF IInv, Waiters

LEMMA EndThreadIInv ==
    ASSUME RegularUse, IInv, NEW c \in Cpus, NEW t \in Threads,
           NEW final \in {"Zombie", "Stopped"}, EndThread(c, t, final)
    PROVE  IInv'
<1> USE DEF IInv
<1>1. /\ scan = NoScan /\ State[t] = "Running" /\ State' = [State EXCEPT ![t] = final]
      /\ UNCHANGED <<Priority, Affinity, queue, Current, WaitQueue, WaitQueueCount, timers,
                     scan, running, owed>>
  BY DEF EndThread, Runs, attributes, waits
<1>2. /\ State'[t] = final /\ \A u \in Threads : u # t => State'[u] = State[u]
      /\ State' \in [Threads -> {"Ready", "Running", "Sleeping", "Blocked",
                                "Zombie", "Stopped"}]
  BY <1>1 DEF TypeOK
<1>3. TypeOK'
  <2>1. \A d \in Cpus : Len(queue'[d]) <= QueueLimit
    BY <1>1 DEF TypeOK
  <2> QED
    BY <1>1, <1>2, <2>1 DEF TypeOK
<1>4. Queues' /\ Queued' /\ Scan' /\ Run' /\ NotLost'
  BY <1>1, <1>2, Kept
<1>5. Sleepers'
  BY <1>1, <1>2 DEF Sleepers, TypeOK
<1>6. Waiters'
  BY <1>1, <1>2, KeptWaiters
<1> QED
  BY <1>3, <1>4, <1>5, <1>6

LEMMA SleepUntilIInv ==
    ASSUME RegularUse, IInv, NEW c \in Cpus, NEW t \in Threads, SleepUntil(c, t)
    PROVE  IInv'
<1> USE DEF IInv
<1>1. /\ scan = NoScan /\ State[t] = "Running" /\ State' = [State EXCEPT ![t] = "Sleeping"]
      /\ timers' = timers \cup {t}
      /\ UNCHANGED <<Priority, Affinity, queue, Current, WaitQueue, WaitQueueCount,
                     scan, running, owed>>
  BY DEF SleepUntil, Runs, attributes
<1>2. /\ State'[t] = "Sleeping" /\ \A u \in Threads : u # t => State'[u] = State[u]
      /\ State' \in [Threads -> {"Ready", "Running", "Sleeping", "Blocked",
                                "Zombie", "Stopped"}]
  BY <1>1 DEF TypeOK
<1>3. TypeOK'
  <2>1. \A d \in Cpus : Len(queue'[d]) <= QueueLimit
    BY <1>1 DEF TypeOK
  <2>2. timers' \subseteq Threads
    BY <1>1 DEF TypeOK
  <2> QED
    BY <1>1, <1>2, <2>1, <2>2 DEF TypeOK
<1>4. Queues' /\ Queued' /\ Scan' /\ Run' /\ NotLost'
  BY <1>1, <1>2, Kept
<1>5. Sleepers'
  BY <1>1, <1>2 DEF Sleepers, TypeOK
<1>6. Waiters'
  BY <1>1, <1>2, KeptWaiters
<1> QED
  BY <1>3, <1>4, <1>5, <1>6

LEMMA SleepExpiresIInv ==
    ASSUME RegularUse, IInv, NEW t \in Threads, SleepExpires(t)
    PROVE  IInv'
<1> USE DEF IInv
<1>1. /\ scan = NoScan /\ t \in timers /\ State' = [State EXCEPT ![t] = "Ready"]
      /\ timers' = timers \ {t} /\ owed' = owed \cup {t}
      /\ UNCHANGED <<Priority, Affinity, queue, Current, WaitQueue, WaitQueueCount,
                     scan, running>>
  BY DEF SleepExpires, attributes
<1>2. /\ State[t] = "Sleeping"
      /\ State'[t] = "Ready" /\ \A u \in Threads : u # t => State'[u] = State[u]
      /\ State' \in [Threads -> {"Ready", "Running", "Sleeping", "Blocked",
                                "Zombie", "Stopped"}]
  BY <1>1 DEF TypeOK, Sleepers
<1>3. TypeOK'
  <2>1. \A d \in Cpus : Len(queue'[d]) <= QueueLimit
    BY <1>1 DEF TypeOK
  <2>2. timers' \subseteq Threads /\ owed' \subseteq Threads
    BY <1>1 DEF TypeOK
  <2> QED
    BY <1>1, <1>2, <2>1, <2>2 DEF TypeOK
<1>4. Queues' /\ Queued' /\ Scan' /\ Run' /\ NotLost'
  BY <1>1, <1>2, Kept
<1>5. Sleepers'
  BY <1>1, <1>2 DEF Sleepers, TypeOK
<1>6. Waiters'
  BY <1>1, <1>2, KeptWaiters
<1> QED
  BY <1>3, <1>4, <1>5, <1>6

LEMMA AttributesIInv ==
    ASSUME RegularUse, IInv, NEW t \in Threads,
           \/ \E p \in Priorities : SetPriority(t, p)
           \/ \E mask \in SUBSET Cpus : SetCpuAffinity(t, mask)
    PROVE  IInv'
<1> USE DEF IInv
<1>1. /\ scan = NoScan
      /\ UNCHANGED <<State, queue, Current, WaitQueue, WaitQueueCount, timers,
                     scan, running, owed>>
  BY DEF SetPriority, SetCpuAffinity, waits
<1>2. Priority' \in [Threads -> Priorities]
  BY DEF SetPriority, SetCpuAffinity, TypeOK
<1>3. /\ Affinity' \in [Threads -> (SUBSET Cpus) \ {{}}]
      /\ \A u \in Threads : State[u] = "Ready" => Affinity'[u] = Affinity[u]
  <2>1. CASE \E p \in Priorities : SetPriority(t, p)
    BY <2>1 DEF SetPriority, TypeOK
  <2>2. CASE \E mask \in SUBSET Cpus : SetCpuAffinity(t, mask)
    BY <2>2 DEF SetCpuAffinity, Runs, TypeOK
  <2> QED
    BY <2>1, <2>2
<1>4. TypeOK'
  <2>1. \A d \in Cpus : Len(queue'[d]) <= QueueLimit
    BY <1>1 DEF TypeOK
  <2> QED
    BY <1>1, <1>2, <1>3, <2>1 DEF TypeOK
<1>5. Queues' /\ Queued' /\ Scan' /\ Run' /\ NotLost'
  BY <1>1, <1>3, Kept
<1>6. Sleepers'
  BY <1>1 DEF Sleepers
<1>7. Waiters'
  BY <1>1, KeptWaiters
<1> QED
  BY <1>4, <1>5, <1>6, <1>7

\* The slots in use are finitely many, and no more than there are slots.
LEMMA UsedSlots ==
    ASSUME NEW S \in SUBSET WaitSlots
    PROVE  IsFiniteSet(S) /\ Cardinality(S) \in Nat /\ Cardinality(S) <= WaitLimit
<1>1. WaitLimit \in Nat
  BY Constants
<1>2. IsFiniteSet(1 .. WaitLimit)
      /\ Cardinality(1 .. WaitLimit) = IF 1 > WaitLimit THEN 0 ELSE WaitLimit - 1 + 1
  BY <1>1, FS_Interval
<1>3. Cardinality(1 .. WaitLimit) = WaitLimit
  BY <1>1, <1>2
<1>4. S \subseteq 1 .. WaitLimit
  BY DEF WaitSlots
<1>5. IsFiniteSet(S) /\ Cardinality(S) <= Cardinality(1 .. WaitLimit)
  BY <1>2, <1>4, FS_Subset
<1> QED
  BY <1>3, <1>5, FS_CardinalityType

LEMMA WaitIInv ==
    ASSUME RegularUse, IInv, NEW c \in Cpus, NEW t \in Threads, NEW channel \in Channels,
           Wait(c, t, channel)
    PROVE  IInv'
<1> USE DEF IInv
<1> DEFINE w == [thread |-> t, channel |-> channel]
<1>1. PICK i \in WaitSlots : /\ WaitQueue[i] = NoWaiter
                             /\ WaitQueue' = [WaitQueue EXCEPT ![i] = w]
  BY DEF Wait, IsFirst, FreeWaitSlots
<1>2. /\ scan = NoScan /\ State[t] = "Running" /\ State' = [State EXCEPT ![t] = "Blocked"]
      /\ WaitQueueCount' = WaitQueueCount + 1
      /\ UNCHANGED <<Priority, Affinity, queue, Current, timers, scan, running, owed>>
  BY DEF Wait, Runs, attributes
<1>3. /\ State'[t] = "Blocked" /\ \A u \in Threads : u # t => State'[u] = State[u]
      /\ State' \in [Threads -> {"Ready", "Running", "Sleeping", "Blocked",
                                "Zombie", "Stopped"}]
  BY <1>2 DEF TypeOK
<1>4. w \in [thread : Threads \cup {None}, channel : Channels \cup {None}]
      /\ w.thread = t /\ w # NoWaiter
  BY Constants DEF NoWaiter
<1> HIDE DEF w
<1>5. /\ WaitQueue' \in [WaitSlots -> [thread : Threads \cup {None},
                                      channel : Channels \cup {None}]]
      /\ WaitQueue'[i] = w /\ \A j \in WaitSlots : j # i => WaitQueue'[j] = WaitQueue[j]
  BY <1>1, <1>4 DEF TypeOK
<1>6. i \notin Used /\ Used' = Used \cup {i} /\ Used' \in SUBSET WaitSlots
  BY <1>1, <1>4, <1>5 DEF Used, FreeWaitSlots
<1>7. WaitQueueCount' = Cardinality(Used') /\ WaitQueueCount' \in 0 .. WaitLimit
  <2>1. IsFiniteSet(Used)
    BY UsedSlots DEF Used
  <2>2. Cardinality(Used \cup {i}) = Cardinality(Used) + 1
    BY <1>6, <2>1, FS_AddElement
  <2>3. WaitQueueCount' = Cardinality(Used')
    BY <1>2, <1>6, <2>2 DEF Waiters
  <2>4. Cardinality(Used') \in Nat /\ Cardinality(Used') <= WaitLimit
    BY <1>6, UsedSlots
  <2> QED
    BY <2>3, <2>4, Constants
<1>8. TypeOK'
  <2>1. \A d \in Cpus : Len(queue'[d]) <= QueueLimit
    BY <1>2 DEF TypeOK
  <2> QED
    BY <1>2, <1>3, <1>5, <1>7, <2>1 DEF TypeOK
<1>9. Queues' /\ Queued' /\ Scan' /\ Run' /\ NotLost'
  BY <1>2, <1>3, Kept
<1>10. Sleepers'
  BY <1>2, <1>3 DEF Sleepers, TypeOK
<1>11. Waiters'
  <2>1. \A j \in Used : j \in WaitSlots /\ j # i /\ WaitQueue'[j] = WaitQueue[j]
                        /\ WaitQueue[j].thread \in Threads /\ WaitQueue[j].thread # t
    BY <1>2, <1>5, <1>6 DEF Used, Waiters
  <2>2. \A j \in Used' : WaitQueue'[j].thread \in Threads
                         /\ State'[WaitQueue'[j].thread] = "Blocked"
    BY <1>3, <1>4, <1>5, <1>6, <2>1 DEF Waiters
  <2>3. \A j, k \in Used' : WaitQueue'[j].thread = WaitQueue'[k].thread => j = k
    BY <1>4, <1>5, <1>6, <2>1 DEF Waiters
  <2>4. \A u \in Threads : State'[u] = "Blocked" => \E j \in Used' : WaitQueue'[j].thread = u
    BY <1>3, <1>4, <1>5, <1>6, <2>1 DEF Waiters
  <2> QED
    BY <1>7, <2>2, <2>3, <2>4 DEF Waiters
<1> QED
  BY <1>8, <1>9, <1>10, <1>11

\* WakeOne and WakeAll clear slots in use; nothing else in the wait queue changes.
LEMMA WakeIInv ==
    ASSUME RegularUse, IInv, scan = NoScan, NEW slots \in SUBSET Used, Wake(slots)
    PROVE  IInv'
<1> USE DEF IInv
<1> DEFINE woken == {WaitQueue[i].thread : i \in slots}
<1>1. /\ WaitQueue' = [i \in WaitSlots |-> IF i \in slots THEN NoWaiter ELSE WaitQueue[i]]
      /\ WaitQueueCount' = WaitQueueCount - Cardinality(slots)
      /\ State' = [u \in Threads |-> IF u \in woken THEN "Ready" ELSE State[u]]
      /\ owed' = owed \cup woken
      /\ UNCHANGED <<Priority, Affinity, queue, Current, timers, scan, running>>
  BY DEF Wake, attributes
<1>2. /\ Used \subseteq WaitSlots
      /\ \A u : u \in woken <=> \E i \in slots : WaitQueue[i].thread = u
      /\ \A i \in slots : i \in Used /\ WaitQueue[i].thread \in Threads
                          /\ State[WaitQueue[i].thread] = "Blocked"
  BY DEF Used, Waiters
<1>3. woken \subseteq Threads /\ \A u \in woken : State[u] = "Blocked"
  BY <1>2
<1> HIDE DEF woken
<1>4. /\ State' \in [Threads -> {"Ready", "Running", "Sleeping", "Blocked",
                                "Zombie", "Stopped"}]
      /\ \A u \in woken : State'[u] = "Ready"
      /\ \A u \in Threads : u \notin woken => State'[u] = State[u]
  BY <1>1, <1>3 DEF TypeOK
<1>5. /\ WaitQueue' \in [WaitSlots -> [thread : Threads \cup {None},
                                      channel : Channels \cup {None}]]
      /\ \A i \in WaitSlots : WaitQueue'[i] = IF i \in slots THEN NoWaiter ELSE WaitQueue[i]
  BY <1>1 DEF TypeOK, NoWaiter
<1>6. Used' = Used \ slots
  BY <1>2, <1>5 DEF Used, FreeWaitSlots
<1>7. WaitQueueCount' = Cardinality(Used') /\ WaitQueueCount' \in 0 .. WaitLimit
  <2>1. IsFiniteSet(Used) /\ Cardinality(Used) \in Nat
    BY <1>2, UsedSlots
  <2>2. Cardinality(Used \ slots) = Cardinality(Used) - Cardinality(Used \cap slots)
    BY <2>1, FS_Difference
  <2>3. Used \cap slots = slots
    OBVIOUS
  <2>4. WaitQueueCount' = Cardinality(Used')
    BY <1>1, <1>6, <2>2, <2>3 DEF Waiters
  <2>5. Used' \in SUBSET WaitSlots
    BY <1>2, <1>6
  <2>6. Cardinality(Used') \in Nat /\ Cardinality(Used') <= WaitLimit
    BY <2>5, UsedSlots
  <2> QED
    BY <2>4, <2>6, Constants
<1>8. TypeOK'
  <2>1. \A d \in Cpus : Len(queue'[d]) <= QueueLimit
    BY <1>1 DEF TypeOK
  <2>2. owed' \subseteq Threads
    BY <1>1, <1>3 DEF TypeOK
  <2> QED
    BY <1>1, <1>4, <1>5, <1>7, <2>1, <2>2 DEF TypeOK
<1>9. Queues' /\ Queued' /\ Scan' /\ Run' /\ NotLost'
  <2>1. /\ UNCHANGED <<queue, Current, scan, running>>
        /\ owed \subseteq owed'
        /\ \A u \in Threads : State[u] = "Ready" =>
               State'[u] = "Ready" /\ Affinity'[u] = Affinity[u] /\ (u \in owed' => u \in owed)
        /\ \A u \in Threads : State'[u] = "Ready" => State[u] = "Ready" \/ u \in owed'
    BY <1>1, <1>3, <1>4
  <2> QED
    BY <2>1, Kept
<1>10. Sleepers'
  <2>1. timers \subseteq Threads /\ owed \subseteq Threads
    BY DEF TypeOK
  <2> QED
    BY <1>1, <1>3, <1>4, <2>1 DEF Sleepers
<1>11. Waiters'
  <2>1. \A j \in Used' : /\ j \in Used /\ WaitQueue'[j] = WaitQueue[j]
                         /\ WaitQueue[j].thread \notin woken
    BY <1>2, <1>5, <1>6 DEF Waiters
  <2>2. \A j \in Used' : WaitQueue'[j].thread \in Threads
                         /\ State'[WaitQueue'[j].thread] = "Blocked"
    BY <1>4, <2>1 DEF Waiters
  <2>3. \A j, k \in Used' : WaitQueue'[j].thread = WaitQueue'[k].thread => j = k
    BY <2>1 DEF Waiters
  <2>4. ASSUME NEW u \in Threads, State'[u] = "Blocked"
        PROVE  \E j \in Used' : WaitQueue'[j].thread = u
    <3>1. u \notin woken /\ State[u] = "Blocked"
      BY <1>4, <2>4
    <3>2. PICK j \in Used : WaitQueue[j].thread = u
      BY <3>1 DEF Waiters
    <3>3. j \notin slots /\ WaitQueue'[j] = WaitQueue[j]
      BY <1>2, <1>5, <3>1, <3>2
    <3> QED
      BY <1>6, <3>2, <3>3
  <2> QED
    BY <1>7, <2>2, <2>3, <2>4 DEF Waiters
<1> QED
  BY <1>8, <1>9, <1>10, <1>11

LEMMA WakeUpsIInv ==
    ASSUME RegularUse, IInv, NEW channel, WakeOne(channel) \/ WakeAll(channel)
    PROVE  IInv'
<1>1. Waiting(channel) \subseteq Used
  BY DEF Waiting, Used
<1>2. CASE WakeOne(channel)
  <2>1. PICK i \in WaitSlots : scan = NoScan /\ i \in Waiting(channel) /\ Wake({i})
    BY <1>2 DEF WakeOne, IsFirst
  <2>2. {i} \in SUBSET Used
    BY <1>1, <2>1
  <2> QED
    BY <2>1, <2>2, WakeIInv
<1>3. CASE WakeAll(channel)
  <2>1. scan = NoScan /\ Wake(Waiting(channel)) /\ Waiting(channel) \in SUBSET Used
    BY <1>1, <1>3 DEF WakeAll
  <2> QED
    BY <2>1, WakeIInv
<1> QED
  BY <1>2, <1>3

-----------------------------------------------------------------------------
(* The theorems.                                                           *)

LEMMA NextIInv ==
    ASSUME RegularUse, IInv, [Next]_vars
    PROVE  IInv'
<1>1. CASE Pick
  BY <1>1, PickScanIInv, PickEndIInv DEF Pick
<1>2. CASE \E c \in Cpus : Dispatch(c)
  BY <1>2, PickNextIInv, PreemptCurrentIInv DEF Dispatch
<1>3. CASE \E c \in Cpus, t \in Threads : AddRunnableThread(c, t) \/ ThreadStep(c, t)
  <2>1. PICK c \in Cpus, t \in Threads : AddRunnableThread(c, t) \/ ThreadStep(c, t)
    BY <1>3
  <2>2. CASE AddRunnableThread(c, t)
    BY <2>2, AddRunnableThreadIInv
  <2>3. CASE ThreadStep(c, t)
    BY <2>3, WaitIInv, SleepUntilIInv, EndThreadIInv DEF ThreadStep
  <2> QED
    BY <2>1, <2>2, <2>3
<1>4. CASE \/ \E t \in Threads, p \in Priorities : SetPriority(t, p)
           \/ \E t \in Threads, mask \in SUBSET Cpus : SetCpuAffinity(t, mask)
  BY <1>4, AttributesIInv
<1>5. CASE \E channel \in Channels \cup {None} : WakeOne(channel) \/ WakeAll(channel)
  BY <1>5, WakeUpsIInv
<1>6. CASE \E t \in Threads : SleepExpires(t)
  BY <1>6, SleepExpiresIInv
<1>7. CASE UNCHANGED vars
  <2>1. IInv' <=> IInv
    BY <1>7 DEF vars, IInv, TypeOK, Queues, Queued, Available, Scan, Run, Sleepers,
                Waiters, Used, FreeWaitSlots, NotLost, IsQueued
  <2> QED
    BY <2>1
<1> QED
  BY <1>1, <1>2, <1>3, <1>4, <1>5, <1>6, <1>7 DEF Next

\* What a place says about its thread.
LEMMA PlaceOf ==
    ASSUME NEW t, NEW p \in Places(t)
    PROVE  \/ \E c \in Cpus : \E i \in 1 .. Len(queue[c]) :
                p = <<"queue", c, i>> /\ queue[c][i] = t
           \/ \E c \in Cpus : p = <<"cpu", c, 0>> /\ c # scan.cpu /\ running[c] = t
           \/ p = <<"scan", scan.cpu, 0>> /\ scan.cpu \in Cpus /\ scan.best = t
<1>1. CASE p \in {x \in {"queue"} \X Cpus \X (1 .. QueueLimit) :
                    x[3] <= Len(queue[x[2]]) /\ queue[x[2]][x[3]] = t}
  <2>1. PICK c \in Cpus, i \in 1 .. QueueLimit : p = <<"queue", c, i>>
    BY <1>1
  <2>2. i <= Len(queue[c]) /\ queue[c][i] = t
    BY <1>1, <2>1
  <2>3. i \in 1 .. Len(queue[c])
    BY <2>2, Constants
  <2> QED
    BY <2>1, <2>2, <2>3
<1>2. CASE p \in {x \in {"cpu"} \X Cpus \X {0} : x[2] # scan.cpu /\ running[x[2]] = t}
  BY <1>2
<1>3. CASE p \in {x \in {"scan"} \X Cpus \X {0} : x[2] = scan.cpu /\ scan.best = t}
  BY <1>3
<1> QED
  BY <1>1, <1>2, <1>3 DEF Places

LEMMA IInvOnePlace ==
    ASSUME IInv
    PROVE  OnePlace
<1> USE DEF IInv
<1> SUFFICES ASSUME NEW t \in Threads, NEW p \in Places(t), NEW q \in Places(t)
             PROVE  p = q
  BY DEF OnePlace
<1> DEFINE Q(x) == \E c \in Cpus : \E i \in 1 .. Len(queue[c]) :
                     x = <<"queue", c, i>> /\ queue[c][i] = t
           C(x) == \E c \in Cpus : x = <<"cpu", c, 0>> /\ c # scan.cpu /\ running[c] = t
           S(x) == x = <<"scan", scan.cpu, 0>> /\ scan.cpu \in Cpus /\ scan.best = t
<1>1. (Q(p) \/ C(p) \/ S(p)) /\ (Q(q) \/ C(q) \/ S(q))
  BY PlaceOf
<1>2. t # None
  BY Constants
<1>3. \A x, y : Q(x) /\ Q(y) => x = y
  <2>1. SUFFICES ASSUME NEW x, NEW y, Q(x), Q(y) PROVE x = y
    OBVIOUS
  <2>2. PICK c \in Cpus : \E i \in 1 .. Len(queue[c]) : x = <<"queue", c, i>> /\ queue[c][i] = t
    BY <2>1
  <2>3. PICK i \in 1 .. Len(queue[c]) : x = <<"queue", c, i>> /\ queue[c][i] = t
    BY <2>2
  <2>4. PICK d \in Cpus : \E j \in 1 .. Len(queue[d]) : y = <<"queue", d, j>> /\ queue[d][j] = t
    BY <2>1
  <2>5. PICK j \in 1 .. Len(queue[d]) : y = <<"queue", d, j>> /\ queue[d][j] = t
    BY <2>4
  <2>6. c = d
    BY <2>3, <2>5 DEF Queues, Elems
  <2> QED
    BY <2>3, <2>5, <2>6 DEF Queues, Distinct
<1>4. \A x : Q(x) => State[t] = "Ready" /\ t # scan.best
                     /\ \A d \in Cpus : d # scan.cpu => running[d] # t
  BY DEF Queued, Available, Elems
<1>5. \A x : S(x) => \A d \in Cpus : d # scan.cpu => running[d] # t
  BY <1>2 DEF Scan, Available
<1>6. \A x, y : C(x) /\ C(y) => x = y
  BY <1>2 DEF Run
<1>7. \A x, y : S(x) /\ S(y) => x = y
  OBVIOUS
<1>8. \A x, y : Q(x) => ~C(y) /\ ~S(y)
  BY <1>4
<1>9. \A x, y : S(x) => ~C(y)
  BY <1>5
<1> HIDE DEF Q, C, S
<1> QED
  BY <1>1, <1>3, <1>6, <1>7, <1>8, <1>9

LEMMA IInvWaitersBlocked ==
    ASSUME IInv
    PROVE  WaitersBlocked
<1> USE DEF IInv
<1>1. WaitQueueCount = Cardinality(WaitSlots \ FreeWaitSlots)
  BY DEF Waiters, Used
<1>2. ASSUME NEW t \in Threads
      PROVE  Cardinality({i \in WaitSlots : WaitQueue[i].thread = t}) =
                IF State[t] = "Blocked" THEN 1 ELSE 0
  <2> DEFINE S == {i \in WaitSlots : WaitQueue[i].thread = t}
  <2>1. \A i \in S : i \in Used
    BY Constants DEF Used, FreeWaitSlots, NoWaiter
  <2>2. CASE State[t] = "Blocked"
    <3>1. PICK i \in Used : WaitQueue[i].thread = t
      BY <2>2 DEF Waiters
    <3>2. S = {i}
      BY <2>1, <3>1 DEF Waiters, Used
    <3>3. Cardinality({i}) = 1
      BY FS_Singleton
    <3> QED
      BY <2>2, <3>2, <3>3
  <2>3. CASE State[t] # "Blocked"
    <3>1. S = {}
      BY <2>1, <2>3 DEF Waiters
    <3>2. Cardinality({}) = 0
      BY FS_EmptySet
    <3> QED
      BY <2>3, <3>1, <3>2
  <2> QED
    BY <2>2, <2>3
<1>3. ASSUME NEW t \in Threads, State[t] = "Blocked"
      PROVE  ~IsQueued(t)
  BY <1>3 DEF Queued, Available, IsQueued, Elems
<1> QED
  BY <1>1, <1>2, <1>3 DEF WaitersBlocked

LEMMA IInvSound ==
    ASSUME IInv
    PROVE  ThreadsAccounted
<1>1. AffinityEnforced
  BY DEF IInv, Scan, Available, AffinityEnforced
<1> QED
  BY <1>1, IInvOnePlace, IInvWaitersBlocked DEF ThreadsAccounted, IInv

\* Every thread is where its state says, in one run queue, on one CPU or in one
\* wait slot, and PickNext gives it only to a CPU of its mask.
THEOREM ThreadsAlwaysAccounted ==
    ASSUME RegularUse
    PROVE  Spec => []ThreadsAccounted
<1>1. Init => IInv
  BY InitIInv
<1>2. IInv /\ [Next]_vars => IInv'
  BY NextIInv
<1>3. IInv => ThreadsAccounted
  BY IInvSound
<1> QED
  BY <1>1, <1>2, <1>3, PTL DEF Spec

\* Only a thread that runs, waits, sleeps or is ready changes its state.
LEMMA StaysEnded ==
    ASSUME RegularUse, IInv, IInv', [Next]_vars, NEW t \in Threads,
           State[t] \in {"Zombie", "Stopped"}
    PROVE  State'[t] = State[t] /\ t \notin owed'
<1> USE DEF IInv
<1>1. State \in [Threads -> {"Ready", "Running", "Sleeping", "Blocked",
                             "Zombie", "Stopped"}]
  BY DEF TypeOK
<1>2. \A u \in Threads : \A s : u # t => [State EXCEPT ![u] = s][t] = State[t]
  BY <1>1
<1>3. \A qs, c : \A u \in Threads : u # t => Readied(State, qs, c, u)[t] = State[t]
  BY <1>2 DEF Readied
<1>4. State'[t] = State[t]
  <2>1. CASE PickScan
    <3>1. scan.left > 0
      BY <2>1 DEF PickScan
    <3>2. /\ Head(queue[scan.cpu]) \in Threads /\ State[Head(queue[scan.cpu])] = "Ready"
      BY <3>1, Popped DEF Available
    <3>3. scan.best # None => scan.best \in Threads /\ State[scan.best] = "Ready"
      BY DEF Scan, Available, TypeOK
    <3> DEFINE l == Loser(Head(queue[scan.cpu]))
    <3>4. l = None \/ (l \in Threads /\ l # t)
      BY <3>2, <3>3 DEF Loser
    <3>5. \/ State' = State
          \/ \E qs : l # None /\ State' = Readied(State, qs, scan.cpu, l)
      BY <2>1 DEF PickScan
    <3> HIDE DEF l
    <3> QED
      BY <1>3, <3>4, <3>5
  <2>2. CASE PickEnd
    <3>1. scan.best \in Threads /\ State[scan.best] = "Ready"
      BY <2>2 DEF PickEnd, Scan, Available, TypeOK
    <3> QED
      BY <1>2, <2>2, <3>1 DEF PickEnd
  <2>3. CASE \E c \in Cpus : PickNext(c)
    BY <2>3 DEF PickNext
  <2>4. ASSUME NEW c \in Cpus, PreemptCurrent(c) PROVE State'[t] = State[t]
    <3>1. /\ running[c] # None /\ State[running[c]] = "Running" /\ Current[c] = running[c]
          /\ running[c] \in Threads
      BY <2>4 DEF PreemptCurrent, RegularUse, Run, TypeOK
    <3>2. State' = [State EXCEPT ![running[c]] = "Ready"]
      BY <2>4, <3>1 DEF PreemptCurrent
    <3> QED
      BY <1>2, <3>1, <3>2
  <2>5. ASSUME NEW c \in Cpus, NEW u \in Threads, AddRunnableThread(c, u)
        PROVE  State'[t] = State[t]
    <3>1. State' = Readied(State, queue, c, u) /\ u # t
      BY <2>5 DEF AddRunnableThread, Sleepers
    <3> QED
      BY <1>3, <3>1
  <2>6. ASSUME NEW c \in Cpus, NEW u \in Threads, ThreadStep(c, u)
        PROVE  State'[t] = State[t]
    BY <1>2, <2>6 DEF ThreadStep, Wait, SleepUntil, EndThread, Runs
  <2>7. CASE \/ \E u \in Threads, p \in Priorities : SetPriority(u, p)
             \/ \E u \in Threads, mask \in SUBSET Cpus : SetCpuAffinity(u, mask)
    BY <2>7 DEF SetPriority, SetCpuAffinity
  <2>8. ASSUME NEW slots \in SUBSET Used, Wake(slots) PROVE State'[t] = State[t]
    <3>1. t \notin {WaitQueue[i].thread : i \in slots}
      BY DEF Waiters
    <3> QED
      BY <2>8, <3>1 DEF Wake
  <2>9. ASSUME NEW channel, WakeOne(channel) \/ WakeAll(channel) PROVE State'[t] = State[t]
    <3>1. Waiting(channel) \subseteq Used
      BY DEF Waiting, Used
    <3>2. CASE WakeOne(channel)
      <4>1. PICK i \in WaitSlots : i \in Waiting(channel) /\ Wake({i})
        BY <3>2 DEF WakeOne, IsFirst
      <4> QED
        BY <2>8, <3>1, <4>1
    <3> QED
      BY <2>8, <2>9, <3>1, <3>2 DEF WakeAll
  <2>10. ASSUME NEW u \in Threads, SleepExpires(u) PROVE State'[t] = State[t]
    BY <1>2, <2>10 DEF SleepExpires, Sleepers
  <2>11. CASE UNCHANGED vars
    BY <2>11 DEF vars
  <2> QED
    BY <2>1, <2>2, <2>3, <2>4, <2>5, <2>6, <2>7, <2>9, <2>10, <2>11 DEF Next, Pick, Dispatch
<1> QED
  BY <1>4 DEF Sleepers

\* ThreadExit and ThreadStop are final: nothing makes the thread ready again.
THEOREM EndedStaysEndedHolds ==
    ASSUME RegularUse
    PROVE  Spec => EndedStaysEnded
<1>1. Init => IInv
  BY InitIInv
<1>2. IInv /\ [Next]_vars => IInv'
  BY NextIInv
<1>3. IInv /\ IInv' /\ [Next]_vars =>
        [\A t \in Threads : State[t] \in {"Zombie", "Stopped"}
                              => State'[t] = State[t] /\ t \notin owed']_vars
  BY StaysEnded
<1> QED
  BY <1>1, <1>2, <1>3, PTL DEF Spec, EndedStaysEnded

-----------------------------------------------------------------------------
(* PickNext chooses the first of the best.                                 *)

\* b is the first of the best among the first k.
Leads(B, k, b, pri) ==
    \E m \in 1 .. k : /\ B[m] = b
                      /\ \A j \in 1 .. m - 1 : pri[B[j]] < pri[b]
                      /\ \A j \in 1 .. k : pri[B[j]] <= pri[b]

\* Those of b's priority among the first k are in q in the order of B.
Ordered(B, q, k, b, pri) ==
    \A i, j \in 1 .. k :
        (i < j /\ B[i] # b /\ pri[B[i]] = pri[b] /\ pri[B[j]] = pri[b])
            => ~Ahead(q, B[j], B[i])

\* The loop has to look at the last `left' threads of the queue B that it found:
\* they are the first of q, in their order, and the others of q it has looked at.
Loop(B, q, left, b, pri) ==
    /\ B \in Seq(Threads) /\ Distinct(B)
    /\ left \in 0 .. Len(B) /\ left <= Len(q)
    /\ \A i \in 1 .. left : q[i] = B[(Len(B) - left) + i]
    /\ \A i \in left + 1 .. Len(q) : \E j \in 1 .. Len(B) - left : q[i] = B[j]
    /\ b = None => left = Len(B)
    /\ b # None => /\ Leads(B, Len(B) - left, b, pri)
                   /\ Ordered(B, q, Len(B) - left, b, pri)

PickInv == scan # NoScan =>
    Loop(scan.before, queue[scan.cpu], scan.left, scan.best, Priority)

\* Looking at the next thread: it and the best one so far are told apart, one of
\* them is kept and the other, if there are two, goes to the end.
LEMMA LoopKeeps ==
    ASSUME NEW B, NEW q \in Seq(Threads), NEW left, NEW b \in Threads \cup {None},
           NEW pri \in [Threads -> Nat], Loop(B, q, left, b, pri), left > 0, Distinct(q),
           NEW r \in Seq(Threads), NEW w \in Threads, NEW l \in Threads \cup {None},
           r = IF l = None THEN Tail(q) ELSE Append(Tail(q), l),
           \/ b = None /\ w = Head(q) /\ l = None
           \/ b # None /\ pri[Head(q)] > pri[b] /\ w = Head(q) /\ l = b
           \/ b # None /\ ~(pri[Head(q)] > pri[b]) /\ w = b /\ l = Head(q)
    PROVE  Loop(B, r, left - 1, w, pri)
<1> DEFINE n == Len(B)
           k == n - left
           t == Head(q)
           T == Tail(q)
<1>1. /\ B \in Seq(Threads) /\ Distinct(B) /\ n \in Nat /\ left \in 1 .. n /\ left <= Len(q)
      /\ k \in Nat /\ k + 1 \in 1 .. n /\ n - (left - 1) = k + 1 /\ Len(q) \in Nat
      /\ \A i \in 1 .. n : B[i] \in Threads /\ pri[B[i]] \in Nat
  BY DEF Loop
<1>2. /\ q # << >> /\ None \notin Threads
  BY <1>1, Constants
<1>3. /\ T \in Seq(Threads) /\ Len(T) = Len(q) - 1 /\ t \in Threads /\ t = q[1]
      /\ \A i \in 1 .. Len(q) - 1 : T[i] = q[i + 1]
      /\ t \notin Elems(T)
  BY <1>2, Pop
<1>4. t = B[k + 1]
  <2>1. q[1] = B[(Len(B) - left) + 1]
    BY <1>1 DEF Loop
  <2> QED
    BY <1>3, <2>1
<1>5. /\ \A i \in 1 .. left - 1 : T[i] = B[(k + 1) + i]
      /\ \A i \in left .. Len(T) : \E j \in 1 .. k : T[i] = B[j]
  <2>1. ASSUME NEW i \in 1 .. left - 1 PROVE T[i] = B[(k + 1) + i]
    <3>1. i + 1 \in 1 .. left /\ i \in 1 .. Len(q) - 1 /\ k + (i + 1) = (k + 1) + i
      BY <1>1
    <3>2. q[i + 1] = B[k + (i + 1)]
      BY <3>1 DEF Loop
    <3> QED
      BY <1>3, <3>1, <3>2
  <2>2. ASSUME NEW i \in left .. Len(T) PROVE \E j \in 1 .. k : T[i] = B[j]
    <3>1. i + 1 \in left + 1 .. Len(q) /\ i \in 1 .. Len(q) - 1
      BY <1>1, <1>3
    <3>2. \E j \in 1 .. k : q[i + 1] = B[j]
      BY <3>1 DEF Loop
    <3> QED
      BY <1>3, <3>1, <3>2
  <2> QED
    BY <2>1, <2>2
<1>6. /\ b # None => Leads(B, k, b, pri) /\ Ordered(B, q, k, b, pri)
      /\ b = None => k = 0
  BY <1>1 DEF Loop
<1> HIDE DEF T, t, n, k
<1>7. /\ Len(T) \in Nat
      /\ l = None => r = T
      /\ l # None => Len(r) = Len(T) + 1 /\ r[Len(T) + 1] = l
      /\ \A i \in 1 .. Len(T) : r[i] = T[i]
  <2>1. CASE l = None
    BY <1>3, <2>1 DEF T
  <2>2. CASE l # None
    <3>1. l \in Threads /\ r = Append(T, l)
      BY <2>2 DEF T
    <3> QED
      BY <1>3, <2>2, <3>1
  <2> QED
    BY <2>1, <2>2
<1>8. l # None => \E j \in 1 .. k + 1 : l = B[j]
  <2>1. CASE l = b
    <3>1. b # None => \E j \in 1 .. k : b = B[j]
      BY <1>6 DEF Leads
    <3> QED
      BY <1>1, <2>1, <3>1
  <2>2. CASE l = t
    BY <1>1, <1>4, <2>2
  <2> QED
    BY <2>1, <2>2 DEF t
<1>9. left - 1 \in 0 .. n /\ left - 1 <= Len(r) /\ left - 1 <= Len(T)
  BY <1>1, <1>3, <1>7
<1>10. \A i \in 1 .. left - 1 : r[i] = B[(k + 1) + i]
  <2>1. \A i \in 1 .. left - 1 : i \in 1 .. Len(T)
    BY <1>1, <1>7, <1>9
  <2> QED
    BY <1>5, <1>7, <2>1
<1>15. \A j \in 1 .. k + 1 : j \in 1 .. n /\ (j \in 1 .. k \/ j = k + 1)
  BY <1>1
<1>11. ASSUME NEW i \in (left - 1) + 1 .. Len(r) PROVE \E j \in 1 .. k + 1 : r[i] = B[j]
  <2>1. i \in left .. Len(r)
    BY <1>1
  <2>2. CASE i <= Len(T)
    <3>1. i \in 1 .. Len(T) /\ i \in left .. Len(T)
      BY <1>1, <1>7, <2>1, <2>2
    <3>2. r[i] = T[i]
      BY <1>7, <3>1
    <3>3. PICK j \in 1 .. k : T[i] = B[j]
      BY <1>5, <3>1
    <3> QED
      BY <1>1, <3>2, <3>3
  <2>3. CASE ~(i <= Len(T))
    <3>1. l # None /\ i = Len(T) + 1
      BY <1>1, <1>7, <2>1, <2>3
    <3> QED
      BY <1>7, <1>8, <3>1
  <2> QED
    BY <2>2, <2>3
<1>12. Leads(B, k + 1, w, pri)
  <2>1. CASE b = None
    <3>1. k = 0 /\ w = B[1] /\ pri[w] \in Nat
      BY <1>1, <1>4, <1>6, <2>1 DEF t
    <3> QED
      BY <3>1 DEF Leads
  <2>2. CASE b # None /\ pri[t] > pri[b]
    <3>1. PICK m \in 1 .. k : /\ B[m] = b /\ \A j \in 1 .. k : pri[B[j]] <= pri[b]
      BY <1>6, <2>2 DEF Leads
    <3>2. w = t /\ pri[t] \in Nat /\ pri[b] \in Nat
      BY <1>1, <1>3, <2>2 DEF t
    <3>3. \A j \in 1 .. k : pri[B[j]] < pri[t]
      BY <1>1, <2>2, <3>1, <3>2
    <3>4. \A j \in 1 .. k + 1 : pri[B[j]] <= pri[t]
      <4>1. SUFFICES ASSUME NEW j \in 1 .. k + 1 PROVE pri[B[j]] <= pri[t]
        OBVIOUS
      <4>2. CASE j \in 1 .. k
        BY <1>1, <1>15, <3>2, <3>3, <4>2
      <4> QED
        BY <1>4, <1>15, <3>2, <4>2
    <3>5. (k + 1) - 1 = k /\ k + 1 \in 1 .. k + 1
      BY <1>1
    <3> QED
      BY <1>4, <3>2, <3>3, <3>4, <3>5 DEF Leads
  <2>3. CASE b # None /\ ~(pri[t] > pri[b])
    <3>1. PICK m \in 1 .. k : /\ B[m] = b
                              /\ \A j \in 1 .. m - 1 : pri[B[j]] < pri[b]
                              /\ \A j \in 1 .. k : pri[B[j]] <= pri[b]
      BY <1>6, <2>3 DEF Leads
    <3>2. w = b /\ pri[t] \in Nat /\ pri[b] \in Nat
      BY <1>3, <2>3 DEF t
    <3>3. \A j \in 1 .. k + 1 : pri[B[j]] <= pri[b]
      <4>1. SUFFICES ASSUME NEW j \in 1 .. k + 1 PROVE pri[B[j]] <= pri[b]
        OBVIOUS
      <4>2. CASE j \in 1 .. k
        BY <3>1, <4>2
      <4>3. CASE j = k + 1
        BY <1>4, <2>3, <3>2, <4>3
      <4> QED
        BY <1>15, <4>2, <4>3
    <3>4. m \in 1 .. k + 1
      BY <1>1
    <3> QED
      BY <3>1, <3>2, <3>3, <3>4 DEF Leads
  <2> QED
    BY <2>1, <2>2, <2>3 DEF t
<1>13. Ordered(B, r, k + 1, w, pri)
  <2>1. SUFFICES ASSUME NEW i \in 1 .. k + 1, NEW j \in 1 .. k + 1, i < j, B[i] # w,
                        pri[B[i]] = pri[w], pri[B[j]] = pri[w], Ahead(r, B[j], B[i])
                 PROVE  FALSE
    BY DEF Ordered
  <2>2. i \in 1 .. k /\ i \in 1 .. n /\ j \in 1 .. n /\ B[i] # t
    <3>1. i \in 1 .. k /\ i \in 1 .. n /\ j \in 1 .. n /\ i # k + 1
      BY <1>1, <1>15, <2>1
    <3>2. B[i] # B[k + 1]
      BY <1>1, <3>1 DEF Distinct, n
    <3> QED
      BY <1>4, <3>1, <3>2
  <2>3. b # None
    BY <1>6, <2>2
  <2>4. CASE pri[t] > pri[b]
    <3>1. w = t /\ pri[B[i]] <= pri[b] /\ pri[t] \in Nat /\ pri[b] \in Nat
      BY <1>3, <1>6, <2>2, <2>3, <2>4 DEF Leads, t
    <3> QED
      BY <1>1, <2>1, <2>2, <2>4, <3>1
  <2>5. CASE ~(pri[t] > pri[b])
    <3>1. w = b /\ l = t /\ l # None
      BY <1>2, <1>3, <2>3, <2>5 DEF t
    <3>2. PICK x, y \in 1 .. Len(r) : x < y /\ r[x] = B[j] /\ r[y] = B[i]
      BY <2>1 DEF Ahead
    <3>3. y \in 1 .. Len(T) /\ x \in 1 .. Len(T) /\ T[x] = B[j] /\ T[y] = B[i]
      <4>1. y # Len(T) + 1
        BY <1>7, <2>2, <3>1, <3>2
      <4>2. y \in 1 .. Len(T) /\ x \in 1 .. Len(T)
        <5>1. x \in Nat /\ y \in Nat /\ x < y /\ y <= Len(r) /\ x >= 1
          BY <1>7, <3>1, <3>2
        <5>2. Len(r) = Len(T) + 1 /\ Len(T) \in Nat
          BY <1>7, <3>1
        <5>3. \A d, e, f \in Nat : d < e /\ e <= f + 1 /\ e # f + 1 /\ d >= 1
                                    => e \in 1 .. f /\ d \in 1 .. f
          OBVIOUS
        <5>4. y <= Len(T) + 1
          BY <5>1, <5>2
        <5> QED
          BY <4>1, <5>1, <5>2, <5>3, <5>4
      <4> QED
        BY <1>7, <3>1, <3>2, <4>2
    <3>4. j \in 1 .. k
      <4>1. B[j] # t
        BY <1>3, <3>3 DEF Elems
      <4>2. j # k + 1
        BY <1>4, <4>1
      <4> QED
        BY <1>1, <4>2
    <3>5. /\ x + 1 \in 1 .. Len(q) /\ y + 1 \in 1 .. Len(q) /\ x + 1 < y + 1
          /\ q[x + 1] = B[j] /\ q[y + 1] = B[i]
      <4>1. x \in 1 .. Len(q) - 1 /\ y \in 1 .. Len(q) - 1
        BY <1>3, <3>3
      <4>2. T[x] = q[x + 1] /\ T[y] = q[y + 1]
        BY <1>3, <4>1
      <4>3. x + 1 \in 1 .. Len(q) /\ y + 1 \in 1 .. Len(q) /\ x + 1 < y + 1
        BY <1>1, <3>2, <4>1
      <4> QED
        BY <3>3, <4>2, <4>3
    <3>6. Ahead(q, B[j], B[i])
      BY <3>5 DEF Ahead
    <3> QED
      BY <1>6, <2>1, <2>2, <2>3, <3>1, <3>4, <3>6 DEF Ordered
  <2> QED
    BY <2>4, <2>5
<1>14. w # None
  BY <1>2
<1> QED
  BY <1>1, <1>9, <1>10, <1>11, <1>12, <1>13, <1>14 DEF Loop, n

\* The loop begins with the queue as it is.
LEMMA LoopBegins ==
    ASSUME NEW c \in Cpus, scan = NoScan, NEW qs \in [Cpus -> Seq(Threads)],
           Distinct(qs[c]), queue' = qs, BeginPick(c, qs)
    PROVE  PickInv'
<1>1. CASE qs[c] = << >>
  BY <1>1 DEF BeginPick, PickInv
<1>2. CASE qs[c] # << >>
  <2>1. /\ scan'.cpu = c /\ scan'.left = Len(qs[c]) /\ scan'.best = None /\ scan'.before = qs[c]
    BY <1>2 DEF BeginPick
  <2>2. /\ qs[c] \in Seq(Threads) /\ Len(qs[c]) \in Nat
    OBVIOUS
  <2>3. Loop(qs[c], qs[c], Len(qs[c]), None, Priority')
    <3> DEFINE B == qs[c]
    <3>1. /\ B \in Seq(Threads) /\ Distinct(B) /\ Len(B) \in 0 .. Len(B) /\ Len(B) <= Len(B)
          /\ \A i \in 1 .. Len(B) : (Len(B) - Len(B)) + i = i
          /\ Len(B) + 1 .. Len(B) = {}
      BY <2>2
    <3> HIDE DEF B
    <3>2. Loop(B, B, Len(B), None, Priority')
      BY <3>1 DEF Loop
    <3> QED
      BY <3>2 DEF B
  <2> QED
    BY <2>1, <2>3 DEF PickInv
<1> QED
  BY <1>1, <1>2

LEMMA LoopGoesOn ==
    ASSUME RegularUse, IInv, PickInv, PickScan
    PROVE  PickInv'
<1> DEFINE c == scan.cpu
           t == Head(queue[c])
           b == scan.best
           w == IF Beats(t) THEN t ELSE b
           l == Loser(t)
<1>1. scan.left > 0 /\ Priority' = Priority /\ scan # NoScan
  BY NoScanType DEF PickScan, attributes
<1>2. /\ w \in Threads
      /\ scan' = [cpu |-> c, left |-> scan.left - 1, best |-> w, before |-> scan.before]
      /\ queue' \in [Cpus -> Seq(Threads)]
      /\ queue'[c] = IF l = None THEN Tail(queue[c]) ELSE Append(Tail(queue[c]), l)
  BY ScanStep
<1>3. c \in Cpus /\ t \in Threads /\ queue[c] \in Seq(Threads)
  BY <1>1, Popped
<1>4. Distinct(queue[c]) /\ b \in Threads \cup {None}
  BY <1>3 DEF IInv, Queues, TypeOK
<1>5. Loop(scan.before, queue[c], scan.left, b, Priority)
  BY <1>1 DEF PickInv
<1>6. Priority \in [Threads -> Nat]
  BY SchedulerAssumption DEF IInv, TypeOK
<1>7. /\ l \in Threads \cup {None}
      /\ \/ b = None /\ w = t /\ l = None
         \/ b # None /\ Priority[t] > Priority[b] /\ w = t /\ l = b
         \/ b # None /\ ~(Priority[t] > Priority[b]) /\ w = b /\ l = t
  BY <1>3, <1>4 DEF Beats, Loser
<1>8. queue'[c] \in Seq(Threads)
  BY <1>2, <1>3
<1> HIDE DEF w, l, c
<1>9. Loop(scan.before, queue'[c], scan.left - 1, w, Priority)
  BY <1>1, <1>2, <1>3, <1>4, <1>5, <1>6, <1>7, <1>8, LoopKeeps
<1>10. /\ scan'.cpu = c /\ scan'.left = scan.left - 1 /\ scan'.best = w
       /\ scan'.before = scan.before
  BY <1>2
<1> QED
  BY <1>1, <1>9, <1>10 DEF PickInv

LEMMA NextPickInv ==
    ASSUME RegularUse, IInv, IInv', PickInv, [Next]_vars
    PROVE  PickInv'
<1>1. CASE PickScan
  BY <1>1, LoopGoesOn
<1>2. CASE PickEnd
  BY <1>2 DEF PickEnd, PickInv
<1>3. queue' \in [Cpus -> Seq(Threads)] /\ \A c \in Cpus : Distinct(queue'[c])
  BY DEF IInv, TypeOK, Queues
<1>4. ASSUME NEW c \in Cpus, PickNext(c) PROVE PickInv'
  <2>1. scan = NoScan /\ queue' = queue /\ BeginPick(c, queue)
    BY <1>4 DEF PickNext
  <2>2. PICK qs \in [Cpus -> Seq(Threads)] : qs = queue'
    BY <1>3
  <2>3. scan = NoScan /\ queue' = qs /\ BeginPick(c, qs) /\ Distinct(qs[c])
    BY <1>3, <2>1, <2>2
  <2> QED
    BY <2>2, <2>3, LoopBegins
<1>5. ASSUME NEW c \in Cpus, PreemptCurrent(c) PROVE PickInv'
  <2>1. scan = NoScan /\ BeginPick(c, queue')
    BY <1>5 DEF PreemptCurrent
  <2>2. PICK qs \in [Cpus -> Seq(Threads)] : qs = queue'
    BY <1>3
  <2>3. scan = NoScan /\ queue' = qs /\ BeginPick(c, qs) /\ Distinct(qs[c])
    BY <1>3, <2>1, <2>2
  <2> QED
    BY <2>2, <2>3, LoopBegins
<1>6. CASE \/ \E c \in Cpus, t \in Threads : AddRunnableThread(c, t) \/ ThreadStep(c, t)
           \/ \E t \in Threads, p \in Priorities : SetPriority(t, p)
           \/ \E t \in Threads, mask \in SUBSET Cpus : SetCpuAffinity(t, mask)
           \/ \E channel \in Channels \cup {None} : WakeOne(channel) \/ WakeAll(channel)
           \/ \E t \in Threads : SleepExpires(t)
  <2>1. scan' = NoScan
    BY <1>6 DEF AddRunnableThread, ThreadStep, Wait, SleepUntil, EndThread, Runs, SetPriority,
                SetCpuAffinity, WakeOne, WakeAll, Wake, SleepExpires
  <2> QED
    BY <2>1 DEF PickInv
<1>7. CASE UNCHANGED vars
  BY <1>7 DEF vars, PickInv
<1> QED
  BY <1>1, <1>2, <1>4, <1>5, <1>6, <1>7 DEF Next, Pick, Dispatch

LEMMA PickInvFirst ==
    ASSUME IInv, PickInv
    PROVE  PicksFirstOfBest
<1> SUFFICES ASSUME scan # NoScan, scan.left = 0
             PROVE  LET b == scan.best
                    IN  /\ \A t \in Threads : InBefore(t) => Priority[t] <= Priority[b]
                        /\ \A t \in Threads : Priority[t] = Priority[b]
                                                => ~Ahead(scan.before, t, b)
                        /\ \A t, u \in Threads :
                             (Priority[t] = Priority[b] /\ Priority[u] = Priority[b]
                                /\ Ahead(scan.before, t, u) /\ t # b)
                                => ~Ahead(queue[scan.cpu], u, t)
  BY DEF PicksFirstOfBest
<1> DEFINE b == scan.best
           B == scan.before
           q == queue[scan.cpu]
           n == Len(B)
<1>1. Priority \in [Threads -> Nat]
  BY SchedulerAssumption DEF IInv, TypeOK
<1>2. b # None /\ b \in Threads
  BY DEF IInv, Scan, TypeOK
<1>3. Loop(B, q, 0, b, Priority)
  BY DEF PickInv
<1> HIDE DEF b, B, q
<1>4. B \in Seq(Threads) /\ n \in Nat /\ n - 0 = n /\ Distinct(B)
      /\ Leads(B, n - 0, b, Priority) /\ Ordered(B, q, n - 0, b, Priority)
  BY <1>2, <1>3 DEF Loop
<1> HIDE DEF n
<1>5. Leads(B, n, b, Priority) /\ Ordered(B, q, n, b, Priority)
  BY <1>4
<1>6. PICK m \in 1 .. n : /\ B[m] = b
                          /\ \A j \in 1 .. m - 1 : Priority[B[j]] < Priority[b]
                          /\ \A j \in 1 .. n : Priority[B[j]] <= Priority[b]
  BY <1>5 DEF Leads
<1>7. \A t \in Threads : InBefore(t) => Priority[t] <= Priority[b]
  BY <1>6 DEF InBefore, B, n
<1>8. ASSUME NEW t \in Threads, Priority[t] = Priority[b], Ahead(B, t, b)
      PROVE  FALSE
  <2>1. PICK i, j \in 1 .. n : i < j /\ B[i] = t /\ B[j] = b
    BY <1>8 DEF Ahead, n
  <2>2. j = m
    BY <1>4, <1>6, <2>1 DEF Distinct, n
  <2>3. i \in 1 .. m - 1
    BY <1>4, <2>1, <2>2
  <2>4. Priority[t] < Priority[b]
    BY <1>6, <2>1, <2>3
  <2> QED
    BY <1>1, <1>2, <1>8, <2>4
<1>9. ASSUME NEW t \in Threads, NEW u \in Threads, Priority[t] = Priority[b],
             Priority[u] = Priority[b], Ahead(B, t, u), t # b
      PROVE  ~Ahead(q, u, t)
  <2>1. PICK i, j \in 1 .. n : i < j /\ B[i] = t /\ B[j] = u
    BY <1>9 DEF Ahead, n
  <2> QED
    BY <1>5, <1>9, <2>1 DEF Ordered
<1> QED
  BY <1>7, <1>8, <1>9 DEF b, B, q

\* PickNext chooses the one of the highest priority that has waited longest, and
\* keeps the order of the others of that priority.
THEOREM PicksFirstOfBestHolds ==
    ASSUME RegularUse
    PROVE  Spec => []PicksFirstOfBest
<1>1. Init => IInv
  BY InitIInv
<1>2. Init => PickInv
  BY DEF Init, PickInv
<1>3. IInv /\ [Next]_vars => IInv'
  BY NextIInv
<1>4. IInv /\ PickInv /\ IInv' /\ [Next]_vars => PickInv'
  BY NextPickInv
<1>5. IInv /\ PickInv => PicksFirstOfBest
  BY PickInvFirst
<1> QED
  BY <1>1, <1>2, <1>3, <1>4, <1>5, PTL DEF Spec
=============================================================================
