-------------------------- MODULE TimerWheelProofs ---------------------------
(***************************************************************************)
(* The timer wheel is sound for every number of slots, timers and threads, *)
(* as long as ticks come one by one and callbacks re-arm into other slots. *)
(***************************************************************************)
EXTENDS TimerWheel, FiniteSetTheorems, TLAPS

TimerType == [State : {"Free", "Queued", "Expired"}, Kind : {"None", "Sleep", "Callback"},
              DeadlineTick : 0..MaxTick, Thread : Threads \cup {NoThread}]
TimersType == [Ids -> TimerType]
WheelType == [Slots -> Seq(Ids)]

\* The parts of WheelSound as predicates of a table of timers and a wheel, so
\* that they can be followed through a callback that expires one timer and
\* queues another in the same step.
QueuedOf(timers) == {id \in Ids : timers[id].State = "Queued"}
SleepTimers(timers) == {id \in QueuedOf(timers) : timers[id].Kind = "Sleep"}

Distinct(list) == \A i, j \in 1..Len(list) : list[i] = list[j] => i = j

InWheel(timers, wheel) ==
    /\ \A slot \in Slots : Distinct(wheel[slot])
    /\ \A slot \in Slots, id \in Ids :
          InList(wheel[slot], id)
            <=> id \in QueuedOf(timers) /\ TimerSlot(timers[id].DeadlineTick) = slot

\* One queued sleep timer for each sleeping thread and for no other.
OneEach(timers, sleeping) ==
    /\ \A id \in SleepTimers(timers) : timers[id].Thread \in sleeping
    /\ \A a, b \in SleepTimers(timers) : timers[a].Thread = timers[b].Thread => a = b
    /\ \A t \in sleeping : \E id \in SleepTimers(timers) : timers[id].Thread = t

\* How many timers of the list a walk w has kept.
Kept(list, w) == Len(list) - Len(w.rest)

\* A walk of the list of the slot of tick: what is left of it is the end of the
\* list; what is in front of that stays for a later turn of the wheel; and
\* `previous' is set as soon as something stays.
WalkOf(timers, list, tick, w) ==
    w.active =>
        /\ Kept(list, w) \in Nat
        /\ \A j \in 1..Len(w.rest) : w.rest[j] = list[Kept(list, w) + j]
        /\ \A i \in 1..Kept(list, w) : timers[list[i]].DeadlineTick > tick
        /\ w.previous = NoTimer <=> Kept(list, w) = 0

\* No deadline has been missed; one that is now is met by the walk.
Deadlines ==
    \A id \in Queued :
        /\ Timers[id].DeadlineTick >= CurrentTick
        /\ ~walk.active => Timers[id].DeadlineTick > CurrentTick

\* The inductive invariant.
IInv ==
    /\ TypeOK
    /\ InWheel(Timers, Wheel)
    /\ OneEach(Timers, asleep)
    /\ IsFiniteSet(asleep)
    /\ QueuedTimers = Cardinality(Queued)
    /\ SleepQueueCount = Cardinality(asleep)
    /\ SleepQueueCount = Cardinality(SleepTimers(Timers))
    /\ WalkOf(Timers, Wheel[TimerSlot(CurrentTick)], CurrentTick, walk)
    /\ Deadlines

-----------------------------------------------------------------------------
(* Lists.                                                                  *)

\* A timer put in front of a list it is not in.
LEMMA InsertList ==
    ASSUME NEW list \in Seq(Ids), Distinct(list), NEW id \in Ids, ~InList(list, id)
    PROVE  LET new == <<id>> \o list
           IN  /\ new \in Seq(Ids) /\ Len(new) = Len(list) + 1
               /\ Distinct(new)
               /\ \A x : InList(new, x) <=> x = id \/ InList(list, x)
<1> DEFINE new == <<id>> \o list
<1>1. /\ new \in Seq(Ids) /\ Len(new) = Len(list) + 1 /\ new[1] = id
      /\ \A i \in 1..Len(list) : new[i + 1] = list[i]
  OBVIOUS
<1> HIDE DEF new
<1>2. \A i \in 1..Len(new) : i = 1 \/ (i - 1 \in 1..Len(list) /\ new[i] = list[i - 1])
  BY <1>1
<1>3. Distinct(new)
  <2> SUFFICES ASSUME NEW i \in 1..Len(new), NEW j \in 1..Len(new), new[i] = new[j]
               PROVE  i = j
    BY DEF Distinct
  <2>1. CASE i = 1 \/ j = 1
    BY <1>1, <1>2, <2>1 DEF InList
  <2>2. CASE i # 1 /\ j # 1
    <3>1. i - 1 \in 1..Len(list) /\ j - 1 \in 1..Len(list) /\ list[i - 1] = list[j - 1]
      BY <1>2, <2>2
    <3>2. i - 1 = j - 1
      BY <3>1 DEF Distinct
    <3> QED
      BY <3>2
  <2> QED
    BY <2>1, <2>2
<1>4. ASSUME NEW x PROVE InList(new, x) <=> x = id \/ InList(list, x)
  <2>1. InList(new, x) => x = id \/ InList(list, x)
    BY <1>1, <1>2 DEF InList
  <2>2. x = id => InList(new, x)
    BY <1>1 DEF InList
  <2>3. InList(list, x) => InList(new, x)
    <3> SUFFICES ASSUME NEW i \in 1..Len(list), list[i] = x PROVE InList(new, x)
      BY DEF InList
    <3>1. i + 1 \in 1..Len(new) /\ new[i + 1] = x
      BY <1>1
    <3> QED
      BY <3>1 DEF InList
  <2> QED
    BY <2>1, <2>2, <2>3
<1> QED
  BY <1>1, <1>3, <1>4 DEF new

\* A list without its n-th timer.
LEMMA RemoveList ==
    ASSUME NEW list \in Seq(Ids), Distinct(list), NEW n \in 1..Len(list),
           NEW new \in Seq(Ids), Len(new) = Len(list) - 1,
           \A i \in 1..Len(new) : new[i] = IF i < n THEN list[i] ELSE list[i + 1]
    PROVE  /\ Distinct(new)
           /\ \A x : InList(new, x) <=> InList(list, x) /\ x # list[n]
<1>1. Distinct(new)
  <2> SUFFICES ASSUME NEW i \in 1..Len(new), NEW j \in 1..Len(new), new[i] = new[j]
               PROVE  i = j
    BY DEF Distinct
  <2> DEFINE p == IF i < n THEN i ELSE i + 1
             q == IF j < n THEN j ELSE j + 1
  <2>1. p \in 1..Len(list) /\ q \in 1..Len(list) /\ list[p] = list[q]
    OBVIOUS
  <2>2. p = q
    BY <2>1 DEF Distinct
  <2> QED
    BY <2>2
<1>2. ASSUME NEW x PROVE InList(new, x) => InList(list, x) /\ x # list[n]
  <2> SUFFICES ASSUME NEW i \in 1..Len(new), new[i] = x PROVE InList(list, x) /\ x # list[n]
    BY DEF InList
  <2> DEFINE p == IF i < n THEN i ELSE i + 1
  <2>1. p \in 1..Len(list) /\ list[p] = x /\ p # n
    OBVIOUS
  <2> QED
    BY <2>1 DEF InList, Distinct
<1>3. ASSUME NEW x PROVE InList(list, x) /\ x # list[n] => InList(new, x)
  <2> SUFFICES ASSUME NEW i \in 1..Len(list), list[i] = x, i # n PROVE InList(new, x)
    BY DEF InList
  <2> DEFINE p == IF i < n THEN i ELSE i - 1
  <2>1. p \in 1..Len(new) /\ new[p] = x
    OBVIOUS
  <2> QED
    BY <2>1 DEF InList
<1> QED
  BY <1>1, <1>2, <1>3

-----------------------------------------------------------------------------
(* Slots and timers.                                                       *)

\* Every tick has a slot.
LEMMA SlotOfTick == \A tick \in Nat : TimerSlot(tick) \in Slots
BY WheelAssumption DEF TimerSlot, Slots

\* Division with remainder.
LEMMA DivMod ==
    ASSUME NEW n \in Nat
    PROVE  \E a \in Int : n = SLOTS * a + (n % SLOTS)
<1>1. SLOTS \in Nat \ {0} /\ n \in Int
  BY WheelAssumption
<1>2. n = SLOTS * (n \div SLOTS) + (n % SLOTS)
  BY <1>1
<1>3. n \div SLOTS \in Int
  BY <1>1, SMT
<1> QED
  BY <1>2, <1>3

\* A timer that is queued after a delay that is no multiple of the wheel's size
\* goes to another slot.
LEMMA OtherSlot ==
    ASSUME NEW tick \in Nat, NEW delay \in Nat, delay % SLOTS # 0
    PROVE  TimerSlot(tick + delay) # TimerSlot(tick)
<1> SUFFICES ASSUME (tick + delay) % SLOTS = tick % SLOTS PROVE FALSE
  BY DEF TimerSlot
<1>1. SLOTS \in Nat \ {0}
  BY WheelAssumption
<1>2. PICK a \in Int : tick = SLOTS * a + (tick % SLOTS)
  BY DivMod
<1>3. PICK b \in Int : tick + delay = SLOTS * b + ((tick + delay) % SLOTS)
  BY DivMod
<1>4. tick % SLOTS \in Nat
  BY <1>1
<1>5. delay = SLOTS * b - SLOTS * a
  BY <1>1, <1>2, <1>3, <1>4
<1>6. delay = SLOTS * (b - a)
  BY <1>1, <1>5
<1>7. delay % SLOTS = 0
  BY <1>1, <1>6
<1> QED
  BY <1>7

\* The timers fit into a set of TIMERS elements.
LEMMA TimerSetsFinite ==
    /\ IsFiniteSet(Ids)
    /\ \A S \in SUBSET Ids : IsFiniteSet(S) /\ Cardinality(S) \in 0..TIMERS
<1>1. IsFiniteSet(Ids) /\ Cardinality(Ids) = TIMERS
  BY WheelAssumption, FS_Interval DEF Ids
<1> QED
  BY <1>1, FS_Subset, FS_CardinalityType, WheelAssumption

\* Cardinalities when a timer is queued or expires.
LEMMA CountTimer ==
    ASSUME NEW S \in SUBSET Ids, NEW id \in Ids
    PROVE  /\ id \notin S => Cardinality(S \cup {id}) = Cardinality(S) + 1
           /\ id \in S => Cardinality(S \ {id}) = Cardinality(S) - 1 /\ Cardinality(S) > 0
<1>1. IsFiniteSet(S) /\ Cardinality(S) \in Nat
  BY TimerSetsFinite, FS_CardinalityType
<1>2. id \notin S => Cardinality(S \cup {id}) = Cardinality(S) + 1
  BY <1>1, FS_AddElement
<1>3. id \in S => Cardinality(S \ {id}) = Cardinality(S) - 1
  BY <1>1, FS_RemoveElement
<1>4. id \in S => Cardinality(S) > 0
  BY <1>1, FS_EmptySet
<1> QED
  BY <1>2, <1>3, <1>4

-----------------------------------------------------------------------------
(* What queueing a timer and expiring one do to the parts of the invariant. *)

\* Timer builds the record it says.
LEMMA TimerRecord ==
    ASSUME NEW kind \in {"Sleep", "Callback"}, NEW deadline \in 0..MaxTick,
           NEW thread \in Threads \cup {NoThread}
    PROVE  LET r == Timer("Queued", kind, deadline, thread)
           IN  /\ r \in TimerType /\ r.State = "Queued" /\ r.Kind = kind
               /\ r.DeadlineTick = deadline /\ r.Thread = thread
BY DEF Timer, TimerType

\* A timer that was not queued is queued: it goes to the front of its slot.
LEMMA QueueInWheel ==
    ASSUME NEW timers \in TimersType, NEW wheel \in WheelType, InWheel(timers, wheel),
           NEW id \in Ids, timers[id].State # "Queued",
           NEW r \in TimerType, r.State = "Queued",
           NEW new, new[id] = r, \A x \in Ids \ {id} : new[x] = timers[x],
           NEW newWheel, newWheel = QueueNode(wheel, id, r.DeadlineTick)
    PROVE  /\ newWheel \in WheelType
           /\ InWheel(new, newWheel)
           /\ QueuedOf(new) = QueuedOf(timers) \cup {id}
           /\ \A slot \in Slots \ {TimerSlot(r.DeadlineTick)} : newWheel[slot] = wheel[slot]
<1> DEFINE s == TimerSlot(r.DeadlineTick)
<1>1. s \in Slots
  BY SlotOfTick, WheelAssumption DEF TimerType
<1>2. new[id] = r /\ \A x \in Ids \ {id} : new[x] = timers[x]
  OBVIOUS
<1>3. ~InList(wheel[s], id)
  BY <1>1 DEF InWheel, QueuedOf
<1>4. wheel[s] \in Seq(Ids) /\ Distinct(wheel[s])
  BY <1>1 DEF InWheel, WheelType
<1> DEFINE list == <<id>> \o wheel[s]
<1>5. /\ list \in Seq(Ids) /\ Distinct(list)
      /\ \A x : InList(list, x) <=> x = id \/ InList(wheel[s], x)
  BY <1>3, <1>4, InsertList
<1>6. /\ newWheel = [wheel EXCEPT ![s] = list]
  BY DEF QueueNode
<1> HIDE DEF list, s
<1>7. /\ newWheel \in WheelType /\ newWheel[s] = list
      /\ \A slot \in Slots \ {s} : newWheel[slot] = wheel[slot]
  BY <1>1, <1>5, <1>6 DEF WheelType
<1>8. QueuedOf(new) = QueuedOf(timers) \cup {id}
  BY <1>2 DEF QueuedOf
<1>9. \A slot \in Slots : Distinct(newWheel[slot])
  BY <1>5, <1>7 DEF InWheel
<1>10. ASSUME NEW slot \in Slots, NEW x \in Ids
       PROVE  InList(newWheel[slot], x)
                <=> x \in QueuedOf(new) /\ TimerSlot(new[x].DeadlineTick) = slot
  <2>1. InList(wheel[slot], x) <=> x \in QueuedOf(timers) /\ TimerSlot(timers[x].DeadlineTick) = slot
    BY DEF InWheel
  <2>2. CASE x = id
    <3>1. ~InList(wheel[slot], x) /\ x \in QueuedOf(new) /\ TimerSlot(new[x].DeadlineTick) = s
      BY <1>2, <1>8, <2>1, <2>2 DEF QueuedOf, s
    <3> QED
      BY <1>5, <1>7, <2>2, <3>1
  <2>3. CASE x # id
    BY <1>2, <1>5, <1>7, <1>8, <2>1, <2>3
  <2> QED
    BY <2>2, <2>3
<1> QED
  BY <1>2, <1>7, <1>8, <1>9, <1>10 DEF InWheel, s

\* The new wheel is the old one without the n-th timer of slot s.
Without(wheel, s, n, newWheel) ==
    /\ Len(newWheel[s]) = Len(wheel[s]) - 1
    /\ \A i \in 1..Len(newWheel[s]) :
          newWheel[s][i] = IF i < n THEN wheel[s][i] ELSE wheel[s][i + 1]
    /\ \A slot \in Slots \ {s} : newWheel[slot] = wheel[slot]

\* The n-th timer of a slot expires and leaves the list.
LEMMA ExpireInWheel ==
    ASSUME NEW timers, NEW wheel \in WheelType, InWheel(timers, wheel),
           NEW s \in Slots, NEW n \in 1..Len(wheel[s]), NEW new,
           \A x \in Ids \ {wheel[s][n]} : new[x] = timers[x],
           new[wheel[s][n]].State = "Expired",
           NEW newWheel \in WheelType, Without(wheel, s, n, newWheel)
    PROVE  /\ wheel[s][n] \in QueuedOf(timers)
           /\ InWheel(new, newWheel)
           /\ QueuedOf(new) = QueuedOf(timers) \ {wheel[s][n]}
<1> DEFINE id == wheel[s][n]
           list == newWheel[s]
<1>1. wheel[s] \in Seq(Ids) /\ id \in Ids /\ Distinct(wheel[s]) /\ InList(wheel[s], id)
  BY DEF WheelType, InWheel, InList
<1>2. id \in QueuedOf(timers) /\ TimerSlot(timers[id].DeadlineTick) = s
  BY <1>1 DEF InWheel
<1>3. new[id].State = "Expired" /\ \A x \in Ids \ {id} : new[x] = timers[x]
  OBVIOUS
<1>4. QueuedOf(new) = QueuedOf(timers) \ {id}
  BY <1>3 DEF QueuedOf
<1>5. /\ list \in Seq(Ids) /\ newWheel[s] = list
      /\ \A slot \in Slots \ {s} : newWheel[slot] = wheel[slot]
  BY DEF WheelType, Without
<1>6. Distinct(list) /\ \A x : InList(list, x) <=> InList(wheel[s], x) /\ x # id
  <2>1. /\ Len(list) = Len(wheel[s]) - 1
        /\ \A i \in 1..Len(list) : list[i] = IF i < n THEN wheel[s][i] ELSE wheel[s][i + 1]
    BY DEF Without
  <2> QED
    BY <1>1, <1>5, <2>1, RemoveList
<1> HIDE DEF id, list
<1>7. \A slot \in Slots : Distinct(newWheel[slot])
  BY <1>5, <1>6 DEF InWheel
<1>8. ASSUME NEW slot \in Slots, NEW x \in Ids
      PROVE  InList(newWheel[slot], x)
               <=> x \in QueuedOf(new) /\ TimerSlot(new[x].DeadlineTick) = slot
  <2>1. InList(wheel[slot], x) <=> x \in QueuedOf(timers) /\ TimerSlot(timers[x].DeadlineTick) = slot
    BY DEF InWheel
  <2>2. CASE x = id
    BY <1>2, <1>4, <1>5, <1>6, <2>1, <2>2
  <2>3. CASE x # id
    BY <1>3, <1>4, <1>5, <1>6, <2>1, <2>3
  <2> QED
    BY <2>2, <2>3
<1> QED
  BY <1>2, <1>4, <1>7, <1>8 DEF InWheel, id

\* A thread that was awake gets a sleep timer.
LEMMA QueueSleeper ==
    ASSUME NEW timers, NEW sleeping, OneEach(timers, sleeping),
           NEW id \in Ids, timers[id].State # "Queued",
           NEW new, \A x \in Ids \ {id} : new[x] = timers[x],
           new[id].State = "Queued", new[id].Kind = "Sleep", new[id].Thread \notin sleeping
    PROVE  /\ OneEach(new, sleeping \cup {new[id].Thread})
           /\ SleepTimers(new) = SleepTimers(timers) \cup {id}
           /\ id \notin SleepTimers(timers)
<1> DEFINE t == new[id].Thread
<1>1. \A x \in Ids \ {id} : new[x] = timers[x]
  OBVIOUS
<1>2. SleepTimers(new) = SleepTimers(timers) \cup {id} /\ id \notin SleepTimers(timers)
  BY <1>1 DEF SleepTimers, QueuedOf
<1>3. \A x \in SleepTimers(timers) : x # id /\ new[x] = timers[x] /\ timers[x].Thread # t
  BY <1>1, <1>2 DEF OneEach, SleepTimers, QueuedOf
<1>4. new[id].Thread = t
  OBVIOUS
<1> HIDE DEF t
<1>5. \A x \in SleepTimers(new) : new[x].Thread \in sleeping \cup {t}
  BY <1>2, <1>3, <1>4 DEF OneEach
<1>6. \A x, y \in SleepTimers(new) : new[x].Thread = new[y].Thread => x = y
  BY <1>2, <1>3, <1>4 DEF OneEach
<1>7. \A u \in sleeping \cup {t} : \E x \in SleepTimers(new) : new[x].Thread = u
  <2>1. ASSUME NEW u \in sleeping PROVE \E x \in SleepTimers(new) : new[x].Thread = u
    <3>1. PICK x \in SleepTimers(timers) : timers[x].Thread = u
      BY DEF OneEach
    <3> QED
      BY <1>2, <1>3, <3>1
  <2>2. id \in SleepTimers(new)
    BY <1>2
  <2> QED
    BY <1>4, <2>1, <2>2
<1> QED
  BY <1>2, <1>5, <1>6, <1>7 DEF OneEach, t

\* A timer with a callback wakes nobody.
LEMMA QueueCallback ==
    ASSUME NEW timers, NEW sleeping, OneEach(timers, sleeping),
           NEW id \in Ids, timers[id].State # "Queued",
           NEW new, \A x \in Ids \ {id} : new[x] = timers[x], new[id].Kind = "Callback"
    PROVE  OneEach(new, sleeping) /\ SleepTimers(new) = SleepTimers(timers)
<1>1. \A x \in Ids \ {id} : new[x] = timers[x]
  OBVIOUS
<1>2. SleepTimers(new) = SleepTimers(timers) /\ id \notin SleepTimers(timers)
  <2>1. new[id].Kind # "Sleep"
    OBVIOUS
  <2> QED
    BY <1>1, <2>1 DEF SleepTimers, QueuedOf
<1>3. \A x \in SleepTimers(timers) : new[x] = timers[x]
  BY <1>1, <1>2 DEF SleepTimers, QueuedOf
<1>4. /\ \A x \in SleepTimers(new) : new[x].Thread \in sleeping
      /\ \A x, y \in SleepTimers(new) : new[x].Thread = new[y].Thread => x = y
  BY <1>2, <1>3 DEF OneEach
<1>5. ASSUME NEW t \in sleeping PROVE \E x \in SleepTimers(new) : new[x].Thread = t
  <2>1. PICK x \in SleepTimers(timers) : timers[x].Thread = t
    BY DEF OneEach
  <2> QED
    BY <1>2, <1>3, <2>1
<1> QED
  BY <1>2, <1>4, <1>5 DEF OneEach

\* The sleep timer of a thread expires and the thread wakes up.
LEMMA ExpireSleeper ==
    ASSUME NEW timers, NEW sleeping, OneEach(timers, sleeping),
           NEW id \in SleepTimers(timers), NEW new,
           \A x \in Ids \ {id} : new[x] = timers[x], new[id].State = "Expired"
    PROVE  /\ OneEach(new, sleeping \ {timers[id].Thread})
           /\ SleepTimers(new) = SleepTimers(timers) \ {id}
           /\ timers[id].Thread \in sleeping
<1>1. SleepTimers(new) = SleepTimers(timers) \ {id}
  BY DEF SleepTimers, QueuedOf
<1>2. \A x \in SleepTimers(new) : new[x] = timers[x] /\ x \in SleepTimers(timers) /\ x # id
  BY <1>1 DEF SleepTimers, QueuedOf
<1>3. \A x \in SleepTimers(new) : new[x].Thread \in sleeping \ {timers[id].Thread}
  BY <1>2 DEF OneEach
<1>4. ASSUME NEW t \in sleeping \ {timers[id].Thread}
      PROVE  \E x \in SleepTimers(new) : new[x].Thread = t
  <2>1. PICK x \in SleepTimers(timers) : timers[x].Thread = t
    BY DEF OneEach
  <2>2. x # id
    BY <2>1
  <2>3. x \in SleepTimers(new)
    BY <1>1, <2>2
  <2> QED
    BY <1>2, <2>1, <2>3
<1> QED
  BY <1>1, <1>2, <1>3, <1>4 DEF OneEach

\* Another timer expires.
LEMMA ExpireOther ==
    ASSUME NEW timers, NEW sleeping, OneEach(timers, sleeping),
           NEW id \in Ids, id \notin SleepTimers(timers), NEW new,
           \A x \in Ids \ {id} : new[x] = timers[x], new[id].State = "Expired"
    PROVE  OneEach(new, sleeping) /\ SleepTimers(new) = SleepTimers(timers)
<1>1. SleepTimers(new) = SleepTimers(timers)
  BY DEF SleepTimers, QueuedOf
<1>2. \A x \in SleepTimers(new) : new[x] = timers[x]
  BY <1>1 DEF SleepTimers, QueuedOf
<1> QED
  BY <1>1, <1>2 DEF OneEach

-----------------------------------------------------------------------------
(* The walk.                                                               *)

\* The head of what is left is the timer behind those that were kept, and Unlink
\* takes that timer out of the list, whichever pointer it overwrites.
LEMMA UnlinkHeadOfRest ==
    ASSUME NEW list \in Seq(Ids), walk.active, walk.rest \in Seq(Ids), walk.rest # <<>>,
           WalkOf(Timers, list, CurrentTick, walk)
    PROVE  LET n == Kept(list, walk) + 1
               new == Unlink(list)
           IN  /\ n \in 1..Len(list) /\ Head(walk.rest) = list[n]
               /\ new \in Seq(Ids) /\ Len(new) = Len(list) - 1
               /\ \A i \in 1..Len(new) : new[i] = IF i < n THEN list[i] ELSE list[i + 1]
               /\ Len(Tail(walk.rest)) = Len(walk.rest) - 1
               /\ \A j \in 1..Len(Tail(walk.rest)) : Tail(walk.rest)[j] = list[n + j]
<1> DEFINE k == Kept(list, walk)
           tail == Tail(walk.rest)
           new == Unlink(list)
<1>0. /\ k \in Nat
      /\ \A j \in 1..Len(walk.rest) : walk.rest[j] = list[k + j]
      /\ walk.previous = NoTimer <=> k = 0
  BY DEF WalkOf
<1>1. /\ Len(walk.rest) \in Nat \ {0} /\ Len(list) \in Nat
      /\ Len(list) = k + Len(walk.rest) /\ k = Len(list) - Len(walk.rest)
  BY <1>0 DEF Kept
<1> HIDE DEF k
<1>2. /\ tail \in Seq(Ids) /\ Len(tail) = Len(walk.rest) - 1
      /\ \A j \in 1..Len(tail) : tail[j] = walk.rest[j + 1]
      /\ Head(walk.rest) = walk.rest[1]
  BY <1>0, <1>1
<1> HIDE DEF tail
<1>3. \A j \in 1..Len(tail) : tail[j] = list[k + 1 + j]
  BY <1>0, <1>1, <1>2
<1>4. /\ new \in Seq(Ids) /\ Len(new) = Len(list) - 1
      /\ \A i \in 1..Len(new) : new[i] = IF i < k + 1 THEN list[i] ELSE list[i + 1]
  <2>1. CASE k = 0
    <3>1. new = tail
      BY <1>0, <1>1, <2>1 DEF Unlink, tail
    <3> QED
      BY <1>0, <1>1, <1>2, <1>3, <2>1, <3>1
  <2>2. CASE k # 0
    <3> DEFINE front == SubSeq(list, 1, k)
    <3>1. new = front \o tail
      BY <1>0, <1>1, <2>2 DEF Unlink, tail
    <3>2. /\ front \in Seq(Ids) /\ Len(front) = k
          /\ \A i \in 1..k : front[i] = list[i]
      BY <1>0, <1>1, <2>2
    <3> HIDE DEF front
    <3>3. /\ new \in Seq(Ids) /\ Len(new) = k + Len(tail)
          /\ \A i \in 1..Len(new) : new[i] = IF i <= k THEN front[i] ELSE tail[i - k]
      BY <1>0, <1>1, <1>2, <3>1, <3>2
    <3> HIDE DEF new
    <3>4. ASSUME NEW i \in 1..Len(new)
          PROVE  new[i] = IF i < k + 1 THEN list[i] ELSE list[i + 1]
      <4>1. CASE i <= k
        <5>1. i \in 1..k /\ i < k + 1
          BY <1>0, <4>1
        <5>2. new[i] = front[i] /\ front[i] = list[i]
          BY <3>2, <3>3, <4>1, <5>1
        <5> QED
          BY <5>1, <5>2
      <4>2. CASE i > k
        <5>1. i - k \in 1..Len(tail) /\ new[i] = tail[i - k]
          BY <1>0, <1>1, <1>2, <3>3, <4>2
        <5>2. tail[i - k] = list[k + 1 + (i - k)] /\ k + 1 + (i - k) = i + 1
          BY <1>0, <1>1, <1>3, <5>1
        <5> QED
          BY <1>0, <1>1, <4>2, <5>1, <5>2
      <4> QED
        BY <1>0, <1>1, <4>1, <4>2
    <3> QED
      BY <1>0, <1>1, <1>2, <3>3, <3>4
  <2> QED
    BY <2>1, <2>2
<1>5. k + 1 \in 1..Len(list) /\ Head(walk.rest) = list[k + 1]
  BY <1>0, <1>1, <1>2
<1> QED
  BY <1>2, <1>3, <1>4, <1>5 DEF k, tail

\* The walk goes on behind the timer that expired.
LEMMA WalkAfterExpiry ==
    ASSUME NEW list \in Seq(Ids), Distinct(list), walk.active, walk.rest \in Seq(Ids),
           walk.rest # <<>>, WalkOf(Timers, list, CurrentTick, walk),
           NEW new, \A x \in Ids \ {Head(walk.rest)} : new[x] = Timers[x],
           NEW w, w.active, w.rest = Tail(walk.rest), w.previous = walk.previous
    PROVE  WalkOf(new, Unlink(list), CurrentTick, w)
<1> DEFINE k == Kept(list, walk)
           u == Unlink(list)
<1>1. /\ k + 1 \in 1..Len(list) /\ Head(walk.rest) = list[k + 1]
      /\ u \in Seq(Ids) /\ Len(u) = Len(list) - 1
      /\ \A i \in 1..Len(u) : u[i] = IF i < k + 1 THEN list[i] ELSE list[i + 1]
      /\ Len(w.rest) = Len(walk.rest) - 1
      /\ \A j \in 1..Len(w.rest) : w.rest[j] = list[(k + 1) + j]
  BY UnlinkHeadOfRest
<1>2. /\ k \in Nat
      /\ \A i \in 1..k : Timers[list[i]].DeadlineTick > CurrentTick
      /\ walk.previous = NoTimer <=> k = 0
  BY DEF WalkOf
<1>3. Len(list) \in Nat /\ Len(walk.rest) \in Nat /\ k = Len(list) - Len(walk.rest)
  BY DEF Kept
<1> HIDE DEF k, u
<1>0. /\ k \in Nat /\ k + 1 \in 1..Len(list) /\ Len(u) = Len(list) - 1
      /\ Len(w.rest) = Len(u) - k /\ Len(list) \in Nat
  BY <1>1, <1>2, <1>3
<1>4. Kept(u, w) = k
  BY <1>1, <1>2, <1>3 DEF Kept
<1>5. ASSUME NEW j \in 1..Len(w.rest) PROVE w.rest[j] = u[k + j]
  <2>1. k + j \in 1..Len(u) /\ ~(k + j < k + 1) /\ (k + 1) + j = (k + j) + 1
    BY <1>0
  <2>2. u[k + j] = list[(k + j) + 1]
    BY <1>1, <2>1
  <2> QED
    BY <1>1, <2>1, <2>2
<1>6. ASSUME NEW i \in 1..k PROVE new[u[i]].DeadlineTick > CurrentTick
  <2>1. i \in 1..Len(u) /\ i < k + 1 /\ i \in 1..Len(list) /\ i # k + 1
    BY <1>0
  <2>2. u[i] = list[i] /\ list[i] \in Ids
    BY <1>1, <2>1
  <2>3. list[i] # list[k + 1]
    BY <1>1, <2>1 DEF Distinct
  <2> QED
    BY <1>1, <1>2, <2>2, <2>3
<1>7. WalkOf(new, u, CurrentTick, w)
  BY <1>2, <1>4, <1>5, <1>6 DEF WalkOf
<1> QED
  BY <1>7 DEF u

-----------------------------------------------------------------------------
(* The steps.                                                              *)

\* The invariant in terms of the table and the wheel.
LEMMA Unfold ==
    ASSUME IInv
    PROVE  /\ Timers \in TimersType /\ Wheel \in WheelType
           /\ CurrentTick \in 0..MaxTick /\ CurrentTick \in Nat
           /\ Queued = QueuedOf(Timers) /\ Queued \in SUBSET Ids
           /\ SleepTimers(Timers) \in SUBSET Ids
           /\ TimerSlot(CurrentTick) \in Slots
           /\ Wheel[TimerSlot(CurrentTick)] \in Seq(Ids)
           /\ Distinct(Wheel[TimerSlot(CurrentTick)])
           /\ walk.rest \in Seq(Ids)
           /\ SleepQueueCount \in Nat /\ QueuedTimers \in Nat /\ asleep \subseteq Threads
<1>1. /\ Timers \in TimersType /\ Wheel \in WheelType
      /\ CurrentTick \in 0..MaxTick /\ CurrentTick \in Nat
      /\ walk.rest \in Seq(Ids)
      /\ SleepQueueCount \in Nat /\ QueuedTimers \in Nat /\ asleep \subseteq Threads
  BY WheelAssumption DEF IInv, TypeOK, TimersType, TimerType, WheelType
<1>2. Queued = QueuedOf(Timers) /\ Queued \in SUBSET Ids /\ SleepTimers(Timers) \in SUBSET Ids
  BY DEF Queued, QueuedOf, SleepTimers
<1>3. TimerSlot(CurrentTick) \in Slots
  BY <1>1, SlotOfTick
<1>4. Wheel[TimerSlot(CurrentTick)] \in Seq(Ids) /\ Distinct(Wheel[TimerSlot(CurrentTick)])
  BY <1>1, <1>3 DEF IInv, InWheel, WheelType
<1> QED
  BY <1>1, <1>2, <1>3, <1>4

\* The other way round, for the state after a step.
LEMMA Fold ==
    ASSUME /\ Timers' \in TimersType /\ Wheel' \in WheelType
           /\ InWheel(Timers', Wheel') /\ OneEach(Timers', asleep')
           /\ CurrentTick' \in 0..MaxTick
           /\ walk' \in [active : BOOLEAN, rest : Seq(Ids), previous : Ids \cup {NoTimer}]
           /\ asleep' \subseteq Threads /\ IsFiniteSet(asleep')
           /\ QueuedTimers' = Cardinality(QueuedOf(Timers'))
           /\ SleepQueueCount' = Cardinality(asleep')
           /\ SleepQueueCount' = Cardinality(SleepTimers(Timers'))
           /\ WalkOf(Timers', Wheel'[TimerSlot(CurrentTick')], CurrentTick', walk')
           /\ \A id \in QueuedOf(Timers') :
                 /\ Timers'[id].DeadlineTick >= CurrentTick'
                 /\ ~walk'.active => Timers'[id].DeadlineTick > CurrentTick'
    PROVE  IInv'
<1>1. Queued' = QueuedOf(Timers')
  BY DEF Queued, QueuedOf
<1>2. QueuedOf(Timers') \in SUBSET Ids /\ SleepTimers(Timers') \in SUBSET Ids
  BY DEF QueuedOf, SleepTimers
<1>3. QueuedTimers' \in 0..TIMERS /\ SleepQueueCount' \in 0..TIMERS
  BY <1>2, TimerSetsFinite
<1>4. TypeOK'
  BY <1>3 DEF TypeOK, TimersType, TimerType, WheelType
<1>5. Deadlines'
  BY <1>1 DEF Deadlines
<1> QED
  BY <1>1, <1>4, <1>5 DEF IInv, InWheel, OneEach, WalkOf, Kept, TimerSlot, QueuedOf, SleepTimers

\* An empty wheel.
LEMMA InitIInv == Init => IInv
<1> SUFFICES ASSUME Init PROVE IInv
  OBVIOUS
<1>1. Timers \in TimersType /\ \A id \in Ids : Timers[id].State = "Free"
  BY WheelAssumption DEF Init, TimersType, TimerType, Timer
<1>2. TypeOK
  BY <1>1, WheelAssumption DEF Init, TypeOK, TimersType, TimerType, NoWalk
<1>3. QueuedOf(Timers) = {} /\ SleepTimers(Timers) = {} /\ Queued = {}
  BY <1>1 DEF QueuedOf, SleepTimers, Queued
<1>4. InWheel(Timers, Wheel)
  BY <1>3 DEF Init, InWheel, Distinct, InList
<1>5. OneEach(Timers, asleep) /\ Deadlines
  BY <1>3 DEF Init, OneEach, Deadlines
<1>6. WalkOf(Timers, Wheel[TimerSlot(CurrentTick)], CurrentTick, walk)
  BY DEF Init, WalkOf, NoWalk
<1> QED
  BY <1>2, <1>3, <1>4, <1>5, <1>6, FS_EmptySet DEF Init, IInv

\* What SleepUntil and QueueTimer have in common.
LEMMA QueueStep ==
    ASSUME IInv, ~walk.active, NEW id \in Ids, IsAllocated(id),
           NEW r \in TimerType, r.State = "Queued", r.DeadlineTick > CurrentTick,
           Timers' = [Timers EXCEPT ![id] = r], Wheel' = QueueNode(Wheel, id, r.DeadlineTick),
           QueuedTimers' = QueuedTimers + 1, UNCHANGED <<CurrentTick, walk>>,
           OneEach(Timers', asleep'), asleep' \subseteq Threads, IsFiniteSet(asleep'),
           SleepQueueCount' = Cardinality(asleep'),
           SleepQueueCount' = Cardinality(SleepTimers(Timers'))
    PROVE  IInv'
<1>1. Timers[id].State # "Queued" /\ id \notin Queued
  BY DEF IsAllocated, Free, Queued
<1>2. /\ Timers' \in TimersType /\ Wheel' \in WheelType
      /\ InWheel(Timers', Wheel') /\ QueuedOf(Timers') = Queued \cup {id}
  <2>1. /\ Timers \in TimersType /\ Wheel \in WheelType /\ Queued = QueuedOf(Timers)
        /\ InWheel(Timers, Wheel)
    BY Unfold DEF IInv
  <2> DEFINE T == Timers'
             W == Wheel'
  <2>2. T \in TimersType /\ T[id] = r /\ \A x \in Ids \ {id} : T[x] = Timers[x]
    BY <2>1 DEF TimersType
  <2>3. W = QueueNode(Wheel, id, r.DeadlineTick)
    OBVIOUS
  <2> HIDE DEF T, W
  <2>4. W \in WheelType /\ InWheel(T, W) /\ QueuedOf(T) = QueuedOf(Timers) \cup {id}
    BY <1>1, <2>1, <2>2, <2>3, QueueInWheel
  <2> QED
    BY <2>1, <2>2, <2>4 DEF T, W
<1>3. QueuedTimers' = Cardinality(QueuedOf(Timers'))
  BY <1>1, <1>2, Unfold, CountTimer DEF IInv
<1>4. \A x \in QueuedOf(Timers') : Timers'[x].DeadlineTick > CurrentTick
  BY <1>2, Unfold DEF IInv, Deadlines, QueuedOf, TimersType
<1>5. \A x \in QueuedOf(Timers') :
        /\ Timers'[x].DeadlineTick >= CurrentTick'
        /\ ~walk'.active => Timers'[x].DeadlineTick > CurrentTick'
  BY <1>2, <1>4, Unfold DEF QueuedOf, TimersType, TimerType
<1>6. WalkOf(Timers', Wheel'[TimerSlot(CurrentTick')], CurrentTick', walk')
  BY DEF WalkOf
<1>7. /\ CurrentTick' \in 0..MaxTick
      /\ walk' \in [active : BOOLEAN, rest : Seq(Ids), previous : Ids \cup {NoTimer}]
  BY DEF IInv, TypeOK
<1> QED
  BY <1>2, <1>3, <1>5, <1>6, <1>7, Fold

\* A thread goes to sleep.
LEMMA SleepUntilIInv ==
    ASSUME IInv, NEW t \in Threads, NEW deadline \in 1..MaxTick, SleepUntil(t, deadline)
    PROVE  IInv'
<1>1. PICK id \in Ids :
        /\ IsAllocated(id)
        /\ Timers' = [Timers EXCEPT ![id] = Timer("Queued", "Sleep", deadline, t)]
        /\ Wheel' = QueueNode(Wheel, id, deadline)
  BY DEF SleepUntil
<1> DEFINE r == Timer("Queued", "Sleep", deadline, t)
<1>2. /\ r \in TimerType /\ r.State = "Queued" /\ r.Kind = "Sleep"
      /\ r.DeadlineTick = deadline /\ r.Thread = t
  BY TimerRecord, WheelAssumption
<1> HIDE DEF r
<1>3. Timers[id].State # "Queued" /\ Timers' = [Timers EXCEPT ![id] = r]
  BY <1>1 DEF IsAllocated, Free, r
<1>4. /\ t \notin asleep /\ asleep' = asleep \cup {t} /\ SleepQueueCount' = SleepQueueCount + 1
      /\ ~walk.active /\ deadline > CurrentTick /\ QueuedTimers' = QueuedTimers + 1
      /\ UNCHANGED <<CurrentTick, walk>>
  BY DEF SleepUntil
<1>5. /\ OneEach(Timers', asleep') /\ id \notin SleepTimers(Timers)
      /\ SleepTimers(Timers') = SleepTimers(Timers) \cup {id}
  <2>1. Timers \in TimersType /\ OneEach(Timers, asleep)
    BY Unfold DEF IInv
  <2> DEFINE T == Timers'
  <2>2. T[id] = r /\ \A x \in Ids \ {id} : T[x] = Timers[x]
    BY <1>3, <2>1 DEF TimersType
  <2> HIDE DEF T
  <2>3. T[id].State = "Queued" /\ T[id].Kind = "Sleep" /\ T[id].Thread \notin asleep
    BY <1>2, <1>4, <2>2
  <2>4. /\ OneEach(T, asleep \cup {T[id].Thread}) /\ id \notin SleepTimers(Timers)
        /\ SleepTimers(T) = SleepTimers(Timers) \cup {id}
    <3>1. Timers[id].State # "Queued" /\ \A x \in Ids \ {id} : T[x] = Timers[x]
      BY <1>3, <2>2
    <3> QED
      BY <2>1, <2>3, <3>1, QueueSleeper
  <2> QED
    BY <1>2, <1>4, <2>2, <2>4 DEF T
<1>6. SleepQueueCount' = Cardinality(SleepTimers(Timers'))
  BY <1>4, <1>5, Unfold, CountTimer DEF IInv
<1>7. IsFiniteSet(asleep') /\ SleepQueueCount' = Cardinality(asleep')
  BY <1>4, FS_AddElement DEF IInv
<1>8. asleep' \subseteq Threads
  BY <1>4, Unfold
<1> QED
  BY <1>1, <1>2, <1>3, <1>4, <1>5, <1>6, <1>7, <1>8, QueueStep

\* A callback is queued.
LEMMA QueueTimerIInv ==
    ASSUME IInv, NEW deadline \in 1..MaxTick, QueueTimer(deadline)
    PROVE  IInv'
<1>1. PICK id \in Ids :
        /\ IsAllocated(id)
        /\ Timers' = [Timers EXCEPT ![id] = Timer("Queued", "Callback", deadline, NoThread)]
        /\ Wheel' = QueueNode(Wheel, id, deadline)
  BY DEF QueueTimer
<1> DEFINE r == Timer("Queued", "Callback", deadline, NoThread)
<1>2. /\ r \in TimerType /\ r.State = "Queued" /\ r.Kind = "Callback"
      /\ r.DeadlineTick = deadline
  BY TimerRecord, WheelAssumption
<1> HIDE DEF r
<1>3. Timers[id].State # "Queued" /\ Timers' = [Timers EXCEPT ![id] = r]
  BY <1>1 DEF IsAllocated, Free, r
<1>4. /\ asleep' = asleep /\ SleepQueueCount' = SleepQueueCount
      /\ ~walk.active /\ deadline > CurrentTick /\ QueuedTimers' = QueuedTimers + 1
      /\ UNCHANGED <<CurrentTick, walk>>
  BY DEF QueueTimer
<1>5. OneEach(Timers', asleep') /\ SleepTimers(Timers') = SleepTimers(Timers)
  <2>1. Timers \in TimersType /\ OneEach(Timers, asleep)
    BY Unfold DEF IInv
  <2> DEFINE T == Timers'
  <2>2. T[id] = r /\ \A x \in Ids \ {id} : T[x] = Timers[x]
    BY <1>3, <2>1 DEF TimersType
  <2> HIDE DEF T
  <2>3. OneEach(T, asleep) /\ SleepTimers(T) = SleepTimers(Timers)
    BY <1>2, <1>3, <2>1, <2>2, QueueCallback
  <2> QED
    BY <1>4, <2>3 DEF T
<1>6. /\ SleepQueueCount' = Cardinality(SleepTimers(Timers'))
      /\ IsFiniteSet(asleep') /\ SleepQueueCount' = Cardinality(asleep')
      /\ asleep' \subseteq Threads
  BY <1>4, <1>5, Unfold DEF IInv
<1> QED
  BY <1>1, <1>2, <1>3, <1>4, <1>5, <1>6, QueueStep

\* A tick begins: what is due now is in the list that is about to be walked.
LEMMA TickIInv ==
    ASSUME IInv, TicksInOrder, NEW advance \in Advances, Tick(advance)
    PROVE  IInv'
<1> DEFINE slot == TimerSlot(CurrentTick')
<1>1. /\ ~walk.active /\ CurrentTick' = CurrentTick + advance /\ CurrentTick + advance <= MaxTick
      /\ walk' = [active |-> TRUE, rest |-> Wheel[slot], previous |-> NoTimer]
      /\ UNCHANGED <<Timers, Wheel, QueuedTimers, SleepQueueCount, asleep>>
  BY DEF Tick
<1>2. CurrentTick' \in 0..MaxTick /\ CurrentTick' \in Nat /\ CurrentTick' <= CurrentTick + 1
  BY <1>1, Unfold, WheelAssumption DEF TicksInOrder
<1>3. slot \in Slots /\ Wheel[slot] \in Seq(Ids)
  BY <1>2, SlotOfTick, Unfold DEF WheelType
<1> HIDE DEF slot
<1>4. /\ walk' \in [active : BOOLEAN, rest : Seq(Ids), previous : Ids \cup {NoTimer}]
      /\ walk'.active /\ walk'.rest = Wheel[slot] /\ walk'.previous = NoTimer
  BY <1>1, <1>3
<1>5. WalkOf(Timers, Wheel[slot], CurrentTick', walk')
  BY <1>3, <1>4 DEF WalkOf, Kept
<1>6. \A id \in QueuedOf(Timers) : Timers[id].DeadlineTick >= CurrentTick'
  <2>1. \A id \in QueuedOf(Timers) :
          Timers[id].DeadlineTick \in Nat /\ Timers[id].DeadlineTick > CurrentTick
    BY <1>1, Unfold DEF IInv, Deadlines, QueuedOf, TimersType, TimerType
  <2> QED
    BY <1>2, <2>1, Unfold
<1>7. /\ Timers' \in TimersType /\ Wheel' \in WheelType
      /\ InWheel(Timers', Wheel') /\ OneEach(Timers', asleep')
      /\ asleep' \subseteq Threads /\ IsFiniteSet(asleep')
      /\ QueuedTimers' = Cardinality(QueuedOf(Timers'))
      /\ SleepQueueCount' = Cardinality(asleep')
      /\ SleepQueueCount' = Cardinality(SleepTimers(Timers'))
  BY <1>1, Unfold DEF IInv
<1>8. /\ WalkOf(Timers', Wheel'[TimerSlot(CurrentTick')], CurrentTick', walk')
      /\ \A id \in QueuedOf(Timers') :
            /\ Timers'[id].DeadlineTick >= CurrentTick'
            /\ ~walk'.active => Timers'[id].DeadlineTick > CurrentTick'
  BY <1>1, <1>4, <1>5, <1>6 DEF slot
<1> QED
  BY <1>2, <1>4, <1>7, <1>8, Fold

\* The walk passes a timer of a later turn.
LEMMA WalkKeepsIInv ==
    ASSUME IInv, WalkKeeps
    PROVE  IInv'
<1> DEFINE list == Wheel[TimerSlot(CurrentTick)]
           k == Kept(list, walk)
<1>1. /\ walk.active /\ walk.rest # <<>> /\ Timers[Head(walk.rest)].DeadlineTick > CurrentTick
      /\ UNCHANGED <<Timers, Wheel, CurrentTick, QueuedTimers, SleepQueueCount, asleep>>
  BY DEF WalkKeeps
<1>2. /\ walk' \in [active : BOOLEAN, rest : Seq(Ids), previous : Ids \cup {NoTimer}]
      /\ walk'.active /\ walk'.rest = Tail(walk.rest) /\ walk'.previous = Head(walk.rest)
      /\ Head(walk.rest) \in Ids
  <2>1. walk \in [active : BOOLEAN, rest : Seq(Ids), previous : Ids \cup {NoTimer}]
    BY DEF IInv, TypeOK
  <2>2. Head(walk.rest) \in Ids /\ Tail(walk.rest) \in Seq(Ids)
    BY <1>1, <2>1
  <2>3. walk' = [walk EXCEPT !.rest = Tail(walk.rest), !.previous = Head(walk.rest)]
    BY DEF WalkKeeps
  <2>4. walk' = [active |-> walk.active, rest |-> Tail(walk.rest), previous |-> Head(walk.rest)]
    BY <2>1, <2>3
  <2> QED
    BY <1>1, <2>1, <2>2, <2>4
<1>3. /\ list \in Seq(Ids) /\ walk.rest \in Seq(Ids)
      /\ WalkOf(Timers, list, CurrentTick, walk)
  BY Unfold DEF IInv
<1>4. /\ k + 1 \in 1..Len(list) /\ Head(walk.rest) = list[k + 1]
      /\ Len(walk'.rest) = Len(walk.rest) - 1
      /\ \A j \in 1..Len(walk'.rest) : walk'.rest[j] = list[(k + 1) + j]
  BY <1>1, <1>2, <1>3, UnlinkHeadOfRest
<1>5. k \in Nat /\ \A i \in 1..k : Timers[list[i]].DeadlineTick > CurrentTick
  BY <1>1, <1>3 DEF WalkOf
<1>6. Kept(list, walk') = k + 1
  BY <1>3, <1>4 DEF Kept
<1> HIDE DEF k, list
<1>7. \A i \in 1..(k + 1) : Timers[list[i]].DeadlineTick > CurrentTick
  BY <1>1, <1>4, <1>5
<1>8. walk'.previous # NoTimer
  BY <1>2 DEF NoTimer, Ids
<1>9. WalkOf(Timers, list, CurrentTick, walk')
  BY <1>4, <1>5, <1>6, <1>7, <1>8 DEF WalkOf
<1>10. /\ Timers' \in TimersType /\ Wheel' \in WheelType /\ CurrentTick' \in 0..MaxTick
       /\ InWheel(Timers', Wheel') /\ OneEach(Timers', asleep')
       /\ asleep' \subseteq Threads /\ IsFiniteSet(asleep')
       /\ QueuedTimers' = Cardinality(QueuedOf(Timers'))
       /\ SleepQueueCount' = Cardinality(asleep')
       /\ SleepQueueCount' = Cardinality(SleepTimers(Timers'))
  BY <1>1, Unfold DEF IInv
<1>11. WalkOf(Timers', Wheel'[TimerSlot(CurrentTick')], CurrentTick', walk')
  BY <1>1, <1>9 DEF list
<1>12. \A id \in QueuedOf(Timers') :
         /\ Timers'[id].DeadlineTick >= CurrentTick'
         /\ ~walk'.active => Timers'[id].DeadlineTick > CurrentTick'
  BY <1>1, <1>2, Unfold DEF IInv, Deadlines
<1> QED
  BY <1>2, <1>10, <1>11, <1>12, Fold

\* A walk ends: nothing that was due is left.
LEMMA TickDoneIInv ==
    ASSUME IInv, TickDone
    PROVE  IInv'
<1> DEFINE list == Wheel[TimerSlot(CurrentTick)]
<1>1. /\ walk.active /\ walk.rest = <<>> /\ walk' = NoWalk
      /\ UNCHANGED <<Timers, Wheel, CurrentTick, QueuedTimers, SleepQueueCount, asleep>>
  BY DEF TickDone
<1>2. /\ walk' \in [active : BOOLEAN, rest : Seq(Ids), previous : Ids \cup {NoTimer}]
      /\ ~walk'.active
  BY <1>1 DEF NoWalk
<1>3. \A i \in 1..Len(list) : Timers[list[i]].DeadlineTick > CurrentTick
  <2>1. Kept(list, walk) = Len(list)
    BY <1>1, Unfold DEF Kept
  <2> QED
    BY <1>1, <2>1 DEF IInv, WalkOf
<1>4. ASSUME NEW id \in QueuedOf(Timers) PROVE Timers[id].DeadlineTick > CurrentTick
  <2>1. /\ Timers[id].DeadlineTick \in Nat /\ Timers[id].DeadlineTick >= CurrentTick
        /\ id \in Ids
    BY Unfold DEF IInv, Deadlines, QueuedOf, TimersType, TimerType
  <2>2. CASE Timers[id].DeadlineTick = CurrentTick
    <3>1. InList(list, id)
      BY <2>1, <2>2, Unfold DEF IInv, InWheel
    <3> QED
      BY <1>3, <3>1 DEF InList
  <2> QED
    BY <2>1, <2>2, Unfold
<1>5. /\ Timers' \in TimersType /\ Wheel' \in WheelType /\ CurrentTick' \in 0..MaxTick
      /\ InWheel(Timers', Wheel') /\ OneEach(Timers', asleep')
      /\ asleep' \subseteq Threads /\ IsFiniteSet(asleep')
      /\ QueuedTimers' = Cardinality(QueuedOf(Timers'))
      /\ SleepQueueCount' = Cardinality(asleep')
      /\ SleepQueueCount' = Cardinality(SleepTimers(Timers'))
  BY <1>1, Unfold DEF IInv
<1>6. WalkOf(Timers', Wheel'[TimerSlot(CurrentTick')], CurrentTick', walk')
  BY <1>2 DEF WalkOf
<1>7. \A id \in QueuedOf(Timers') :
        /\ Timers'[id].DeadlineTick >= CurrentTick'
        /\ ~walk'.active => Timers'[id].DeadlineTick > CurrentTick'
  BY <1>1, <1>4, Unfold DEF IInv, Deadlines
<1> QED
  BY <1>2, <1>5, <1>6, <1>7, Fold

\* What ExpireNode leaves, before a callback queues anything: the timer that is
\* due is due now, it is out of the wheel, and the walk goes on behind it.
LEMMA ExpireStep ==
    ASSUME IInv, walk.active, walk.rest # <<>>,
           Timers[Head(walk.rest)].DeadlineTick <= CurrentTick,
           NEW T, T = Expire(Timers), NEW W, W = Unlinked,
           NEW w, w = [walk EXCEPT !.rest = Tail(@)]
    PROVE  LET h == Head(walk.rest)
               slot == TimerSlot(CurrentTick)
           IN  /\ h \in Queued /\ h \in Ids /\ Timers[h].DeadlineTick = CurrentTick
               /\ T \in TimersType /\ W \in WheelType /\ InWheel(T, W)
               /\ QueuedOf(T) = Queued \ {h}
               /\ \A x \in Ids \ {h} : T[x] = Timers[x]
               /\ T[h].State = "Expired"
               /\ w \in [active : BOOLEAN, rest : Seq(Ids), previous : Ids \cup {NoTimer}]
               /\ w.active
               /\ WalkOf(T, W[slot], CurrentTick, w)
               /\ Cardinality(QueuedOf(T)) = QueuedTimers - 1 /\ QueuedTimers > 0
               /\ \A x \in QueuedOf(T) : T[x].DeadlineTick >= CurrentTick
<1> DEFINE h == Head(walk.rest)
           slot == TimerSlot(CurrentTick)
           list == Wheel[slot]
           n == Kept(list, walk) + 1
           new == Unlink(list)
<1>1. /\ Timers \in TimersType /\ Wheel \in WheelType /\ CurrentTick \in Nat
      /\ Queued = QueuedOf(Timers) /\ Queued \in SUBSET Ids
      /\ slot \in Slots /\ list \in Seq(Ids) /\ Distinct(list) /\ walk.rest \in Seq(Ids)
  BY Unfold
<1>2. /\ InWheel(Timers, Wheel) /\ WalkOf(Timers, list, CurrentTick, walk)
      /\ QueuedTimers = Cardinality(Queued)
  BY DEF IInv
<1>3. /\ n \in 1..Len(list) /\ h = list[n]
      /\ new \in Seq(Ids) /\ Len(new) = Len(list) - 1
      /\ \A i \in 1..Len(new) : new[i] = IF i < n THEN list[i] ELSE list[i + 1]
  BY <1>1, <1>2, UnlinkHeadOfRest
<1>4. /\ T \in TimersType /\ T[h].State = "Expired"
      /\ \A x \in Ids \ {h} : T[x] = Timers[x]
      /\ W \in WheelType /\ W[slot] = new /\ \A s \in Slots \ {slot} : W[s] = Wheel[s]
  <2>1. T = [Timers EXCEPT ![h].State = "Expired"] /\ W = [Wheel EXCEPT ![slot] = new]
    BY DEF Expire, Unlinked
  <2>2. h \in Ids
    BY <1>1, <1>3
  <2> HIDE DEF h, new, slot
  <2>3. /\ T \in TimersType /\ T[h].State = "Expired"
        /\ \A x \in Ids \ {h} : T[x] = Timers[x]
    <3>1. Timers \in TimersType /\ T = [Timers EXCEPT ![h].State = "Expired"]
      BY <1>1, <2>1
    <3> QED
      BY <2>2, <3>1 DEF TimersType, TimerType
  <2>4. W \in WheelType /\ W[slot] = new /\ \A s \in Slots \ {slot} : W[s] = Wheel[s]
    BY <1>1, <1>3, <2>1 DEF WheelType
  <2> QED
    BY <2>3, <2>4
<1>5. walk \in [active : BOOLEAN, rest : Seq(Ids), previous : Ids \cup {NoTimer}]
  BY DEF IInv, TypeOK
<1>6. /\ w \in [active : BOOLEAN, rest : Seq(Ids), previous : Ids \cup {NoTimer}]
      /\ w.active /\ w.rest = Tail(walk.rest) /\ w.previous = walk.previous
  <2>1. Tail(walk.rest) \in Seq(Ids)
    BY <1>1
  <2> QED
    BY <1>5, <2>1
<1> HIDE DEF n, new, h, slot
<1>7. /\ h \in QueuedOf(Timers)
      /\ T \in TimersType /\ W \in WheelType /\ InWheel(T, W)
      /\ QueuedOf(T) = QueuedOf(Timers) \ {h}
      /\ \A x \in Ids \ {h} : T[x] = Timers[x]
      /\ T[h].State = "Expired"
  <2>1. h = Wheel[slot][n] /\ n \in 1..Len(Wheel[slot])
    BY <1>3
  <2>2. Without(Wheel, slot, n, W)
    BY <1>3, <1>4 DEF Without
  <2>3. /\ \A x \in Ids \ {Wheel[slot][n]} : T[x] = Timers[x]
        /\ T[Wheel[slot][n]].State = "Expired"
    BY <1>4, <2>1
  <2>4. /\ Wheel[slot][n] \in QueuedOf(Timers) /\ InWheel(T, W)
        /\ QueuedOf(T) = QueuedOf(Timers) \ {Wheel[slot][n]}
    <3>1. Wheel \in WheelType /\ InWheel(Timers, Wheel) /\ slot \in Slots /\ W \in WheelType
      BY <1>1, <1>2, <1>4
    <3>2. n \in 1..Len(Wheel[slot])
      BY <2>1
    <3> QED
      BY <2>2, <2>3, <3>1, <3>2, ExpireInWheel
  <2> QED
    BY <1>4, <2>1, <2>4
<1>8. h \in Ids
  BY <1>1, <1>7
<1>9. Timers[h].DeadlineTick = CurrentTick
  <2>1. Timers[h].DeadlineTick \in Nat /\ Timers[h].DeadlineTick <= CurrentTick
    BY <1>1, <1>8 DEF TimersType, TimerType, h
  <2>2. Timers[h].DeadlineTick >= CurrentTick
    BY <1>1, <1>7 DEF IInv, Deadlines
  <2> QED
    BY <1>1, <2>1, <2>2
<1>10. WalkOf(T, W[slot], CurrentTick, w)
  <2>1. W[slot] = Unlink(list)
    BY <1>4 DEF new
  <2>2. WalkOf(T, Unlink(list), CurrentTick, w)
    BY <1>1, <1>2, <1>6, <1>7, WalkAfterExpiry DEF h
  <2> QED
    BY <2>1, <2>2
<1>11. Cardinality(QueuedOf(T)) = QueuedTimers - 1 /\ QueuedTimers > 0
  BY <1>1, <1>2, <1>7, <1>8, CountTimer
<1>12. \A x \in QueuedOf(T) : T[x].DeadlineTick >= CurrentTick
  BY <1>1, <1>7 DEF IInv, Deadlines
<1> QED
  BY <1>1, <1>6, <1>7, <1>8, <1>9, <1>10, <1>11, <1>12 DEF h, slot

\* A sleeping thread is woken.
LEMMA WakeSleepingThreadIInv ==
    ASSUME IInv, WakeSleepingThread
    PROVE  IInv'
<1> DEFINE h == Head(walk.rest)
           t == Timers[h].Thread
           T == Timers'
           W == Wheel'
           w == walk'
<1>1. /\ walk.active /\ walk.rest # <<>> /\ Timers[h].DeadlineTick <= CurrentTick
      /\ Timers[h].Kind = "Sleep"
      /\ T = Expire(Timers) /\ W = Unlinked /\ w = [walk EXCEPT !.rest = Tail(@)]
      /\ QueuedTimers' = Minus1(QueuedTimers) /\ SleepQueueCount' = Minus1(SleepQueueCount)
      /\ asleep' = asleep \ {t} /\ CurrentTick' = CurrentTick
  BY DEF WakeSleepingThread, IsDue
<1> HIDE DEF T, W, w
<1>2. /\ h \in Queued /\ h \in Ids
      /\ T \in TimersType /\ W \in WheelType /\ InWheel(T, W)
      /\ \A x \in Ids \ {h} : T[x] = Timers[x]
      /\ T[h].State = "Expired"
      /\ w \in [active : BOOLEAN, rest : Seq(Ids), previous : Ids \cup {NoTimer}]
      /\ w.active
      /\ WalkOf(T, W[TimerSlot(CurrentTick)], CurrentTick, w)
      /\ Cardinality(QueuedOf(T)) = QueuedTimers - 1 /\ QueuedTimers > 0
      /\ \A x \in QueuedOf(T) : T[x].DeadlineTick >= CurrentTick
  BY <1>1, ExpireStep
<1>3. h \in SleepTimers(Timers) /\ OneEach(Timers, asleep)
  BY <1>1, <1>2 DEF SleepTimers, QueuedOf, Queued, IInv
<1> HIDE DEF h
<1>4. /\ OneEach(T, asleep \ {t}) /\ t \in asleep
      /\ SleepTimers(T) = SleepTimers(Timers) \ {h}
  BY <1>2, <1>3, ExpireSleeper
<1>5. SleepQueueCount > 0 /\ Cardinality(SleepTimers(T)) = SleepQueueCount - 1
  <2>1. SleepTimers(Timers) \in SUBSET Ids /\ SleepQueueCount = Cardinality(SleepTimers(Timers))
    BY Unfold DEF IInv
  <2> QED
    BY <1>2, <1>3, <1>4, <2>1, CountTimer
<1>6. IsFiniteSet(asleep \ {t}) /\ Cardinality(asleep \ {t}) = SleepQueueCount - 1
  BY <1>4, FS_RemoveElement DEF IInv
<1>7. QueuedTimers' = QueuedTimers - 1 /\ SleepQueueCount' = SleepQueueCount - 1
  BY <1>1, <1>2, <1>5, Unfold DEF Minus1
<1>8. asleep' \subseteq Threads /\ CurrentTick' \in 0..MaxTick
  BY <1>1, Unfold
<1>9. \A x \in QueuedOf(T) :
        T[x].DeadlineTick >= CurrentTick' /\ (~w.active => T[x].DeadlineTick > CurrentTick')
  BY <1>1, <1>2
<1> QED
  BY <1>1, <1>2, <1>4, <1>5, <1>6, <1>7, <1>8, <1>9, Fold DEF T, W, w

\* A callback that queues nothing.
LEMMA RunCallbackIInv ==
    ASSUME IInv, RunCallback
    PROVE  IInv'
<1> DEFINE h == Head(walk.rest)
           T == Timers'
           W == Wheel'
           w == walk'
<1>1. /\ walk.active /\ walk.rest # <<>> /\ Timers[h].DeadlineTick <= CurrentTick
      /\ Timers[h].Kind = "Callback"
      /\ T = Expire(Timers) /\ W = Unlinked /\ w = [walk EXCEPT !.rest = Tail(@)]
      /\ QueuedTimers' = Minus1(QueuedTimers)
      /\ UNCHANGED <<CurrentTick, SleepQueueCount, asleep>>
  BY DEF RunCallback, IsDue
<1> HIDE DEF T, W, w
<1>2. /\ h \in Ids
      /\ T \in TimersType /\ W \in WheelType /\ InWheel(T, W)
      /\ \A x \in Ids \ {h} : T[x] = Timers[x]
      /\ T[h].State = "Expired"
      /\ w \in [active : BOOLEAN, rest : Seq(Ids), previous : Ids \cup {NoTimer}]
      /\ w.active
      /\ WalkOf(T, W[TimerSlot(CurrentTick)], CurrentTick, w)
      /\ Cardinality(QueuedOf(T)) = QueuedTimers - 1 /\ QueuedTimers > 0
      /\ \A x \in QueuedOf(T) : T[x].DeadlineTick >= CurrentTick
  BY <1>1, ExpireStep
<1>3. h \notin SleepTimers(Timers) /\ OneEach(Timers, asleep)
  BY <1>1 DEF SleepTimers, IInv
<1>4. OneEach(T, asleep) /\ SleepTimers(T) = SleepTimers(Timers)
  BY <1>2, <1>3, ExpireOther
<1>5. QueuedTimers' = QueuedTimers - 1
  BY <1>1, <1>2 DEF Minus1
<1>6. /\ asleep' \subseteq Threads /\ CurrentTick' \in 0..MaxTick /\ IsFiniteSet(asleep')
      /\ SleepQueueCount' = Cardinality(asleep')
      /\ SleepQueueCount' = Cardinality(SleepTimers(T))
  BY <1>1, <1>4, Unfold DEF IInv
<1>7. \A x \in QueuedOf(T) :
        T[x].DeadlineTick >= CurrentTick' /\ (~w.active => T[x].DeadlineTick > CurrentTick')
  BY <1>1, <1>2
<1> QED
  BY <1>1, <1>2, <1>4, <1>5, <1>6, <1>7, Fold DEF T, W, w

\* Queueing into another slot leaves the walk alone.
LEMMA WalkBesideQueueing ==
    ASSUME NEW T, NEW N, NEW list \in Seq(Ids), NEW w, w.active, w.rest \in Seq(Ids),
           WalkOf(T, list, CurrentTick, w),
           NEW id \in Ids, ~InList(list, id), \A x \in Ids \ {id} : N[x] = T[x]
    PROVE  WalkOf(N, list, CurrentTick, w)
<1>1. /\ Kept(list, w) \in Nat
      /\ \A j \in 1..Len(w.rest) : w.rest[j] = list[Kept(list, w) + j]
      /\ \A i \in 1..Kept(list, w) : T[list[i]].DeadlineTick > CurrentTick
      /\ w.previous = NoTimer <=> Kept(list, w) = 0
  BY DEF WalkOf
<1>2. Kept(list, w) <= Len(list)
  BY DEF Kept
<1>3. ASSUME NEW i \in 1..Kept(list, w) PROVE N[list[i]].DeadlineTick > CurrentTick
  <2>1. i \in 1..Len(list)
    BY <1>1, <1>2
  <2>2. list[i] \in Ids /\ list[i] # id
    BY <2>1 DEF InList
  <2> QED
    BY <1>1, <2>2
<1> QED
  BY <1>1, <1>3 DEF WalkOf

\* A callback that queues a new timer: into another slot, so that the list that
\* is being walked is as the walk expects it.
LEMMA RunCallbackThatRearmsIInv ==
    ASSUME IInv, RearmsElsewhere, NEW delay \in Rearms, RunCallbackThatRearms(delay)
    PROVE  IInv'
<1> DEFINE h == Head(walk.rest)
           slot == TimerSlot(CurrentTick)
           T == Expire(Timers)
           W == Unlinked
           w == walk'
           N == Timers'
           V == Wheel'
<1>1. PICK id \in Ids :
        /\ IsAllocated(id)
        /\ N = [T EXCEPT ![id] = Timer("Queued", "Callback", CurrentTick + delay, NoThread)]
        /\ V = QueueNode(W, id, CurrentTick + delay)
  BY DEF RunCallbackThatRearms
<1>2. /\ walk.active /\ walk.rest # <<>> /\ Timers[h].DeadlineTick <= CurrentTick
      /\ Timers[h].Kind = "Callback" /\ delay > 0 /\ CurrentTick + delay <= MaxTick
      /\ w = [walk EXCEPT !.rest = Tail(@)]
      /\ QueuedTimers' = Minus1(QueuedTimers) + 1
      /\ UNCHANGED <<CurrentTick, SleepQueueCount, asleep>>
  BY DEF RunCallbackThatRearms, IsDue
<1>3. T = Expire(Timers) /\ W = Unlinked
  OBVIOUS
<1> DEFINE r == Timer("Queued", "Callback", CurrentTick + delay, NoThread)
<1>4. /\ r \in TimerType /\ r.State = "Queued" /\ r.Kind = "Callback"
      /\ r.DeadlineTick = CurrentTick + delay
  <2>1. CurrentTick + delay \in 0..MaxTick
    BY <1>2, Unfold, DelayAssumption, WheelAssumption
  <2> QED
    BY <2>1, TimerRecord
<1> HIDE DEF T, W, w, N, V, r
<1>5. /\ h \in Queued /\ h \in Ids
      /\ T \in TimersType /\ W \in WheelType /\ InWheel(T, W)
      /\ QueuedOf(T) = Queued \ {h}
      /\ \A x \in Ids \ {h} : T[x] = Timers[x]
      /\ T[h].State = "Expired"
      /\ w \in [active : BOOLEAN, rest : Seq(Ids), previous : Ids \cup {NoTimer}]
      /\ w.active
      /\ WalkOf(T, W[slot], CurrentTick, w)
      /\ Cardinality(QueuedOf(T)) = QueuedTimers - 1 /\ QueuedTimers > 0
      /\ \A x \in QueuedOf(T) : T[x].DeadlineTick >= CurrentTick
  BY <1>2, <1>3, ExpireStep
<1>6. id # h /\ T[id].State # "Queued" /\ id \notin QueuedOf(T)
  BY <1>1, <1>5 DEF IsAllocated, Free, Queued
<1>7. /\ N \in TimersType /\ N[id] = r /\ \A x \in Ids \ {id} : N[x] = T[x]
  BY <1>1, <1>4, <1>5 DEF TimersType, r
<1>8. V = QueueNode(W, id, r.DeadlineTick)
  BY <1>1, <1>4
<1>9. /\ V \in WheelType /\ InWheel(N, V) /\ QueuedOf(N) = QueuedOf(T) \cup {id}
      /\ \A s \in Slots \ {TimerSlot(r.DeadlineTick)} : V[s] = W[s]
  BY <1>4, <1>5, <1>6, <1>7, <1>8, QueueInWheel
<1>10. slot \in Slots /\ slot # TimerSlot(r.DeadlineTick)
  <2>1. CurrentTick \in Nat /\ delay \in Nat /\ delay % SLOTS # 0
    BY Unfold, DelayAssumption DEF RearmsElsewhere
  <2>2. TimerSlot(CurrentTick + delay) # TimerSlot(CurrentTick)
    BY <2>1, OtherSlot
  <2> QED
    BY <1>4, <2>2, Unfold
<1>11. V[slot] = W[slot] /\ W[slot] \in Seq(Ids) /\ ~InList(W[slot], id)
  BY <1>5, <1>6, <1>9, <1>10 DEF InWheel, WheelType
<1>12. WalkOf(N, V[slot], CurrentTick, w)
  <2>1. w.rest \in Seq(Ids)
    BY <1>5
  <2> HIDE DEF slot
  <2> QED
    BY <1>5, <1>7, <1>11, <2>1, WalkBesideQueueing
<1>13. Cardinality(QueuedOf(N)) = QueuedTimers'
  <2>1. Cardinality(QueuedOf(N)) = Cardinality(QueuedOf(T)) + 1
    BY <1>5, <1>6, <1>9, Unfold, CountTimer
  <2> QED
    BY <1>2, <1>5, <2>1, Unfold DEF Minus1
<1>14. OneEach(N, asleep) /\ SleepTimers(N) = SleepTimers(Timers)
  <2>1. h \notin SleepTimers(Timers) /\ OneEach(Timers, asleep)
    BY <1>2 DEF SleepTimers, IInv
  <2>2. OneEach(T, asleep) /\ SleepTimers(T) = SleepTimers(Timers)
    BY <1>5, <2>1, ExpireOther
  <2> QED
    BY <1>4, <1>6, <1>7, <2>2, QueueCallback
<1>15. \A x \in QueuedOf(N) :
         N[x].DeadlineTick >= CurrentTick' /\ (~w.active => N[x].DeadlineTick > CurrentTick')
  <2>1. r.DeadlineTick >= CurrentTick
    BY <1>4, Unfold, DelayAssumption
  <2>2. \A x \in QueuedOf(T) : x # id /\ x \in Ids
    BY <1>6 DEF QueuedOf
  <2>3. \A x \in QueuedOf(N) : N[x].DeadlineTick >= CurrentTick
    BY <1>5, <1>7, <1>9, <2>1, <2>2
  <2> QED
    BY <1>2, <1>5, <2>3
<1>16. /\ asleep' \subseteq Threads /\ CurrentTick' \in 0..MaxTick /\ IsFiniteSet(asleep')
       /\ SleepQueueCount' = Cardinality(asleep')
       /\ SleepQueueCount' = Cardinality(SleepTimers(N))
       /\ OneEach(N, asleep') /\ TimerSlot(CurrentTick') = slot
       /\ WalkOf(N, V[TimerSlot(CurrentTick')], CurrentTick', w)
  BY <1>2, <1>12, <1>14, Unfold DEF IInv
<1> QED
  BY <1>5, <1>7, <1>9, <1>13, <1>15, <1>16, Fold DEF N, V, w

\* The invariant is inductive.
LEMMA NextIInv ==
    ASSUME TicksInOrder, RearmsElsewhere, IInv, [Next]_vars
    PROVE  IInv'
<1>1. ASSUME NEW t \in Threads, NEW deadline \in 1..MaxTick, SleepUntil(t, deadline) PROVE IInv'
  BY <1>1, SleepUntilIInv
<1>2. ASSUME NEW deadline \in 1..MaxTick, QueueTimer(deadline) PROVE IInv'
  BY <1>2, QueueTimerIInv
<1>3. ASSUME NEW advance \in Advances, Tick(advance) PROVE IInv'
  BY <1>3, TickIInv
<1>4. ASSUME NEW delay \in Rearms, RunCallbackThatRearms(delay) PROVE IInv'
  BY <1>4, RunCallbackThatRearmsIInv
<1>5. CASE UNCHANGED vars
  <2>1. /\ Timers' = Timers /\ Wheel' = Wheel /\ CurrentTick' = CurrentTick /\ walk' = walk
        /\ QueuedTimers' = QueuedTimers /\ SleepQueueCount' = SleepQueueCount /\ asleep' = asleep
    BY <1>5 DEF vars
  <2>2. walk \in [active : BOOLEAN, rest : Seq(Ids), previous : Ids \cup {NoTimer}]
    BY DEF IInv, TypeOK
  <2> QED
    BY <2>1, <2>2, Unfold, Fold DEF IInv, Deadlines
<1> QED
  BY <1>1, <1>2, <1>3, <1>4, <1>5, WalkKeepsIInv, WakeSleepingThreadIInv, RunCallbackIInv,
     TickDoneIInv DEF Next, Walk

-----------------------------------------------------------------------------

\* The invariant gives every part of WheelSound.
LEMMA IInvSound == IInv => WheelSound
<1> SUFFICES ASSUME IInv PROVE WheelSound
  OBVIOUS
<1>1. TypeOK /\ CountsAgree
  BY DEF IInv, CountsAgree
<1>2. QueuedInWheel
  BY Unfold DEF IInv, InWheel, Distinct, QueuedInWheel
<1>3. SleepersHaveTimers
  <2> SUFFICES ASSUME NEW t \in Threads
               PROVE  Cardinality({id \in Queued : Timers[id].Kind = "Sleep" /\ Timers[id].Thread = t})
                        = IF t \in asleep THEN 1 ELSE 0
    BY DEF SleepersHaveTimers
  <2> DEFINE S == {id \in Queued : Timers[id].Kind = "Sleep" /\ Timers[id].Thread = t}
  <2>1. S = {id \in SleepTimers(Timers) : Timers[id].Thread = t}
    BY Unfold DEF SleepTimers
  <2>2. OneEach(Timers, asleep)
    BY DEF IInv
  <2> HIDE DEF S
  <2>3. CASE t \in asleep
    <3>1. PICK id \in SleepTimers(Timers) : Timers[id].Thread = t
      BY <2>2, <2>3 DEF OneEach
    <3>2. S = {id}
      BY <2>1, <2>2, <3>1 DEF OneEach
    <3> QED
      BY <2>3, <3>2, FS_Singleton DEF S
  <2>4. CASE t \notin asleep
    <3>1. S = {}
      BY <2>1, <2>2, <2>4 DEF OneEach
    <3> QED
      BY <2>4, <3>1, FS_EmptySet DEF S
  <2> QED
    BY <2>3, <2>4
<1>4. NoneOverdue
  BY DEF IInv, Deadlines, NoneOverdue
<1> QED
  BY <1>1, <1>2, <1>3, <1>4 DEF WheelSound

\* The wheel, the pool, the counters and the sleeping threads tell one story
\* through walks, callbacks that queue and slots that several turns share
\* (KernelScheduler.c OrynKernelSchedulerTick), for every size of the wheel.
THEOREM WheelAlwaysSound ==
    ASSUME TicksInOrder, RearmsElsewhere
    PROVE  Spec => []WheelSound
<1>1. Init => IInv
  BY InitIInv
<1>2. IInv /\ [Next]_vars => IInv'
  BY NextIInv
<1> QED
  BY <1>1, <1>2, IInvSound, PTL DEF Spec

\* A step that takes a timer out of the queue does so at its deadline, and no
\* step queues an expired timer.
LEMMA StepOnTime ==
    ASSUME IInv, [Next]_vars
    PROVE  \A id \in Ids :
              /\ id \in Queued /\ id \notin Queued' => Timers[id].DeadlineTick = CurrentTick
              /\ Timers[id].State = "Expired" => Timers'[id].State = "Expired"
<1>1. Timers \in TimersType
  BY Unfold
<1>2. ASSUME Timers' = Timers
      PROVE  \A id \in Ids :
              /\ id \in Queued /\ id \notin Queued' => Timers[id].DeadlineTick = CurrentTick
              /\ Timers[id].State = "Expired" => Timers'[id].State = "Expired"
  BY <1>2 DEF Queued
<1>3. ASSUME NEW id \in Ids, IsAllocated(id), NEW r, r.State = "Queued",
             Timers' = [Timers EXCEPT ![id] = r]
      PROVE  \A x \in Ids :
              /\ x \in Queued /\ x \notin Queued' => Timers[x].DeadlineTick = CurrentTick
              /\ Timers[x].State = "Expired" => Timers'[x].State = "Expired"
  <2>1. Timers[id].State = "Free" /\ Timers'[id] = r /\ \A x \in Ids \ {id} : Timers'[x] = Timers[x]
    BY <1>1, <1>3 DEF IsAllocated, Free, TimersType
  <2> QED
    BY <1>3, <2>1 DEF Queued
<1>4. ASSUME walk.active, walk.rest # <<>>, Timers[Head(walk.rest)].DeadlineTick <= CurrentTick
      PROVE  LET h == Head(walk.rest)
             IN  /\ Timers[h].DeadlineTick = CurrentTick /\ h \in Ids
                 /\ \A x \in Ids \ {h} : Expire(Timers)[x] = Timers[x]
                 /\ Expire(Timers)[h].State = "Expired"
  BY <1>4, ExpireStep
<1>5. ASSUME walk.active, walk.rest # <<>>, Timers[Head(walk.rest)].DeadlineTick <= CurrentTick,
             Timers' = Expire(Timers)
      PROVE  \A x \in Ids :
              /\ x \in Queued /\ x \notin Queued' => Timers[x].DeadlineTick = CurrentTick
              /\ Timers[x].State = "Expired" => Timers'[x].State = "Expired"
  BY <1>4, <1>5 DEF Queued
<1>6. ASSUME NEW delay \in Rearms, RunCallbackThatRearms(delay)
      PROVE  \A x \in Ids :
              /\ x \in Queued /\ x \notin Queued' => Timers[x].DeadlineTick = CurrentTick
              /\ Timers[x].State = "Expired" => Timers'[x].State = "Expired"
  <2> DEFINE T == Expire(Timers)
  <2>1. PICK id \in Ids :
          /\ IsAllocated(id)
          /\ Timers' = [T EXCEPT ![id] = Timer("Queued", "Callback", CurrentTick + delay, NoThread)]
    BY <1>6 DEF RunCallbackThatRearms
  <2>2. walk.active /\ walk.rest # <<>> /\ Timers[Head(walk.rest)].DeadlineTick <= CurrentTick
    BY <1>6 DEF RunCallbackThatRearms, IsDue
  <2>3. T \in TimersType
    BY <2>2, ExpireStep
  <2>4. Timers[id].State = "Free"
    BY <2>1 DEF IsAllocated, Free
  <2>5. Timers'[id].State = "Queued" /\ \A x \in Ids \ {id} : Timers'[x] = T[x]
    BY <2>1, <2>3 DEF TimersType, Timer
  <2> HIDE DEF T
  <2>6. /\ \A x \in Ids \ {Head(walk.rest)} : T[x] = Timers[x]
        /\ T[Head(walk.rest)].State = "Expired"
        /\ Timers[Head(walk.rest)].DeadlineTick = CurrentTick
    BY <1>4, <2>2 DEF T
  <2> QED
    BY <2>4, <2>5, <2>6 DEF Queued
<1>7. \A kind, deadline, thread :
        Timer("Queued", kind, deadline, thread).State = "Queued"
  BY DEF Timer
<1> QED
  BY <1>2, <1>3, <1>5, <1>6, <1>7
  DEF Next, vars, SleepUntil, QueueTimer, Tick, Walk, WalkKeeps, WakeSleepingThread, RunCallback,
      IsDue, TickDone

\* A timer expires in the tick of its deadline, not before and not after, and an
\* expired timer never goes back to the queue (KernelScheduler.c ExpireNode).
THEOREM AlwaysOnTime ==
    ASSUME TicksInOrder, RearmsElsewhere
    PROVE  Spec => ExpiresOnTime
<1>1. Init => IInv
  BY InitIInv
<1>2. IInv /\ [Next]_vars => IInv'
  BY NextIInv
<1>3. IInv /\ [Next]_vars =>
        [\A id \in Ids :
            /\ id \in Queued /\ id \notin Queued' => Timers[id].DeadlineTick = CurrentTick
            /\ Timers[id].State = "Expired" => Timers'[id].State = "Expired"]_vars
  BY StepOnTime
<1> QED
  BY <1>1, <1>2, <1>3, PTL DEF Spec, ExpiresOnTime

=============================================================================
