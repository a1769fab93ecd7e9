-------------------------------- MODULE Process --------------------------------
(***************************************************************************)
(* Processes and threads: creation, copy-on-write children, exit and wait, *)
(* event queues, destruction and the context switch.  A process or thread  *)
(* is a structure at a heap address; an address is used again after kfree, *)
(* and the list of children runs through the structures themselves.        *)
(***************************************************************************)
EXTENDS Integers, Sequences, FiniteSets, SequencesExt, FiniteSetsExt, Functions

CONSTANTS
    ProcAddresses,    \* heap addresses of process structures, positive numbers
    ThreadAddresses,  \* heap addresses of thread structures, positive numbers
    EventLimit,       \* ORYN_KERNEL_PROCESS_EVENT_QUEUE_LIMIT
    Events,           \* event codes, positive numbers
    Statuses,         \* exit statuses
    DestroyLinked,    \* whether callers destroy a process its parent still lists
    MaxIds,           \* bound: processes that are ever created
    MaxThreadIds,     \* bound: threads that are ever created
    MaxSteps          \* bound: calls

Null == 0

VARIABLES
    procs,     \* address -> process, for the structures that are allocated
    threads,   \* address -> thread
    nextId,    \* gNextProcessId and gNextThreadId
    steps      \* calls so far

processVars == <<procs, threads, nextId, steps>>

EventQueue == [slots : [1 .. EventLimit -> Events \cup {0}], pending : 0 .. EventLimit]

Proc == [id : Nat, ppid : Nat, state : {"created", "ready", "zombie"}, user : BOOLEAN, threads : Nat,
         status : Statuses \cup {0}, exited : BOOLEAN, waited : BOOLEAN, parent : ProcAddresses \cup {Null},
         first : ProcAddresses \cup {Null}, next : ProcAddresses \cup {Null}, kids : Nat, events : EventQueue]

Thread == [id : Nat, owner : ProcAddresses, state : {"ready", "zombie", "stopped"}, ready : BOOLEAN,
           user : BOOLEAN, cr3 : Nat, events : EventQueue]

NoEvents == [slots |-> [i \in 1 .. EventLimit |-> 0], pending |-> 0]

\* ProcessClear and the fields OrynKernelProcessCreate sets; the parent is a number
\* only, the process is not linked.
NewProcess(id, ppid, state, user) ==
    [id |-> id, ppid |-> ppid, state |-> state, user |-> user, threads |-> 0, status |-> 0,
     exited |-> FALSE, waited |-> FALSE, parent |-> Null, first |-> Null, next |-> Null,
     kids |-> 0, events |-> NoEvents]

ProcessInit ==
    /\ procs = <<>> /\ threads = <<>>
    /\ nextId = [proc |-> 1, thread |-> 1] /\ steps = 0

\* f with one more argument.
Extended(f, x, v) == [y \in DOMAIN f \cup {x} |-> IF y = x THEN v ELSE f[y]]

Fresh(used, all) == IF all \ used = {} THEN {} ELSE {Min(all \ used)}

\* OrynKernelProcessCreate; a failed allocation frees what it has and is not shown.
ProcessCreate(a, ppid) ==
    /\ a \in Fresh(DOMAIN procs, ProcAddresses) /\ nextId.proc <= MaxIds
    /\ procs' = Extended(procs, a, NewProcess(nextId.proc, ppid, "ready", FALSE))
    /\ nextId' = [nextId EXCEPT !.proc = @ + 1]
    /\ UNCHANGED threads

LinkParentChild(ps, p, c) ==
    [ps EXCEPT ![c] = [@ EXCEPT !.parent = p, !.next = ps[p].first],
               ![p] = [@ EXCEPT !.first = c, !.kids = ps[p].kids + 1]]

CreateCopyOnWriteChild(p, a) ==
    /\ p \in DOMAIN procs /\ a \in Fresh(DOMAIN procs, ProcAddresses) /\ nextId.proc <= MaxIds
    /\ procs' = LinkParentChild(
                   Extended(procs, a, NewProcess(nextId.proc, procs[p].id, "created", procs[p].user)), p, a)
    /\ nextId' = [nextId EXCEPT !.proc = @ + 1]
    /\ UNCHANGED threads

UserProcessFromProcess(p) ==
    /\ p \in DOMAIN procs
    /\ procs' = [procs EXCEPT ![p].user = TRUE]
    /\ UNCHANGED <<threads, nextId>>

\* AllocateThread under OrynKernelThreadCreateKernel and OrynKernelThreadCreateUser; the
\* context holds the address space of the owner.
ThreadCreate(t, p, user) ==
    /\ p \in DOMAIN procs /\ t \in Fresh(DOMAIN threads, ThreadAddresses) /\ nextId.thread <= MaxThreadIds
    /\ user => procs[p].user
    /\ threads' = Extended(threads, t, [id |-> nextId.thread, owner |-> p, state |-> "ready", ready |-> TRUE,
                                        user |-> user, cr3 |-> procs[p].id, events |-> NoEvents])
    /\ procs' = [procs EXCEPT ![p].threads = @ + 1]
    /\ nextId' = [nextId EXCEPT !.thread = @ + 1]

ThreadDestroy(t) ==
    /\ t \in DOMAIN threads
    /\ LET o == threads[t].owner IN
       procs' = IF o \in DOMAIN procs /\ procs[o].threads > 0
                THEN [procs EXCEPT ![o].threads = @ - 1] ELSE procs
    /\ threads' = Restrict(threads, DOMAIN threads \ {t})
    /\ UNCHANGED nextId

\* Structures that FirstChild and NextSibling lead to, in order, and where the walk
\* is then.
Chained(s, p) == \A i \in DOMAIN s : s[i] = IF i = 1 THEN procs[p].first ELSE procs[s[i - 1]].next

Reached(s, p) == IF s = <<>> THEN procs[p].first ELSE procs[s[Len(s)]].next

\* The list of p's children, as far as the structures are allocated.
Listed(p) ==
    CHOOSE s \in BoundedSeq(DOMAIN procs, Cardinality(ProcAddresses)) :
        Chained(s, p) /\ (Reached(s, p) \notin DOMAIN procs \/ Len(s) = Cardinality(ProcAddresses))

\* OrynKernelProcessDestroy unlinks the process from nobody.  Callers destroy its
\* threads first, and with DestroyLinked also a process a parent still lists.
ProcessDestroy(p) ==
    /\ p \in DOMAIN procs
    /\ \A t \in DOMAIN threads : threads[t].owner # p
    /\ DestroyLinked \/ \A q \in DOMAIN procs : p \notin Range(Listed(q))
    /\ procs' = Restrict(procs, DOMAIN procs \ {p})
    /\ UNCHANGED <<threads, nextId>>

ProcessExit(p, status) ==
    /\ p \in DOMAIN procs
    /\ procs' = [procs EXCEPT ![p].status = status, ![p].exited = TRUE, ![p].state = "zombie"]
    /\ UNCHANGED <<threads, nextId>>

\* Mutant of Matching: a child is found whether it has exited or not.
MatchingAny(p, id) == {i \in DOMAIN Listed(p) : id \in {0, procs[Listed(p)[i]].id}}

\* The places of the children a wait for id accepts, 0 for any of them.
Matching(p, id) ==
    {i \in DOMAIN Listed(p) : id \in {0, procs[Listed(p)[i]].id} /\ procs[Listed(p)[i]].exited}

\* The child stays in the list: the next wait finds it again.
ProcessWait(p, id) ==
    /\ p \in DOMAIN procs /\ Matching(p, id) # {}
    /\ procs' = [procs EXCEPT ![Listed(p)[Min(Matching(p, id))]].waited = TRUE]
    /\ UNCHANGED <<threads, nextId>>

ThreadExit(t) ==
    /\ t \in DOMAIN threads
    /\ threads' = [threads EXCEPT ![t].state = "zombie", ![t].ready = FALSE]
    /\ UNCHANGED <<procs, nextId>>

ThreadStop(t) ==
    /\ t \in DOMAIN threads
    /\ threads' = [threads EXCEPT ![t].state = "stopped", ![t].ready = FALSE]
    /\ UNCHANGED <<procs, nextId>>

\* QueueProcessEvent takes the first unused slot, ThreadReceiveEvent the first used
\* one: with a slot freed in between a later event comes first.
UnusedSlots(q) == {i \in 1 .. EventLimit : q.slots[i] = 0}
UsedSlots(q) == 1 .. EventLimit \ UnusedSlots(q)

Queued(q, e) ==
    [slots |-> [q.slots EXCEPT ![Min(UnusedSlots(q))] = e], pending |-> q.pending + 1]

Received(q) ==
    [slots |-> [q.slots EXCEPT ![Min(UsedSlots(q))] = 0], pending |-> q.pending - 1]

Accepts(q) == q.pending < EventLimit /\ UnusedSlots(q) # {}

ProcessSendEvent(p, e) ==
    /\ p \in DOMAIN procs /\ Accepts(procs[p].events)
    /\ procs' = [procs EXCEPT ![p].events = Queued(@, e)]
    /\ UNCHANGED <<threads, nextId>>

ThreadSendEvent(t, e) ==
    /\ t \in DOMAIN threads /\ Accepts(threads[t].events)
    /\ threads' = [threads EXCEPT ![t].events = Queued(@, e)]
    /\ UNCHANGED <<procs, nextId>>

ThreadReceiveEvent(t) ==
    /\ t \in DOMAIN threads /\ threads[t].events.pending > 0 /\ UsedSlots(threads[t].events) # {}
    /\ threads' = [threads EXCEPT ![t].events = Received(@)]
    /\ UNCHANGED <<procs, nextId>>

\* OrynKernelX64ContextSwitch writes the new context over the old one.
ContextSwitch(old, new) ==
    /\ {old, new} \subseteq DOMAIN threads
    /\ threads' = [threads EXCEPT ![old].cr3 = threads[new].cr3]
    /\ UNCHANGED <<procs, nextId>>

Call ==
    \/ \E a \in ProcAddresses, q \in DOMAIN procs : CreateCopyOnWriteChild(q, a)
    \/ \E a \in ProcAddresses : ProcessCreate(a, 0)
    \/ \E p \in DOMAIN procs : UserProcessFromProcess(p) \/ ProcessDestroy(p)
    \/ \E p \in DOMAIN procs, s \in Statuses : ProcessExit(p, s)
    \/ \E p \in DOMAIN procs, id \in 0 .. MaxIds : ProcessWait(p, id)
    \/ \E p \in DOMAIN procs, e \in Events : ProcessSendEvent(p, e)
    \/ \E t \in ThreadAddresses, p \in DOMAIN procs, user \in BOOLEAN : ThreadCreate(t, p, user)
    \/ \E t \in DOMAIN threads : ThreadDestroy(t) \/ ThreadExit(t) \/ ThreadStop(t) \/ ThreadReceiveEvent(t)
    \/ \E t \in DOMAIN threads, e \in Events : ThreadSendEvent(t, e)
    \/ \E t, u \in DOMAIN threads : ContextSwitch(t, u)

ProcessNext == steps < MaxSteps /\ steps' = steps + 1 /\ Call

\* What the proofs use of the constants: addresses and event codes are positive
\* numbers, and no process is destroyed while its parent lists it.
ProcessConstants ==
    /\ IsFiniteSet(ProcAddresses) /\ ProcAddresses \subseteq Nat \ {Null}
    /\ IsFiniteSet(ThreadAddresses) /\ ThreadAddresses \subseteq Nat \ {Null}
    /\ EventLimit \in Nat /\ Events \subseteq Nat \ {0}
    /\ ~DestroyLinked

ProcessSpec == ProcessInit /\ [][ProcessNext]_processVars

ProcessTypeOK ==
    /\ \A p \in DOMAIN procs : procs[p] \in Proc
    /\ \A t \in DOMAIN threads : threads[t] \in Thread

\* ThreadCount of a process is the number of its threads, through failed
\* creations, exits and destructions in any order: it never wraps and never
\* keeps a destroyed process's count.
ThreadCountExact ==
    \A p \in DOMAIN procs :
        procs[p].threads = Cardinality({t \in DOMAIN threads : threads[t].owner = p})

\* The list of a process is exactly the processes cloned from it, once each, and
\* ChildCount is its length: no child is lost to wait and none is foreign.
ChildrenExact ==
    \A p \in DOMAIN procs :
        /\ IsInjective(Listed(p)) /\ Len(Listed(p)) = procs[p].kids
        /\ Range(Listed(p)) = {c \in DOMAIN procs : procs[c].ppid = procs[p].id}

\* Nobody is waited for before it has exited, and only a child is: the exit
\* status a wait reports is the one the child left, and stays so.
WaitReportsExited ==
    \A c \in DOMAIN procs : procs[c].waited =>
        procs[c].exited /\ procs[c].state = "zombie" /\ procs[c].ppid # 0

\* The counter of an event queue is the number of its used slots: no event is
\* refused while there is room, none is lost and none is received twice.
EventCountExact ==
    /\ \A p \in DOMAIN procs : procs[p].events.pending = Cardinality(UsedSlots(procs[p].events))
    /\ \A t \in DOMAIN threads : threads[t].events.pending = Cardinality(UsedSlots(threads[t].events))

\* Processes, threads, children and event queues agree with their counters and
\* links in whatever order they are made, ended, waited for and destroyed
\* (KernelProcess.c, KernelProcessLifecycle.c, KernelProcessEvents.c).
ProcessesSound ==
    /\ ProcessTypeOK
    /\ ThreadCountExact
    /\ ChildrenExact
    /\ WaitReportsExited
    /\ EventCountExact

=============================================================================
