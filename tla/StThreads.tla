------------------------------ MODULE StThreads ------------------------------
(***************************************************************************)
(* The part of the State Threads library (3rdpart/st-1.9) that decides the *)
(* order in which the server's coroutines run.  One OS thread executes one *)
(* coroutine at a time; control moves only in st_usleep, in st_poll (under *)
(* every blocking read, write and accept) and at the end of a coroutine.   *)
(*                                                                         *)
(* Only st_usleep(0) is used by the server, so every thread in sleepq is   *)
(* due at the next pass of the idle thread.  All of them carry the same    *)
(* due time and leave the timeout heap with the oldest first; the order of *)
(* the others depends on the shape of the heap and is left open.           *)
(***************************************************************************)
EXTENDS Naturals, Sequences, FiniteSets, SequencesExt

CONSTANTS
    Thread,   \* the coroutines the program creates
    Idle      \* vp.idle_thread

ASSUME ThreadAssumption == IsFiniteSet(Thread) /\ Idle \notin Thread

VARIABLES
    running,  \* the current thread
    runq,     \* _ST_RUNQ, first to run at the head
    sleepq,   \* the st_usleep(0) callers, in the order of their calls
    ioq,      \* _ST_IOQ: threads inside st_poll, in the order of their calls
    poll      \* what each thread's last st_poll came back with

sched == <<running, runq, sleepq, ioq, poll>>

\* The sequences that hold every member of S exactly once.
Orderings(S) == {s \in [1..Cardinality(S) -> S] : ToSet(s) = S /\ IsInjective(s)}

\* The members of s keep the order they have in q.
SameOrder(s, q) ==
    \A i, j \in DOMAIN s :
        i < j => \E k, l \in DOMAIN q : k < l /\ q[k] = s[i] /\ q[l] = s[j]

PollResult == {"none", "ready", "timeout"}

QueueType ==
    /\ running \in Thread \cup {Idle}
    /\ runq \in Seq(Thread)
    /\ sleepq \in Seq(Thread)
    /\ ioq \in Seq(Thread)

TypeOKSched == QueueType /\ poll \in [Thread -> PollResult]

\* The threads the scheduler knows of.
Known == ToSet(runq) \cup ToSet(sleepq) \cup ToSet(ioq) \cup ({running} \ {Idle})

\* Each of them is in one place: running, in the run queue, asleep or inside
\* st_poll; the idle thread runs only when nothing is queued.
Apart ==
    /\ IsInjective(runq) /\ IsInjective(sleepq) /\ IsInjective(ioq)
    /\ ToSet(runq) \cap ToSet(sleepq) = {}
    /\ ToSet(runq) \cap ToSet(ioq) = {}
    /\ ToSet(sleepq) \cap ToSet(ioq) = {}
    /\ running \notin ToSet(runq) \cup ToSet(sleepq) \cup ToSet(ioq)
    /\ running = Idle => runq = <<>>

-----------------------------------------------------------------------------
(* Context switches.  Each takes the run queue q as the running code leaves *)
(* it, so that a handler that creates a thread and then blocks is one step. *)

\* _st_vp_schedule: resume the head of the run queue, the idle thread if none.
Schedule(q) ==
    IF q = <<>> THEN running' = Idle /\ runq' = q
                ELSE running' = Head(q) /\ runq' = Tail(q)

\* st_usleep(0) by the running thread.
Usleep(q) ==
    /\ sleepq' = Append(sleepq, running)
    /\ Schedule(q)
    /\ UNCHANGED ioq

\* st_poll by the running thread: its descriptor is not ready.
PollWait(q) ==
    /\ ioq' = Append(ioq, running)
    /\ poll' = [poll EXCEPT ![running] = "none"]
    /\ Schedule(q)
    /\ UNCHANGED sleepq

\* st_thread_exit by the running thread.
ThreadExit(q) ==
    /\ Schedule(q)
    /\ UNCHANGED <<sleepq, ioq, poll>>

\* The running thread goes on without a switch, q being the run queue.
Continue(q) ==
    /\ runq' = q
    /\ UNCHANGED <<running, sleepq, ioq>>

\* Faulty variant: a woken thread stays linked in the I/O queue.
IdlePassKeepsLink(ready, late) ==
    /\ running = Idle
    /\ \E io \in Orderings(ready), sl \in Orderings(ToSet(sleepq)), to \in Orderings(late) :
          /\ io \o sl \o to # <<>>
          /\ Schedule(io \o sl \o to)
    /\ sleepq' = <<>>
    /\ poll' = [t \in Thread |-> IF t \in ready THEN "ready"
                                 ELSE IF t \in late THEN "timeout" ELSE poll[t]]
    /\ UNCHANGED ioq

\* Faulty variant: equal due times leave the timeout heap in any order.
IdlePassAnyOrder(ready, late) ==
    /\ running = Idle
    /\ \E io \in Orderings(ready), sl \in Orderings(ToSet(sleepq)), to \in Orderings(late) :
          /\ io \o sl \o to # <<>>
          /\ Schedule(io \o sl \o to)
    /\ sleepq' = <<>>
    /\ ioq' \in {q \in Orderings(ToSet(ioq) \ (ready \cup late)) : SameOrder(q, ioq)}
    /\ poll' = [t \in Thread |-> IF t \in ready THEN "ready"
                                 ELSE IF t \in late THEN "timeout" ELSE poll[t]]

\* One pass of the idle thread: the descriptors of the threads in ready have
\* events, the timeouts of the threads in late have run out.  dispatch queues
\* the ready ones, then _st_vp_check_clock the sleepers and the late ones.
IdlePass(ready, late) ==
    /\ running = Idle
    /\ \E io \in Orderings(ready), sl \in Orderings(ToSet(sleepq)), to \in Orderings(late) :
          /\ SameOrder(io, ioq)
          /\ sleepq # <<>> => Head(sl) = Head(sleepq)
          /\ io \o sl \o to # <<>>
          /\ Schedule(io \o sl \o to)
    /\ sleepq' = <<>>
    /\ ioq' \in {q \in Orderings(ToSet(ioq) \ (ready \cup late)) : SameOrder(q, ioq)}
    /\ poll' = [t \in Thread |-> IF t \in ready THEN "ready"
                                 ELSE IF t \in late THEN "timeout" ELSE poll[t]]
==============================================================================
