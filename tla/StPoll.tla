-------------------------------- MODULE StPoll --------------------------------
(***************************************************************************)
(* st_poll of State Threads (3rdpart/st-1.9/sched.c) and the part of the   *)
(* idle loop that all event systems share.  Every blocking read, write and *)
(* accept of the server waits here.  StSelect, StPollSys and StEpoll add   *)
(* an event system: what st_poll registers, what it takes back, and what a *)
(* pass of the idle thread reports.                                        *)
(*                                                                         *)
(* A thread that times out or is interrupted leaves its request on the I/O *)
(* queue until it runs again.                                              *)
(***************************************************************************)
EXTENDS Integers, Sequences, FiniteSets, SequencesExt

CONSTANTS
    Thread,    \* the coroutines
    Idle,      \* vp.idle_thread
    Fd,        \* OS descriptors, numbers
    Request    \* the pollfd arrays st_poll is called with:
               \* sequences of [fd : Fd, events : SUBSET Event]

Event == {"in", "out"}

ASSUME PollAssumption ==
    /\ IsFiniteSet(Thread) /\ Thread # {} /\ Idle \notin Thread
    /\ Fd \subseteq Nat /\ IsFiniteSet(Fd)
    /\ \A r \in Request : r \in Seq([fd : Fd, events : SUBSET Event])

VARIABLES
    running,    \* the current thread
    runq,       \* _ST_RUNQ
    pc,         \* "poll" inside st_poll, "user" outside
    ioq,        \* _ST_IOQ, as the threads the requests belong to
    pds,        \* the pollfd array of each thread
    revents,    \* the events reported to a thread: pairs of descriptor and event
    armed,      \* the threads with _ST_FL_ON_SLEEPQ
    interrupt,  \* the threads with _ST_FL_INTERRUPT
    open,       \* external: the descriptors that are open
    ready       \* external: the descriptors and events that would not block

sched == <<running, runq>>
os == <<open, ready>>
base == <<sched, pc, ioq, pds, revents, armed, interrupt, os>>

Pair == Fd \X Event

BaseTypeOK ==
    /\ running \in Thread \cup {Idle}
    /\ runq \in Seq(Thread) /\ ioq \in Seq(Thread)
    /\ pc \in [Thread -> {"user", "poll"}]
    /\ pds \in [Thread -> Request \cup {<<>>}]
    /\ revents \in [Thread -> SUBSET (Fd \X (Event \cup {"nval", "err"}))]
    /\ armed \subseteq Thread /\ interrupt \subseteq Thread
    /\ open \subseteq Fd /\ ready \subseteq Pair

\* What a request asks for.
Asked(r) == UNION {{r[i].fd} \X r[i].events : i \in DOMAIN r}

FdsOf(r) == {r[i].fd : i \in DOMAIN r}

\* The entries of a request that ask for p, a pair of descriptor and event.
EntriesFor(r, p) == {i \in DOMAIN r : r[i].fd = p[1] /\ p[2] \in r[i].events}

\* How many entries of the requests of the threads in S ask for p.
NumOf(S, p) == Cardinality(UNION {{t} \X EntriesFor(pds[t], p) : t \in S})

\* How many entries of one request ask for p.
NumIn(r, p) == Cardinality(EntriesFor(r, p))

\* The threads that wait inside st_poll.
Waiting == {t \in Thread : pc[t] = "poll" /\ t # running /\ ~Contains(runq, t)}

InUser == running # Idle /\ pc[running] = "user"

Schedule(q) ==
    IF q = <<>> THEN running' = Idle /\ runq' = q
                ELSE running' = Head(q) /\ runq' = Tail(q)

\* The members of q that are in S, in the order of q.
Among(q, S) ==
    LET at == {i \in DOMAIN q : q[i] \in S}
    IN  [k \in 1..Cardinality(at) |->
            q[CHOOSE i \in at : Cardinality({j \in at : j <= i}) = k]]

Unlink(q, S) == Among(q, ToSet(q) \ S)

BaseInit ==
    \E q \in {s \in [1..Cardinality(Thread) -> Thread] : ToSet(s) = Thread} :
        /\ running = Head(q) /\ runq = Tail(q)
        /\ pc = [t \in Thread |-> "user"]
        /\ ioq = <<>> /\ armed = {} /\ interrupt = {}
        /\ pds = [t \in Thread |-> <<>>]
        /\ revents = [t \in Thread |-> {}]
        /\ open = Fd /\ ready = {}

-----------------------------------------------------------------------------
\* st_poll by a thread with the interrupt flag.
PollInterrupted ==
    /\ InUser
    /\ running \in interrupt
    /\ interrupt' = interrupt \ {running}
    /\ UNCHANGED <<sched, pc, ioq, pds, revents, armed, os>>

\* st_poll from the link into _ST_IOQ to the context switch.
Enqueue(r, timed) ==
    /\ InUser
    /\ running \notin interrupt
    /\ pds' = [pds EXCEPT ![running] = r]
    /\ revents' = [revents EXCEPT ![running] = {}]
    /\ ioq' = Append(ioq, running)
    /\ armed' = IF timed THEN armed \cup {running} ELSE armed
    /\ pc' = [pc EXCEPT ![running] = "poll"]
    /\ Schedule(runq)
    /\ UNCHANGED <<interrupt, os>>

\* st_poll after the context switch; the caller takes the request back from
\* the event system if it is still on the I/O queue.  The array dies with the
\* call.
PollReturn ==
    /\ running # Idle
    /\ pc[running] = "poll"
    /\ pc' = [pc EXCEPT ![running] = "user"]
    /\ ioq' = Unlink(ioq, {running})
    /\ pds' = [pds EXCEPT ![running] = <<>>]
    /\ revents' = [revents EXCEPT ![running] = {}]
    /\ interrupt' = interrupt \ {running}
    /\ UNCHANGED <<sched, armed, os>>

\* st_thread_interrupt(t).
Interrupt(t) ==
    /\ InUser
    /\ t \notin interrupt
    /\ interrupt' = interrupt \cup {t}
    /\ runq' = IF t \in Waiting THEN Append(runq, t) ELSE runq
    /\ armed' = IF t \in Waiting THEN armed \ {t} ELSE armed
    /\ UNCHANGED <<running, pc, ioq, pds, revents, os>>

\* One turn of _st_idle_thread_start: the event system reports rev to the
\* threads of hit, in the order of the I/O queue; then the threads of late
\* have run out of time and _st_vp_check_clock queues them.
Turn(hit, rev, late) ==
    LET io == Among(ioq, hit) IN
    /\ running = Idle
    /\ ToSet(late) \subseteq armed /\ ToSet(late) \cap hit = {}
    /\ io \o late # <<>>
    /\ Schedule(io \o late)
    /\ ioq' = Unlink(ioq, hit)
    /\ revents' = [t \in Thread |-> IF t \in hit THEN rev[t] ELSE revents[t]]
    /\ armed' = armed \ (hit \cup ToSet(late))
    /\ UNCHANGED <<pc, pds, interrupt, os>>

\* The orders in which some threads can run out of time.
Lines == {<<>>} \cup UNION {{s \in [1..n -> Thread] : IsInjective(s)} :
                             n \in 1..Cardinality(Thread)}

-----------------------------------------------------------------------------
(* External: the descriptors.                                               *)

\* A peer sends or reads, or what was there is consumed.  What no request asks for
\* is of no account.
Environment ==
    /\ \E p \in open \X Event :
          /\ \E r \in Request : p \in Asked(r)
          /\ ready' = (ready \ {p}) \cup ({p} \ ready)
    /\ UNCHANGED <<sched, pc, ioq, pds, revents, armed, interrupt, open>>

\* close by the running thread; what is closed is ready no more.
CloseFd(fd) ==
    /\ InUser
    /\ fd \in open
    /\ open' = open \ {fd}
    /\ ready' = {p \in ready : p[1] # fd}
    /\ UNCHANGED <<sched, pc, ioq, pds, revents, armed, interrupt>>

-----------------------------------------------------------------------------
\* A thread is in one place, however an event, a timeout and an interrupt
\* meet; when the idle thread looks at the I/O queue nobody on it can run.
InOnePlace ==
    /\ IsInjective(runq) /\ IsInjective(ioq)
    /\ ~Contains(runq, running)
    /\ running = Idle => runq = <<>>
    /\ armed \subseteq Waiting
    /\ Waiting \subseteq ToSet(ioq)
===============================================================================
