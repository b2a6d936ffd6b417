-------------------------------- MODULE StSync --------------------------------
(***************************************************************************)
(* Sleeping, condition variables, mutexes and interrupts of State Threads  *)
(* (3rdpart/st-1.9/sync.c, sched.c): one condition variable and one mutex  *)
(* shared by threads that may call any of the operations in any order.     *)
(*                                                                         *)
(* A thread made runnable by a signal, a hand-over, a timeout or an        *)
(* interrupt stays linked in the wait queue until it runs again, and other *)
(* threads run in between: that is where the operations can go wrong.      *)
(* Timeouts are taken only by the idle thread, when nothing is runnable.   *)
(***************************************************************************)
EXTENDS Naturals, Sequences, FiniteSets, SequencesExt

CONSTANTS
    Thread,   \* the coroutines
    Idle,     \* vp.idle_thread
    None      \* no owner

ASSUME SyncAssumption ==
    /\ IsFiniteSet(Thread) /\ Thread # {}
    /\ Idle \notin Thread /\ None \notin Thread

VARIABLES
    running,    \* the current thread
    runq,       \* _ST_RUNQ
    state,      \* thread->state
    pc,         \* the call a thread is inside of, "user" outside
    armed,      \* the threads with _ST_FL_ON_SLEEPQ
    timedout,   \* the threads with _ST_FL_TIMEDOUT
    interrupt,  \* the threads with _ST_FL_INTERRUPT
    cond,       \* cvar->wait_q
    lock,       \* lock->wait_q
    owner,      \* lock->owner
    freed,      \* which of "cond" and "lock" are destroyed
    holds,      \* history: threads whose st_mutex_lock succeeded, until they unlock
    signalled   \* history: threads a signal made runnable, until they run

sched == <<running, runq, state>>
flags == <<armed, timedout, interrupt>>
vars == <<sched, pc, flags, cond, lock, owner, freed, holds, signalled>>

State == {"RUNNING", "RUNNABLE", "SLEEPING", "SUSPENDED", "COND_WAIT", "LOCK_WAIT"}

\* Type invariant.
TypeOK ==
    /\ running \in Thread \cup {Idle}
    /\ runq \in Seq(Thread) /\ cond \in Seq(Thread) /\ lock \in Seq(Thread)
    /\ state \in [Thread -> State]
    /\ pc \in [Thread -> {"user", "usleep", "cond", "lock"}]
    /\ armed \subseteq Thread /\ timedout \subseteq Thread /\ interrupt \subseteq Thread
    /\ owner \in Thread \cup {None}
    /\ freed \subseteq {"cond", "lock"}
    /\ holds \subseteq Thread /\ signalled \subseteq Thread

-----------------------------------------------------------------------------
\* _st_vp_schedule with the run queue q and the thread states st.
Schedule(q, st) ==
    IF q = <<>> THEN running' = Idle /\ runq' = q /\ state' = st
    ELSE /\ running' = Head(q)
         /\ runq' = Tail(q)
         /\ state' = [st EXCEPT ![Head(q)] = "RUNNING"]

\* The running thread stops in call with the state s.
Block(call, s) ==
    /\ pc' = [pc EXCEPT ![running] = call]
    /\ Schedule(runq, [state EXCEPT ![running] = s])

\* The threads of s are made runnable while the running thread goes on.
Wake(s) ==
    /\ runq' = runq \o s
    /\ state' = [t \in Thread |-> IF t \in ToSet(s) THEN "RUNNABLE" ELSE state[t]]
    /\ armed' = armed \ ToSet(s)
    /\ UNCHANGED running

\* The sequences of distinct threads.
Lines == UNION {{s \in [1..n -> Thread] : IsInjective(s)} : n \in 0..Cardinality(Thread)}

\* Thread t comes before u in the queue q.
Before(q, t, u) == \E i, j \in DOMAIN q : i < j /\ q[i] = t /\ q[j] = u

\* The threads of a wait queue that still wait.
Waiters(q, s) == {t \in ToSet(q) : state[t] = s}

\* The one of them that comes first, if there is one.
First(q, S) == {t \in S : \A u \in S \ {t} : Before(q, t, u)}

\* s is the set S in the order of q.
InOrder(s, S, q) == ToSet(s) = S /\ \A i, j \in DOMAIN s : i < j => Before(q, s[i], s[j])

\* ST_REMOVE_LINK: q without its thread t.
Unlinked(q, t) == {RemoveAt(q, i) : i \in {j \in DOMAIN q : q[j] = t}}

\* The running thread executes user code and calls the library.
InUser == running # Idle /\ pc[running] = "user"

-----------------------------------------------------------------------------
Init ==
    \E q \in {s \in Lines : ToSet(s) = Thread} :
        /\ running = Head(q) /\ runq = Tail(q)
        /\ state = [t \in Thread |-> IF t = running THEN "RUNNING" ELSE "RUNNABLE"]
        /\ pc = [t \in Thread |-> "user"]
        /\ armed = {} /\ timedout = {} /\ interrupt = {}
        /\ cond = <<>> /\ lock = <<>> /\ owner = None /\ freed = {}
        /\ holds = {} /\ signalled = {}

\* st_usleep, st_cond_timedwait or st_mutex_lock by a thread with the
\* interrupt flag: the call fails at once and clears it.
CallInterrupted ==
    /\ InUser
    /\ running \in interrupt
    /\ interrupt' = interrupt \ {running}
    /\ UNCHANGED <<sched, pc, armed, timedout, cond, lock, owner, freed, holds, signalled>>

\* st_usleep, with a timeout or ST_UTIME_NO_TIMEOUT.
Usleep(forever) ==
    /\ InUser
    /\ running \notin interrupt
    /\ Block("usleep", IF forever THEN "SUSPENDED" ELSE "SLEEPING")
    /\ armed' = IF forever THEN armed ELSE armed \cup {running}
    /\ UNCHANGED <<timedout, interrupt, cond, lock, owner, freed, holds, signalled>>

\* st_cond_timedwait, up to the context switch.
CondWait(forever) ==
    /\ InUser
    /\ "cond" \notin freed
    /\ running \notin interrupt
    /\ cond' = Append(cond, running)
    /\ Block("cond", "COND_WAIT")
    /\ armed' = IF forever THEN armed ELSE armed \cup {running}
    /\ UNCHANGED <<timedout, interrupt, lock, owner, freed, holds, signalled>>

\* Faulty variant: the first thread of the queue is woken whatever its state.
CondSignalFirst(broadcast) ==
    \E to \in Lines :
        /\ InUser
        /\ "cond" \notin freed
        /\ InOrder(to, IF broadcast THEN ToSet(cond) ELSE First(cond, ToSet(cond)), cond)
        /\ Wake(to)
        /\ signalled' = signalled \cup ToSet(to)
        /\ UNCHANGED <<pc, timedout, interrupt, cond, lock, owner, freed, holds>>

\* st_cond_signal and st_cond_broadcast.
CondSignal(broadcast) ==
    LET waiters == Waiters(cond, "COND_WAIT")
    IN  \E to \in Lines :
        /\ InUser
        /\ "cond" \notin freed
        /\ InOrder(to, IF broadcast THEN waiters ELSE First(cond, waiters), cond)
        /\ Wake(to)
        /\ signalled' = signalled \cup ToSet(to)
        /\ UNCHANGED <<pc, timedout, interrupt, cond, lock, owner, freed, holds>>

\* st_cond_destroy; EBUSY with a thread on the wait queue.
CondDestroy ==
    /\ InUser
    /\ "cond" \notin freed
    /\ cond = <<>>
    /\ freed' = freed \cup {"cond"}
    /\ UNCHANGED <<sched, pc, flags, cond, lock, owner, holds, signalled>>

\* st_mutex_lock, and st_mutex_trylock, of a free mutex; trylock does not look
\* at the interrupt flag.
LockFree(try) ==
    /\ InUser
    /\ "lock" \notin freed
    /\ try \/ running \notin interrupt
    /\ owner = None
    /\ owner' = running
    /\ holds' = holds \cup {running}
    /\ UNCHANGED <<sched, pc, flags, cond, lock, freed, signalled>>

\* st_mutex_lock of a mutex another thread owns, up to the context switch.
LockWait ==
    /\ InUser
    /\ "lock" \notin freed
    /\ running \notin interrupt
    /\ owner \notin {None, running}
    /\ lock' = Append(lock, running)
    /\ Block("lock", "LOCK_WAIT")
    /\ UNCHANGED <<flags, cond, owner, freed, holds, signalled>>

\* Faulty variant: the mutex is set free and the first waiter woken to try.
MutexUnlockFree ==
    \E to \in Lines :
        /\ InUser
        /\ "lock" \notin freed
        /\ owner = running
        /\ InOrder(to, First(lock, Waiters(lock, "LOCK_WAIT")), lock)
        /\ Wake(to)
        /\ owner' = None
        /\ holds' = holds \ {running}
        /\ UNCHANGED <<pc, timedout, interrupt, cond, lock, freed, signalled>>

\* Faulty variant: only the first thread of the queue is looked at.
MutexUnlockFirstOnly ==
    \E to \in Lines :
        /\ InUser
        /\ "lock" \notin freed
        /\ owner = running
        /\ InOrder(to, First(lock, ToSet(lock)) \cap Waiters(lock, "LOCK_WAIT"), lock)
        /\ Wake(to)
        /\ owner' = IF to = <<>> THEN None ELSE Head(to)
        /\ holds' = holds \ {running}
        /\ UNCHANGED <<pc, timedout, interrupt, cond, lock, freed, signalled>>

\* st_mutex_unlock by the owner: the mutex goes to the first thread that waits.
MutexUnlock ==
    \E to \in Lines :
        /\ InUser
        /\ "lock" \notin freed
        /\ owner = running
        /\ InOrder(to, First(lock, Waiters(lock, "LOCK_WAIT")), lock)
        /\ Wake(to)
        /\ owner' = IF to = <<>> THEN None ELSE Head(to)
        /\ holds' = holds \ {running}
        /\ UNCHANGED <<pc, timedout, interrupt, cond, lock, freed, signalled>>

\* st_mutex_destroy; EBUSY with an owner or a thread on the wait queue.
MutexDestroy ==
    /\ InUser
    /\ "lock" \notin freed
    /\ owner = None /\ lock = <<>>
    /\ freed' = freed \cup {"lock"}
    /\ UNCHANGED <<sched, pc, flags, cond, lock, owner, holds, signalled>>

\* st_thread_interrupt(t).
Interrupt(t) ==
    /\ InUser
    /\ interrupt' = interrupt \cup {t}
    /\ IF state[t] \in {"RUNNING", "RUNNABLE"}
       THEN UNCHANGED <<sched, armed>>
       ELSE Wake(<<t>>)
    /\ UNCHANGED <<pc, timedout, cond, lock, owner, freed, holds, signalled>>

\* The rest of st_usleep after the context switch.
UsleepReturn ==
    /\ running # Idle
    /\ pc[running] = "usleep"
    /\ pc' = [pc EXCEPT ![running] = "user"]
    /\ interrupt' = interrupt \ {running}
    /\ UNCHANGED <<sched, armed, timedout, cond, lock, owner, freed, holds, signalled>>

\* The rest of st_cond_timedwait.
CondReturn ==
    /\ running # Idle
    /\ pc[running] = "cond"
    /\ pc' = [pc EXCEPT ![running] = "user"]
    /\ cond' \in Unlinked(cond, running)
    /\ timedout' = timedout \ {running}
    /\ interrupt' = interrupt \ {running}
    /\ signalled' = signalled \ {running}
    /\ UNCHANGED <<sched, armed, lock, owner, freed, holds>>

\* The rest of st_mutex_lock: the interrupt counts only if the mutex has not
\* been handed to the thread meanwhile; otherwise its flag stays.
LockReturn ==
    /\ running # Idle
    /\ pc[running] = "lock"
    /\ pc' = [pc EXCEPT ![running] = "user"]
    /\ lock' \in Unlinked(lock, running)
    /\ IF running \in interrupt /\ owner # running
       THEN interrupt' = interrupt \ {running} /\ UNCHANGED holds
       ELSE holds' = holds \cup {running} /\ UNCHANGED interrupt
    /\ UNCHANGED <<sched, armed, timedout, cond, owner, freed, signalled>>

\* _st_vp_check_clock from the idle thread: the threads of late have run out of
\* time (TimeoutHeap has their order), then the idle thread yields.
CheckClock(late) ==
    /\ running = Idle
    /\ late # <<>>
    /\ ToSet(late) \subseteq armed
    /\ armed' = armed \ ToSet(late)
    /\ timedout' = timedout \cup {t \in ToSet(late) : state[t] = "COND_WAIT"}
    /\ Schedule(late, [t \in Thread |-> IF t \in ToSet(late) THEN "RUNNABLE" ELSE state[t]])
    /\ UNCHANGED <<pc, interrupt, cond, lock, owner, freed, holds, signalled>>

Call ==
    \/ CallInterrupted
    \/ \E b \in BOOLEAN : Usleep(b) \/ CondWait(b) \/ CondSignal(b) \/ LockFree(b)
    \/ LockWait \/ MutexUnlock
    \/ CondDestroy \/ MutexDestroy
    \/ \E t \in Thread : Interrupt(t)

Return == UsleepReturn \/ CondReturn \/ LockReturn

Next == Call \/ Return \/ \E late \in Lines : CheckClock(late)

\* The code's own steps happen, the clock goes on, and the program lets go: a
\* thread that can sleep again and again does sleep, and an owner that runs
\* again and again unlocks.
Fairness ==
    /\ WF_vars(Return)
    /\ WF_vars(\E late \in Lines : CheckClock(late))
    /\ SF_vars(CallInterrupted)
    /\ SF_vars(Usleep(FALSE))
    /\ \A t \in Thread : SF_vars(running = t /\ MutexUnlock)

Spec == Init /\ [][Next]_vars

FairSpec == Spec /\ Fairness

-----------------------------------------------------------------------------
\* A thread is in one place: it runs, or it is in the run queue once, or it
\* waits; a timeout, a signal and an interrupt that meet queue it only once.
InOnePlace ==
    /\ IsInjective(runq)
    /\ \A t \in Thread :
        /\ state[t] = "RUNNING" <=> running = t
        /\ state[t] = "RUNNABLE" <=> t \in ToSet(runq)
        /\ t \in armed => state[t] \in {"SLEEPING", "COND_WAIT"}

\* The mutex is never owned by a thread that does not know it: the owner has
\* been told, or is about to be told when it runs; nobody else thinks it owns.
OwnerKnows ==
    /\ holds \subseteq {owner}
    /\ owner \in Thread \ holds =>
         pc[owner] = "lock" /\ state[owner] \in {"RUNNING", "RUNNABLE"}

\* A signal is never spent on a thread that will report a timeout: the thread
\* it woke returns 0, or EINTR if it is interrupted as well.
SignalNotSpent == signalled \cap timedout = {}

\* A wait queue that is freed has no thread on it, not even one that has left
\* the wait and will unlink itself when it runs.
NoDanglingLink ==
    /\ "cond" \in freed => \A t \in Thread : pc[t] # "cond"
    /\ "lock" \in freed => \A t \in Thread : pc[t] # "lock"

\* The threads that wait for the mutex are those of its queue that nothing woke,
\* in the order of the queue.
Queued == Waiters(lock, "LOCK_WAIT")
QueuedBefore == {e \in Queued \X Queued : Before(lock, e[1], e[2])}

F == INSTANCE FifoLock WITH waiting <- Queued, before <- QueuedBefore

\* The hand-over mutex with interrupted threads still on its queue implements
\* the first-come-first-served lock: no barging between unlock and the new
\* owner's turn, no overtaking, no free lock with threads waiting.
ImplementsFifoLock == F!Spec

\* A thread that waits for the mutex gets it, unless it is interrupted, in a
\* program whose owners do not wait for good with the mutex: the hand-over
\* never stops at a thread that was woken for another reason.
LockGranted ==
    (\A u \in Thread : []<>(owner = u => state[u] \in {"RUNNING", "RUNNABLE"}))
        => \A t \in Thread : (state[t] = "LOCK_WAIT") ~> (t \in holds \/ t \in interrupt)

\* Every thread is in one place, who owns the mutex knows it, no signal is spent
\* on a thread that a timeout or an interrupt has woken already, and no destroyed
\* condition variable is linked to.
SyncInv == TypeOK /\ InOnePlace /\ OwnerKnows /\ SignalNotSpent /\ NoDanglingLink
===============================================================================
