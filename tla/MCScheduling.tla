----------------------------- MODULE MCScheduling -----------------------------
(* How the library's threads wait for each other, for TLC: a behaviour is    *)
(* one of a mutex and a condition variable (StSync), of threads that are     *)
(* created, terminate and are joined once (ThreadLife), and of threads that  *)
(* wait for descriptors (StSelect).  The parts share no state.               *)
EXTENDS StSync

CONSTANTS
    Worker, Primordial, Stack, Size,
    Poller, Fd, FdSetSize

VARIABLES
    part,  \* "sync", "life" or "select"
    l_running, l_runq, l_state, l_interrupt,
    active, term, waitq, target, stack, stk_size, free, need, exited, joined, halted,
    s_running, s_runq, s_pc, s_armed, s_interrupt,
    ioq, pds, revents, open, ready, cnt, fdset, maxfd, raw

lvars == <<l_running, l_runq, l_state, l_interrupt, active, term, waitq, target, stack,
           stk_size, free, need, exited, joined, halted>>
svars == <<s_running, s_runq, s_pc, s_armed, s_interrupt,
           ioq, pds, revents, open, ready, cnt, fdset, maxfd, raw>>

Pd(f, e) == [fd |-> f, events |-> e]

\* A wait for the clock only, a read, and a wait on two descriptors.
Request == {<<>>, <<Pd(1, {"in"})>>, <<Pd(1, {"in"}), Pd(2, {"out"})>>}

L == INSTANCE ThreadLife WITH
        Thread <- Worker, running <- l_running, runq <- l_runq, state <- l_state,
        interrupt <- l_interrupt
S == INSTANCE StSelect WITH
        Thread <- Poller, running <- s_running, runq <- s_runq, pc <- s_pc,
        armed <- s_armed, interrupt <- s_interrupt

ASSUME L!LifeAssumption

\* A part that does not run starts in one of its initial states.
Parts ==
    /\ part \in {"sync", "life", "select"}
    /\ Init /\ (part = "sync" \/ <<running>> \o runq = CHOOSE q \in Lines : ToSet(q) = Thread)
    /\ L!Init
    /\ S!Init /\ (part = "select" \/ s_running = CHOOSE r \in Poller : TRUE)

Syncs == part = "sync" /\ Next /\ UNCHANGED <<part, lvars, svars>>
Lives == part = "life" /\ L!NextOnce /\ UNCHANGED <<part, vars, svars>>
Selects == part = "select" /\ S!Next /\ UNCHANGED <<part, vars, lvars>>

\* The fairness of StSync, of ThreadLife and of StSelect.
Fair ==
    /\ WF_vars(part = "sync" /\ Return)
    /\ WF_vars(part = "sync" /\ \E late \in Lines : CheckClock(late))
    /\ SF_vars(part = "sync" /\ CallInterrupted)
    /\ SF_vars(part = "sync" /\ Usleep(FALSE))
    /\ \A t \in Thread : SF_vars(part = "sync" /\ running = t /\ MutexUnlock)
    /\ WF_lvars(part = "life" /\ l_running \in exited /\ L!ExitFinish)
    /\ WF_lvars(part = "life" /\ L!JoinReturn)
    /\ WF_lvars(part = "life" /\ L!IdleStart)
    /\ SF_lvars(part = "life" /\ L!Usleep)
    /\ SF_svars(part = "select" /\ S!LooksAtEvents)
    /\ WF_svars(part = "select" /\ S!Return)
    /\ SF_svars(part = "select" /\ S!PollsAgain)
    /\ SF_svars(part = "select" /\ S!ToldInterrupted)

Scheduling ==
    /\ Parts
    /\ [][Syncs \/ Lives \/ Selects]_<<part, vars, lvars, svars>>
    /\ Fair

-----------------------------------------------------------------------------
\* StSync: a thread that waits for the mutex gets it or is interrupted.
Granted == part = "sync" => LockGranted

\* ThreadLife: joined once, every thread that terminates is joined, and its
\* stack comes back.
JoinReturns == part = "life" => L!JoinReturns

\* StSelect: a thread whose descriptor stays ready returns from st_poll.
ReadyServed == part = "select" => S!ReadyServed
===============================================================================
