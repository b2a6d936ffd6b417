------------------------------- MODULE ThreadLife -------------------------------
(***************************************************************************)
(* The life of a State Threads coroutine (3rdpart/st-1.9/sched.c, stk.c):  *)
(* creation on a new or a recycled stack, termination, join, and the end   *)
(* of the process.  The thread object lives at the top of its stack, so a  *)
(* stack must not be handed out while anybody can still look at its thread.*)
(***************************************************************************)
EXTENDS Naturals, Sequences, FiniteSets, SequencesExt

CONSTANTS
    Thread,     \* the coroutines the program ever creates
    Primordial, \* the one main() runs in, on the stack of the process
    Idle,       \* vp.idle_thread
    Stack,      \* bound: the stack segments there is memory for
    Size,       \* the stack sizes threads are created with
    None

LifeAssumption ==
    /\ IsFiniteSet(Thread) /\ Primordial \in Thread /\ Idle \notin Thread
    /\ None \notin Thread \cup Stack
    /\ Size \subseteq Nat \ {0}

VARIABLES
    running,    \* the current thread
    runq,       \* _ST_RUNQ
    state,      \* thread->state; "none" before creation, "gone" after the last switch
    active,     \* _st_active_count
    term,       \* the threads whose term is not NULL
    waitq,      \* thread->term->wait_q
    target,     \* the thread a thread is joining, inside st_thread_join
    interrupt,  \* the threads with _ST_FL_INTERRUPT
    stack,      \* thread->stack
    stk_size,   \* the size of a stack segment, 0 for one not allocated yet
    free,       \* _st_free_stacks
    need,       \* history: the stack size a thread was created with
    exited,     \* history: the threads that called st_thread_exit
    joined,     \* history: pairs of a thread and one whose join on it succeeded
    halted      \* the idle thread has called exit(0)

vars == <<running, runq, state, active, term, waitq, target, interrupt, stack,
          stk_size, free, need, exited, joined, halted>>

State == {"none", "RUNNABLE", "RUNNING", "SLEEPING", "COND_WAIT", "ZOMBIE", "gone"}

\* Type invariant.
TypeOK ==
    /\ running \in Thread \cup {Idle}
    /\ runq \in Seq(Thread)
    /\ state \in [Thread -> State]
    /\ active \in 0..Cardinality(Thread)
    /\ term \subseteq Thread /\ interrupt \subseteq Thread /\ exited \subseteq Thread
    /\ waitq \in [Thread -> Seq(Thread)]
    /\ target \in [Thread -> Thread \cup {None}]
    /\ stack \in [Thread -> Stack \cup {None}]
    /\ stk_size \in [Stack -> Size \cup {0}]
    /\ free \in Seq(Stack)
    /\ need \in [Thread -> Size \cup {0}]
    /\ joined \subseteq Thread \X Thread
    /\ halted \in BOOLEAN

\* _st_vp_schedule with the run queue q and the thread states st.
Schedule(q, st) ==
    IF q = <<>> THEN running' = Idle /\ runq' = q /\ state' = st
    ELSE /\ running' = Head(q)
         /\ runq' = Tail(q)
         /\ state' = [st EXCEPT ![Head(q)] = "RUNNING"]

\* The sequences of distinct threads.
Lines == UNION {{s \in [1..n -> Thread] : IsInjective(s)} : n \in 0..Cardinality(Thread)}

\* The running thread executes user code.
InUser == running # Idle /\ target[running] = None /\ running \notin exited

Init ==
    /\ running = Primordial
    /\ runq = <<>>
    /\ state = [t \in Thread |-> IF t = Primordial THEN "RUNNING" ELSE "none"]
    /\ active = 1
    /\ term = {} /\ interrupt = {} /\ exited = {} /\ joined = {}
    /\ waitq = [t \in Thread |-> <<>>]
    /\ target = [t \in Thread |-> None]
    /\ stack = [t \in Thread |-> None]
    /\ stk_size = [s \in Stack |-> 0]
    /\ free = <<>>
    /\ need = [t \in Thread |-> 0]
    /\ halted = FALSE

-----------------------------------------------------------------------------
\* The free stacks that are large enough; _st_stack_new takes the first one.
Fit(size) == {i \in DOMAIN free : stk_size[free[i]] >= size}
FirstFit(size) == {i \in Fit(size) : \A k \in Fit(size) : i <= k}

\* Or else it allocates a segment while there is memory.
NewSegment(s, size) ==
    /\ Fit(size) = {} /\ stk_size[s] = 0
    /\ stk_size' = [stk_size EXCEPT ![s] = size]

\* _st_stack_new for the thread t.
StackNew(t, size) ==
    \/ \E i \in FirstFit(size) :
        /\ stack' = [stack EXCEPT ![t] = free[i]]
        /\ free' = RemoveAt(free, i)
        /\ UNCHANGED stk_size
    \/ \E s \in Stack :
        /\ NewSegment(s, size)
        /\ stack' = [stack EXCEPT ![t] = s]
        /\ UNCHANGED free

\* ST_APPEND_LINK puts the stack before the last one of the list.
PutBack(q, s) ==
    IF q = <<>> THEN <<s>> ELSE Append(Append(Front(q), s), Last(q))

\* _st_stack_free.
StackFree(s) == IF s = None THEN free ELSE PutBack(free, s)

\* st_thread_create.
ThreadCreate(t, joinable, size) ==
    /\ InUser
    /\ state[t] = "none"
    /\ StackNew(t, size)
    /\ need' = [need EXCEPT ![t] = size]
    /\ term' = IF joinable THEN term \cup {t} ELSE term
    /\ state' = [state EXCEPT ![t] = "RUNNABLE"]
    /\ active' = active + 1
    /\ runq' = Append(runq, t)
    /\ UNCHANGED <<running, waitq, target, interrupt, exited, joined, halted>>

\* st_thread_create when st_cond_new has no memory for a joinable thread's term:
\* the stack goes to the free list and no thread is left.
ThreadCreateFails(size) ==
    /\ InUser
    /\ \/ \E i \in FirstFit(size) :
            free' = PutBack(RemoveAt(free, i), free[i]) /\ UNCHANGED stk_size
       \/ \E s \in Stack :
            NewSegment(s, size) /\ free' = PutBack(free, s)
    /\ UNCHANGED <<running, runq, state, active, term, waitq, target, interrupt, stack,
                   need, exited, joined, halted>>

\* st_usleep(0), to let the others run.
Usleep ==
    /\ InUser
    /\ Schedule(runq, [state EXCEPT ![running] = "SLEEPING"])
    /\ UNCHANGED <<active, term, waitq, target, interrupt, stack, stk_size, free,
                   need, exited, joined, halted>>

\* st_cond_signal for t's term: the first thread of its queue that still waits.
Signalled(t) ==
    LET w == {i \in DOMAIN waitq[t] : state[waitq[t][i]] = "COND_WAIT"}
    IN  IF w = {} THEN {<<>>} ELSE {<<waitq[t][i]>> : i \in {m \in w : \A k \in w : m <= k}}

\* Faulty variant: the joiner is not told.
ExitZombieSilent ==
    /\ InUser
    /\ running \in term
    /\ exited' = exited \cup {running}
    /\ active' = active - 1
    /\ Schedule(runq, [state EXCEPT ![running] = "ZOMBIE"])
    /\ UNCHANGED <<term, waitq, target, interrupt, stack, stk_size, free, need,
                   joined, halted>>

\* Faulty variant: the stack is given back before the thread is joined.
ExitZombieFreed ==
    /\ InUser
    /\ running \in term
    /\ exited' = exited \cup {running}
    /\ active' = active - 1
    /\ free' = StackFree(stack[running])
    /\ \E woken \in Signalled(running) :
        Schedule(runq \o woken,
                 [j \in Thread |-> IF j = running THEN "ZOMBIE"
                                   ELSE IF j \in ToSet(woken) THEN "RUNNABLE" ELSE state[j]])
    /\ UNCHANGED <<term, waitq, target, interrupt, stack, stk_size, need, joined, halted>>

\* st_thread_exit of a joinable thread: a zombie, its joiner is signalled.
ExitZombie ==
    /\ InUser
    /\ running \in term
    /\ exited' = exited \cup {running}
    /\ active' = active - 1
    /\ \E woken \in Signalled(running) :
        Schedule(runq \o woken,
                 [j \in Thread |-> IF j = running THEN "ZOMBIE"
                                   ELSE IF j \in ToSet(woken) THEN "RUNNABLE" ELSE state[j]])
    /\ UNCHANGED <<term, waitq, target, interrupt, stack, stk_size, free, need,
                   joined, halted>>

\* The end of st_thread_exit, from the start for a thread that is not joinable
\* and after the join for one that is: the stack is given back and control
\* leaves for good.
ExitFinish ==
    /\ running # Idle
    /\ \/ InUser /\ running \notin term /\ active' = active - 1
       \/ running \in exited /\ UNCHANGED active
    /\ exited' = exited \cup {running}
    /\ term' = term \ {running}
    /\ free' = StackFree(stack[running])
    /\ stack' = [stack EXCEPT ![running] = None]
    /\ Schedule(runq, [state EXCEPT ![running] = "gone"])
    /\ UNCHANGED <<waitq, target, interrupt, stk_size, need, joined, halted>>

\* st_thread_join(t) past its checks, by the running thread, up to the wait;
\* EINVAL for a thread without term or with a thread on its wait queue,
\* EDEADLK for the caller itself, EINTR for an interrupted caller.
JoinWait(t) ==
    /\ InUser
    /\ t \in term \ {running}
    /\ waitq[t] = <<>>
    /\ state[t] # "ZOMBIE"
    /\ running \notin interrupt
    /\ waitq' = [waitq EXCEPT ![t] = <<running>>]
    /\ target' = [target EXCEPT ![running] = t]
    /\ Schedule(runq, [state EXCEPT ![running] = "COND_WAIT"])
    /\ UNCHANGED <<active, term, interrupt, stack, stk_size, free, need, exited,
                   joined, halted>>

\* The zombie t is taken off the zombie queue and finishes in its turn.
Take(t) ==
    /\ joined' = joined \cup {<<t, running>>}
    /\ state' = [state EXCEPT ![t] = "RUNNABLE"]
    /\ runq' = Append(runq, t)

\* st_thread_join(t) of a thread that has terminated already.
JoinZombie(t) ==
    /\ InUser
    /\ t \in term \ {running}
    /\ waitq[t] = <<>>
    /\ state[t] = "ZOMBIE"
    /\ Take(t)
    /\ UNCHANGED <<running, active, term, waitq, target, interrupt, stack, stk_size,
                   free, need, exited, halted>>

\* The running thread leaves the wait for t.
Unlink(t) ==
    /\ \E i \in DOMAIN waitq[t] :
        /\ waitq[t][i] = running
        /\ waitq' = [waitq EXCEPT ![t] = RemoveAt(@, i)]
    /\ target' = [target EXCEPT ![running] = None]

\* st_thread_join after the wait: EINTR, or the zombie is taken.  The loop goes
\* on waiting if the target is no zombie.
JoinReturn ==
    LET t == target[running] IN
    /\ running # Idle
    /\ t # None
    /\ interrupt' = interrupt \ {running}
    /\ IF running \in interrupt
       THEN /\ Unlink(t)
            /\ UNCHANGED <<running, runq, state, joined>>
       ELSE IF state[t] = "ZOMBIE"
       THEN /\ Unlink(t)
            /\ Take(t)
            /\ UNCHANGED running
       ELSE /\ Schedule(runq, [state EXCEPT ![running] = "COND_WAIT"])
            /\ UNCHANGED <<waitq, target, joined>>
    /\ UNCHANGED <<active, term, stack, stk_size, free, need, exited, halted>>

\* st_thread_interrupt of a thread that joins another.
Interrupt(t) ==
    /\ InUser
    /\ state[t] \in {"COND_WAIT", "RUNNABLE"} /\ target[t] # None
    /\ interrupt' = interrupt \cup {t}
    /\ IF state[t] = "COND_WAIT"
       THEN /\ state' = [state EXCEPT ![t] = "RUNNABLE"]
            /\ runq' = Append(runq, t)
       ELSE UNCHANGED <<state, runq>>
    /\ UNCHANGED <<running, active, term, waitq, target, stack, stk_size, free, need,
                   exited, joined, halted>>

\* _st_idle_thread_start: the sleepers wake, or the process ends with the last
\* active thread.
IdleStart ==
    /\ running = Idle
    /\ ~halted
    /\ \/ /\ active > 0
          /\ \E s \in {q \in Lines : ToSet(q) = {t \in Thread : state[t] = "SLEEPING"}} :
               Schedule(s, [t \in Thread |-> IF t \in ToSet(s) THEN "RUNNABLE" ELSE state[t]])
          /\ UNCHANGED halted
       \/ /\ active = 0
          /\ halted' = TRUE
          /\ UNCHANGED <<running, runq, state>>
    /\ UNCHANGED <<active, term, waitq, target, interrupt, stack, stk_size, free, need,
                   exited, joined>>

\* What the library does by itself.
Library == ExitFinish \/ JoinReturn \/ IdleStart

Calls ==
    \/ \E t \in Thread, j \in BOOLEAN, n \in Size : ThreadCreate(t, j, n)
    \/ \E n \in Size : ThreadCreateFails(n)
    \/ Usleep
    \/ ExitZombie
    \/ \E t \in Thread : Interrupt(t)

Next == Calls \/ Library \/ \E t \in Thread : JoinWait(t) \/ JoinZombie(t)

\* A thread is joined by at most one thread that is not interrupted.
Unjoined(t) == {j \in Thread : <<t, j>> \in joined} = {}

NextOnce == Calls \/ Library \/ \E t \in Thread : Unjoined(t) /\ (JoinWait(t) \/ JoinZombie(t))

Spec == Init /\ [][Next]_vars

SpecOnce == Init /\ [][NextOnce]_vars

\* Threads let others run again and again, and the library's steps happen.
FairSpecOnce ==
    /\ SpecOnce
    /\ WF_vars(running \in exited /\ ExitFinish)
    /\ WF_vars(JoinReturn)
    /\ WF_vars(IdleStart)
    /\ SF_vars(Usleep)

-----------------------------------------------------------------------------
\* A thread is in one place, and nobody runs after its last switch.
InOnePlace ==
    /\ IsInjective(runq)
    /\ \A t \in Thread :
        /\ state[t] = "RUNNING" <=> running = t
        /\ state[t] = "RUNNABLE" <=> t \in ToSet(runq)

\* No two threads share a stack, and no stack that can be handed out belongs to
\* a thread that can still run or be joined, a zombie included; every thread
\* has at least the stack it was created with, recycled or not.
StacksApart ==
    /\ IsInjective(free)
    /\ \A t \in Thread : stack[t] # None =>
        /\ stack[t] \notin ToSet(free)
        /\ stk_size[stack[t]] >= need[t]
        /\ \A u \in Thread \ {t} : stack[u] # stack[t]
    /\ \A t \in Thread \ {Primordial} : state[t] \notin {"none", "gone"} => stack[t] # None

\* One join of a thread succeeds at most, whoever else tries or is interrupted.
JoinOnce == \A t \in Thread : Cardinality({j \in Thread : <<t, j>> \in joined}) <= 1

\* The process ends only when every thread has terminated.
EndsLast == halted => \A t \in Thread : state[t] \in {"none", "ZOMBIE", "gone"}

\* The calling thread of st_thread_join is not blocked if the target thread has
\* already terminated (docs/reference.html).
NotBlockedByTheDead ==
    \A t \in Thread : state[t] = "COND_WAIT" => target[t] \notin exited

WaitsForDead(j) == target[j] # None /\ target[j] \in exited
Lingers(t) == state[t] # "gone" /\ \E j \in Thread : <<t, j>> \in joined

\* In a program that joins a thread once, whoever waits for a thread that
\* terminates comes back, and a joined thread gives back its stack: the threads
\* are finitely many, so there is a moment when nobody is left.
JoinReturns ==
    /\ (\E j \in Thread : WaitsForDead(j)) ~> (\A j \in Thread : ~WaitsForDead(j))
    /\ (\E t \in Thread : Lingers(t)) ~> (\A t \in Thread : ~Lingers(t))

\* From st_thread_create to the last switch: a thread is in one place and has a
\* stack of its own, one join of it succeeds, and the process outlives it.
LifeRight == TypeOK /\ InOnePlace /\ StacksApart /\ JoinOnce /\ EndsLast
=================================================================================
