----------------------------- MODULE StSyncProofs -----------------------------
(***************************************************************************)
(* Proofs about StSync for every set of threads: the invariants of wait    *)
(* queues, timeouts, signals and interrupts, and that the mutex implements *)
(* the first-come-first-served lock of FifoLock.                           *)
(***************************************************************************)
EXTENDS StSync, QueueLemmas

Awake == {"RUNNING", "RUNNABLE"}

\* Running and run queue, and the idle thread runs only when nothing else can.
Placed ==
    /\ IsInjective(runq)
    /\ running = Idle => runq = <<>>
    /\ \A t \in Thread :
        /\ state[t] = "RUNNING" <=> running = t
        /\ state[t] = "RUNNABLE" <=> t \in ToSet(runq)

\* Only a sleeper or a waiter for the condition has a timeout.
ArmedRight == \A t \in armed : state[t] \in {"SLEEPING", "COND_WAIT"}

\* A wait queue links exactly the threads inside the call, once each, woken or
\* not, and a thread that waits is inside the call its state belongs to.
QueuesRight ==
    /\ IsInjective(cond) /\ IsInjective(lock)
    /\ \A t \in Thread :
        /\ t \in ToSet(cond) <=> pc[t] = "cond"
        /\ t \in ToSet(lock) <=> pc[t] = "lock"
        /\ state[t] = "COND_WAIT" => pc[t] = "cond"
        /\ state[t] = "LOCK_WAIT" => pc[t] = "lock"
        /\ state[t] \in {"SLEEPING", "SUSPENDED"} => pc[t] = "usleep"

\* A thread that a timeout or a signal has woken is not asleep again.
WokenRight == \A t \in timedout \cup signalled : pc[t] = "cond" /\ state[t] \in Awake

\* Whoever is woken from the wait for the mutex owns it or is interrupted.
LockWoken ==
    \A t \in Thread : pc[t] = "lock" /\ state[t] \in Awake => owner = t \/ t \in interrupt

\* The inductive invariant.
IInv ==
    /\ TypeOK /\ Placed /\ ArmedRight /\ QueuesRight /\ WokenRight /\ LockWoken
    /\ OwnerKnows /\ SignalNotSpent /\ NoDanglingLink

-----------------------------------------------------------------------------
(* What a context switch and a wake-up do.                                  *)

LEMMA LinesType ==
    ASSUME NEW s \in Lines
    PROVE  s \in Seq(Thread) /\ IsInjective(s)
  <1>1. PICK n \in 0..Cardinality(Thread) : s \in [1..n -> Thread] /\ IsInjective(s)
    BY DEF Lines
  <1>2. n \in Nat
    BY <1>1, SyncAssumption, FS_CardinalityType
  <1> QED  BY <1>1, <1>2, SeqDef

\* _st_vp_schedule resumes the head of the queue.
LEMMA ScheduleStep ==
    ASSUME NEW q \in Seq(Thread), IsInjective(q), NEW st \in [Thread -> State],
           \A t \in Thread : st[t] # "RUNNING",
           \A t \in Thread : st[t] = "RUNNABLE" <=> t \in ToSet(q),
           Schedule(q, st)
    PROVE  /\ Placed'
           /\ running' \in Thread \cup {Idle} /\ runq' \in Seq(Thread) /\ state' \in [Thread -> State]
           /\ \A t \in Thread : \/ state'[t] = st[t]
                                \/ st[t] = "RUNNABLE" /\ state'[t] = "RUNNING"
  <1>1. CASE q = <<>>
    <2>1. running' = Idle /\ runq' = <<>> /\ state' = st
      BY <1>1 DEF Schedule
    <2> QED  BY <1>1, <2>1, EmptyElems, SyncAssumption DEF Placed
  <1>2. CASE q # <<>>
    <2>1. running' = Head(q) /\ runq' = Tail(q) /\ state' = [st EXCEPT ![Head(q)] = "RUNNING"]
      BY <1>2 DEF Schedule
    <2>2. /\ Head(q) \in Thread /\ Tail(q) \in Seq(Thread) /\ Head(q) \in ToSet(q)
          /\ ToSet(q) = ToSet(Tail(q)) \cup {Head(q)}
          /\ IsInjective(Tail(q)) /\ Head(q) \notin ToSet(Tail(q))
      BY <1>2, TailElems
    <2>3. state' \in [Thread -> State]
      BY <2>1, <2>2 DEF State
    <2>4. \A t \in Thread : state'[t] = IF t = Head(q) THEN "RUNNING" ELSE st[t]
      BY <2>1
    <2>5. Placed'
      BY <2>1, <2>2, <2>4, SyncAssumption DEF Placed
    <2> QED  BY <2>1, <2>2, <2>3, <2>4, <2>5
  <1> QED  BY <1>1, <1>2

\* The running thread stops in a call.
LEMMA BlockStep ==
    ASSUME TypeOK, Placed, running \in Thread, NEW call \in {"usleep", "cond", "lock"},
           NEW s \in {"SLEEPING", "SUSPENDED", "COND_WAIT", "LOCK_WAIT"}, Block(call, s)
    PROVE  /\ Placed'
           /\ running' \in Thread \cup {Idle} /\ runq' \in Seq(Thread) /\ state' \in [Thread -> State]
           /\ pc' \in [Thread -> {"user", "usleep", "cond", "lock"}]
           /\ state'[running] = s /\ pc'[running] = call
           /\ \A t \in Thread \ {running} :
                 /\ pc'[t] = pc[t]
                 /\ \/ state'[t] = state[t]
                    \/ state[t] = "RUNNABLE" /\ state'[t] = "RUNNING"
  <1> DEFINE st == [state EXCEPT ![running] = s]
  <1>1. pc' = [pc EXCEPT ![running] = call] /\ Schedule(runq, st)
    BY DEF Block
  <1>2. st \in [Thread -> State] /\ runq \in Seq(Thread) /\ IsInjective(runq)
    BY DEF TypeOK, State, Placed
  <1>3. \A t \in Thread : st[t] = IF t = running THEN s ELSE state[t]
    BY DEF TypeOK
  <1>4. \A t \in Thread : st[t] # "RUNNING" /\ (st[t] = "RUNNABLE" <=> t \in ToSet(runq))
    BY <1>3 DEF Placed
  <1> HIDE DEF st
  <1>5. /\ Placed'
        /\ running' \in Thread \cup {Idle} /\ runq' \in Seq(Thread) /\ state' \in [Thread -> State]
        /\ \A t \in Thread : \/ state'[t] = st[t]
                             \/ st[t] = "RUNNABLE" /\ state'[t] = "RUNNING"
    BY <1>1, <1>2, <1>4, ScheduleStep
  <1>6. /\ pc' \in [Thread -> {"user", "usleep", "cond", "lock"}] /\ pc'[running] = call
        /\ \A t \in Thread \ {running} : pc'[t] = pc[t]
    BY <1>1 DEF TypeOK
  <1> QED  BY <1>3, <1>5, <1>6

\* Threads that wait are made runnable.
LEMMA WakeStep ==
    ASSUME TypeOK, Placed, running \in Thread, NEW to \in Seq(Thread), IsInjective(to),
           \A t \in ToSet(to) : t \in Thread /\ state[t] \notin Awake, Wake(to)
    PROVE  /\ Placed'
           /\ running' = running /\ runq' \in Seq(Thread) /\ state' \in [Thread -> State]
           /\ armed' = armed \ ToSet(to)
           /\ \A t \in Thread : state'[t] = IF t \in ToSet(to) THEN "RUNNABLE" ELSE state[t]
  <1>1. /\ runq' = runq \o to /\ armed' = armed \ ToSet(to) /\ running' = running
        /\ state' = [t \in Thread |-> IF t \in ToSet(to) THEN "RUNNABLE" ELSE state[t]]
    BY DEF Wake
  <1>2. runq \in Seq(Thread) /\ state \in [Thread -> State]
    BY DEF TypeOK
  <1>3. state' \in [Thread -> State]
    BY <1>1, <1>2 DEF State
  <1>4. \A t \in Thread : state'[t] = IF t \in ToSet(to) THEN "RUNNABLE" ELSE state[t]
    BY <1>1
  <1>5. ToSet(runq) \cap ToSet(to) = {}
    BY DEF Placed, Awake
  <1>6. runq' \in Seq(Thread) /\ ToSet(runq') = ToSet(runq) \cup ToSet(to) /\ IsInjective(runq')
    BY <1>1, <1>2, <1>5, ConcatElems DEF Placed
  <1>7. Placed'
    BY <1>1, <1>4, <1>6, SyncAssumption DEF Placed, Awake
  <1> QED  BY <1>1, <1>3, <1>4, <1>6, <1>7

-----------------------------------------------------------------------------
(* The inductive invariant.                                                 *)

LEMMA InitIInv == Init => IInv
  <1> SUFFICES ASSUME Init PROVE IInv
    OBVIOUS
  <1>1. PICK q \in Lines :
            /\ ToSet(q) = Thread
            /\ running = Head(q) /\ runq = Tail(q)
            /\ state = [t \in Thread |-> IF t = running THEN "RUNNING" ELSE "RUNNABLE"]
            /\ pc = [t \in Thread |-> "user"]
            /\ armed = {} /\ timedout = {} /\ interrupt = {}
            /\ cond = <<>> /\ lock = <<>> /\ owner = None /\ freed = {}
            /\ holds = {} /\ signalled = {}
    BY DEF Init
  <1>2. q \in Seq(Thread) /\ IsInjective(q) /\ q # <<>>
    BY <1>1, LinesType, EmptyElems, SyncAssumption
  <1>3. /\ running \in Thread /\ runq \in Seq(Thread)
        /\ Thread = ToSet(runq) \cup {running}
        /\ IsInjective(runq) /\ running \notin ToSet(runq)
    BY <1>1, <1>2, TailElems
  <1>4. \A t \in Thread : state[t] = IF t = running THEN "RUNNING" ELSE "RUNNABLE"
    BY <1>1
  <1>5. Placed
    BY <1>3, <1>4, SyncAssumption DEF Placed
  <1>6. TypeOK
    <2>1. state \in [Thread -> State] /\ pc \in [Thread -> {"user", "usleep", "cond", "lock"}]
      BY <1>1 DEF State
    <2>2. cond \in Seq(Thread) /\ lock \in Seq(Thread)
      BY <1>1
    <2> QED  BY <1>1, <1>3, <2>1, <2>2 DEF TypeOK
  <1>7. ArmedRight /\ WokenRight /\ SignalNotSpent
    BY <1>1 DEF ArmedRight, WokenRight, SignalNotSpent
  <1>8. \A t \in Thread : pc[t] = "user"
    BY <1>1
  <1>9. QueuesRight
    BY <1>1, <1>4, <1>8, EmptyElems DEF QueuesRight
  <1>10. LockWoken /\ OwnerKnows /\ NoDanglingLink
    BY <1>1, <1>8, SyncAssumption DEF LockWoken, OwnerKnows, NoDanglingLink
  <1> QED  BY <1>5, <1>6, <1>7, <1>9, <1>10 DEF IInv

\* The running thread goes to sleep, on no queue, on the condition's or on the mutex's.
LEMMA BlockIInv ==
    ASSUME IInv, InUser, NEW call \in {"usleep", "cond", "lock"},
           NEW s \in {"SLEEPING", "SUSPENDED", "COND_WAIT", "LOCK_WAIT"}, Block(call, s),
           s \in {"SLEEPING", "SUSPENDED"} <=> call = "usleep",
           s = "COND_WAIT" <=> call = "cond", s = "LOCK_WAIT" <=> call = "lock",
           cond' = IF call = "cond" THEN Append(cond, running) ELSE cond,
           lock' = IF call = "lock" THEN Append(lock, running) ELSE lock,
           call \notin freed,
           armed' = armed \/ (armed' = armed \cup {running} /\ s \in {"SLEEPING", "COND_WAIT"}),
           UNCHANGED <<timedout, interrupt, owner, freed, holds, signalled>>
    PROVE  IInv'
  <1>1. /\ TypeOK /\ Placed /\ ArmedRight /\ QueuesRight /\ WokenRight /\ LockWoken
        /\ OwnerKnows /\ SignalNotSpent /\ NoDanglingLink
    BY DEF IInv
  <1>2. running \in Thread /\ pc[running] = "user" /\ state[running] = "RUNNING"
    BY <1>1 DEF InUser, TypeOK, Placed
  <1>3. /\ Placed'
        /\ running' \in Thread \cup {Idle} /\ runq' \in Seq(Thread) /\ state' \in [Thread -> State]
        /\ pc' \in [Thread -> {"user", "usleep", "cond", "lock"}]
        /\ state'[running] = s /\ pc'[running] = call
        /\ \A t \in Thread \ {running} :
              /\ pc'[t] = pc[t]
              /\ \/ state'[t] = state[t]
                 \/ state[t] = "RUNNABLE" /\ state'[t] = "RUNNING"
    BY <1>1, <1>2, BlockStep
  <1>4. /\ cond \in Seq(Thread) /\ lock \in Seq(Thread)
        /\ running \notin ToSet(cond) /\ running \notin ToSet(lock)
    BY <1>1, <1>2 DEF TypeOK, QueuesRight
  <1>5. /\ cond' \in Seq(Thread) /\ IsInjective(cond')
        /\ ToSet(cond') = IF call = "cond" THEN ToSet(cond) \cup {running} ELSE ToSet(cond)
    <2>1. IsInjective(cond)
      BY <1>1 DEF QueuesRight
    <2>2. CASE call = "cond"
      <3>1. cond' = Append(cond, running)
        BY <2>2
      <3> QED  BY <1>2, <1>4, <2>1, <2>2, <3>1, AppendElems
    <2>3. CASE call # "cond"
      BY <1>4, <2>1, <2>3
    <2> QED  BY <2>2, <2>3
  <1>6. /\ lock' \in Seq(Thread) /\ IsInjective(lock')
        /\ ToSet(lock') = IF call = "lock" THEN ToSet(lock) \cup {running} ELSE ToSet(lock)
    <2>1. IsInjective(lock)
      BY <1>1 DEF QueuesRight
    <2>2. CASE call = "lock"
      <3>1. lock' = Append(lock, running)
        BY <2>2
      <3> QED  BY <1>2, <1>4, <2>1, <2>2, <3>1, AppendElems
    <2>3. CASE call # "lock"
      BY <1>4, <2>1, <2>3
    <2> QED  BY <2>2, <2>3
  <1>7. TypeOK'
    BY <1>1, <1>2, <1>3, <1>5, <1>6 DEF TypeOK
  <1>8. QueuesRight'
    BY <1>1, <1>2, <1>3, <1>5, <1>6 DEF QueuesRight
  <1>9. ArmedRight'
    BY <1>1, <1>2, <1>3 DEF ArmedRight, TypeOK
  <1>10. WokenRight' /\ SignalNotSpent'
    BY <1>1, <1>2, <1>3 DEF WokenRight, SignalNotSpent, TypeOK, Awake
  <1>11. LockWoken'
    BY <1>1, <1>2, <1>3 DEF LockWoken, Awake
  <1>12. OwnerKnows'
    BY <1>1, <1>2, <1>3 DEF OwnerKnows
  <1>13. NoDanglingLink'
    BY <1>1, <1>3 DEF NoDanglingLink
  <1> QED  BY <1>3, <1>7, <1>8, <1>9, <1>10, <1>11, <1>12, <1>13 DEF IInv

\* At most one thread comes first.
LEMMA FirstUnique ==
    ASSUME NEW q, IsInjective(q), DOMAIN q \subseteq Nat, NEW S, NEW t \in First(q, S), NEW u \in First(q, S)
    PROVE  t = u
  <1> SUFFICES ASSUME t # u PROVE FALSE
    OBVIOUS
  <1>1. Before(q, t, u) /\ Before(q, u, t)
    BY DEF First
  <1>2. PICK i \in DOMAIN q, j \in DOMAIN q : i < j /\ q[i] = t /\ q[j] = u
    BY <1>1 DEF Before
  <1>3. PICK k \in DOMAIN q, l \in DOMAIN q : k < l /\ q[k] = u /\ q[l] = t
    BY <1>1 DEF Before
  <1>4. i = l /\ j = k
    BY <1>2, <1>3 DEF IsInjective
  <1> QED  BY <1>2, <1>3, <1>4

\* Threads that wait are made runnable: what holds whatever they are told.
LEMMA WakeIInv ==
    ASSUME IInv, InUser, NEW to \in Seq(Thread), IsInjective(to),
           \A t \in ToSet(to) : state[t] \notin Awake, Wake(to),
           UNCHANGED <<pc, timedout, cond, lock, freed>>
    PROVE  /\ Placed' /\ ArmedRight' /\ QueuesRight' /\ NoDanglingLink'
           /\ running' = running /\ runq' \in Seq(Thread) /\ state' \in [Thread -> State]
           /\ armed' \subseteq Thread
           /\ ToSet(to) \subseteq Thread
           /\ \A t \in Thread : state'[t] = IF t \in ToSet(to) THEN "RUNNABLE" ELSE state[t]
  <1>1. TypeOK /\ Placed /\ ArmedRight /\ QueuesRight /\ NoDanglingLink
    BY DEF IInv
  <1>2. running \in Thread
    BY <1>1 DEF InUser, TypeOK
  <1>3. ToSet(to) \subseteq Thread
    BY DEF ToSet
  <1>4. /\ Placed'
        /\ running' = running /\ runq' \in Seq(Thread) /\ state' \in [Thread -> State]
        /\ armed' = armed \ ToSet(to)
        /\ \A t \in Thread : state'[t] = IF t \in ToSet(to) THEN "RUNNABLE" ELSE state[t]
    BY <1>1, <1>2, <1>3, WakeStep
  <1>5. ArmedRight' /\ armed' \subseteq Thread
    BY <1>1, <1>4 DEF ArmedRight, TypeOK
  <1>6. QueuesRight'
    BY <1>1, <1>4 DEF QueuesRight
  <1>7. NoDanglingLink'
    BY <1>1 DEF NoDanglingLink
  <1> QED  BY <1>3, <1>4, <1>5, <1>6, <1>7

\* Unlinking from a wait queue takes out the one thread.
LEMMA UnlinkedElems ==
    ASSUME NEW q \in Seq(Thread), IsInjective(q), NEW t, NEW r \in Unlinked(q, t)
    PROVE  r \in Seq(Thread) /\ IsInjective(r) /\ ToSet(r) = ToSet(q) \ {t}
  <1>1. PICK i \in DOMAIN q : q[i] = t /\ r = RemoveAt(q, i)
    BY DEF Unlinked
  <1> QED  BY <1>1, RemoveAtElems

LEMMA NextIInv == IInv /\ [Next]_vars => IInv'
  <1> SUFFICES ASSUME IInv, [Next]_vars PROVE IInv'
    OBVIOUS
  <1>0. /\ TypeOK /\ Placed /\ ArmedRight /\ QueuesRight /\ WokenRight /\ LockWoken
        /\ OwnerKnows /\ SignalNotSpent /\ NoDanglingLink
    BY DEF IInv
  <1>00. running # Idle => running \in Thread /\ state[running] = "RUNNING"
    BY <1>0 DEF TypeOK, Placed
  <1>1. CASE CallInterrupted
    <2>1. /\ InUser /\ interrupt' = interrupt \ {running}
          /\ UNCHANGED <<sched, pc, armed, timedout, cond, lock, owner, freed, holds, signalled>>
      BY <1>1 DEF CallInterrupted
    <2>2. TypeOK' /\ Placed' /\ ArmedRight' /\ QueuesRight'
      BY <1>0, <2>1 DEF TypeOK, Placed, ArmedRight, QueuesRight, sched
    <2>3. WokenRight' /\ OwnerKnows' /\ SignalNotSpent' /\ NoDanglingLink'
      BY <1>0, <2>1 DEF WokenRight, OwnerKnows, SignalNotSpent, NoDanglingLink, sched
    <2>4. LockWoken'
      BY <1>0, <2>1 DEF LockWoken, InUser, sched
    <2> QED  BY <2>2, <2>3, <2>4 DEF IInv
  <1>2. ASSUME NEW b \in BOOLEAN, Usleep(b) PROVE IInv'
    <2>1. PICK s \in {"SLEEPING", "SUSPENDED"} : s = IF b THEN "SUSPENDED" ELSE "SLEEPING"
      OBVIOUS
    <2>2. /\ InUser /\ Block("usleep", s)
          /\ armed' = armed \/ (armed' = armed \cup {running} /\ s = "SLEEPING")
          /\ UNCHANGED <<timedout, interrupt, cond, lock, owner, freed, holds, signalled>>
      BY <1>2, <2>1 DEF Usleep
    <2>3. "usleep" \notin freed
      BY <1>0 DEF TypeOK
    <2> QED  BY <2>1, <2>2, <2>3, BlockIInv
  <1>3. ASSUME NEW b \in BOOLEAN, CondWait(b) PROVE IInv'
    <2>1. /\ InUser /\ Block("cond", "COND_WAIT") /\ cond' = Append(cond, running)
          /\ armed' = armed \/ armed' = armed \cup {running}
          /\ "cond" \notin freed
          /\ UNCHANGED <<timedout, interrupt, lock, owner, freed, holds, signalled>>
      BY <1>3 DEF CondWait
    <2> QED  BY <2>1, BlockIInv
  <1>4. CASE LockWait
    <2>1. /\ InUser /\ Block("lock", "LOCK_WAIT") /\ lock' = Append(lock, running)
          /\ "lock" \notin freed
          /\ UNCHANGED <<armed, timedout, interrupt, cond, owner, freed, holds, signalled>>
      BY <1>4 DEF LockWait, flags
    <2> QED  BY <2>1, BlockIInv
  <1>5. ASSUME NEW b \in BOOLEAN, CondSignal(b) PROVE IInv'
    <2>1. PICK to \in Lines :
              /\ InUser
              /\ InOrder(to, IF b THEN Waiters(cond, "COND_WAIT")
                                  ELSE First(cond, Waiters(cond, "COND_WAIT")), cond)
              /\ Wake(to)
              /\ signalled' = signalled \cup ToSet(to)
              /\ UNCHANGED <<pc, timedout, interrupt, cond, lock, owner, freed, holds>>
      BY <1>5 DEF CondSignal
    <2>2. to \in Seq(Thread) /\ IsInjective(to)
      BY <2>1, LinesType
    <2>3. \A t \in ToSet(to) : t \in ToSet(cond) /\ state[t] = "COND_WAIT"
      BY <2>1 DEF InOrder, Waiters, First
    <2>4. /\ Placed' /\ ArmedRight' /\ QueuesRight' /\ NoDanglingLink'
          /\ running' = running /\ runq' \in Seq(Thread) /\ state' \in [Thread -> State]
          /\ armed' \subseteq Thread /\ ToSet(to) \subseteq Thread
          /\ \A t \in Thread : state'[t] = IF t \in ToSet(to) THEN "RUNNABLE" ELSE state[t]
      BY <2>1, <2>2, <2>3, WakeIInv DEF Awake
    <2>5. TypeOK'
      BY <1>0, <2>1, <2>4 DEF TypeOK
    <2>6. \A t \in ToSet(to) : pc[t] = "cond" /\ t \notin timedout
      BY <1>0, <2>3, <2>4 DEF QueuesRight, WokenRight, Awake
    <2>7. WokenRight' /\ SignalNotSpent'
      BY <1>0, <2>1, <2>4, <2>6 DEF WokenRight, SignalNotSpent, Awake, TypeOK
    <2>8. LockWoken'
      BY <1>0, <2>1, <2>4, <2>6 DEF LockWoken, Awake
    <2>9. OwnerKnows'
      BY <1>0, <2>1, <2>4 DEF OwnerKnows
    <2> QED  BY <2>4, <2>5, <2>7, <2>8, <2>9 DEF IInv
  <1>6. ASSUME NEW b \in BOOLEAN, LockFree(b) PROVE IInv'
    <2>1. /\ InUser /\ owner = None /\ owner' = running /\ holds' = holds \cup {running}
          /\ UNCHANGED <<sched, pc, flags, cond, lock, freed, signalled>>
      BY <1>6 DEF LockFree
    <2>2. holds' = {running}
      BY <1>0, <2>1, SyncAssumption DEF OwnerKnows, TypeOK
    <2>3. TypeOK' /\ Placed' /\ ArmedRight' /\ QueuesRight'
      BY <1>0, <1>00, <2>1 DEF TypeOK, Placed, ArmedRight, QueuesRight, sched, flags, InUser
    <2>4. WokenRight' /\ OwnerKnows' /\ SignalNotSpent' /\ NoDanglingLink'
      BY <1>0, <2>1, <2>2 DEF WokenRight, OwnerKnows, SignalNotSpent, NoDanglingLink, sched, flags
    <2>5. LockWoken'
      BY <1>0, <2>1, SyncAssumption DEF LockWoken, sched, flags
    <2> QED  BY <2>3, <2>4, <2>5 DEF IInv
  <1>7. CASE MutexUnlock
    <2>1. PICK to \in Lines :
              /\ InUser /\ owner = running
              /\ InOrder(to, First(lock, Waiters(lock, "LOCK_WAIT")), lock)
              /\ Wake(to)
              /\ owner' = IF to = <<>> THEN None ELSE Head(to)
              /\ holds' = holds \ {running}
              /\ UNCHANGED <<pc, timedout, interrupt, cond, lock, freed, signalled>>
      BY <1>7 DEF MutexUnlock
    <2>2. to \in Seq(Thread) /\ IsInjective(to)
      BY <2>1, LinesType
    <2>3. \A t \in ToSet(to) : state[t] = "LOCK_WAIT" /\ t \in First(lock, Waiters(lock, "LOCK_WAIT"))
      BY <2>1 DEF InOrder, Waiters, First
    <2>4. /\ Placed' /\ ArmedRight' /\ QueuesRight' /\ NoDanglingLink'
          /\ running' = running /\ runq' \in Seq(Thread) /\ state' \in [Thread -> State]
          /\ armed' \subseteq Thread /\ ToSet(to) \subseteq Thread
          /\ \A t \in Thread : state'[t] = IF t \in ToSet(to) THEN "RUNNABLE" ELSE state[t]
      BY <2>1, <2>2, <2>3, WakeIInv DEF Awake
    <2>5. to = <<>> \/ (Head(to) \in ToSet(to) /\ ToSet(to) \subseteq {Head(to)})
      <3>1. lock \in Seq(Thread) /\ IsInjective(lock) /\ DOMAIN lock \subseteq Nat
        BY <1>0 DEF TypeOK, QueuesRight
      <3>2. \A t, u \in ToSet(to) : t = u
        BY <2>3, <3>1, FirstUnique
      <3> QED  BY <2>2, <3>2, TailElems
    <2>6. CASE to = <<>>
      <3>1. owner' = None /\ ToSet(to) = {}
        BY <2>1, <2>6, EmptyElems
      <3>2. holds' = {}
        BY <1>0, <2>1 DEF OwnerKnows
      <3>3. TypeOK'
        BY <1>0, <2>1, <2>4, <3>1 DEF TypeOK
      <3>4. WokenRight' /\ SignalNotSpent'
        BY <1>0, <2>1, <2>4, <3>1 DEF WokenRight, SignalNotSpent, TypeOK
      <3>5. LockWoken'
        BY <1>0, <2>1, <2>4, <3>1 DEF LockWoken, InUser
      <3>6. OwnerKnows'
        BY <3>1, <3>2, SyncAssumption DEF OwnerKnows
      <3> QED  BY <2>4, <3>3, <3>4, <3>5, <3>6 DEF IInv
    <2>7. CASE to # <<>>
      <3>1. PICK h \in Thread : owner' = h /\ ToSet(to) = {h}
        BY <2>1, <2>4, <2>5, <2>7
      <3>2. holds' = {}
        BY <1>0, <2>1 DEF OwnerKnows
      <3>3. TypeOK'
        BY <1>0, <2>1, <2>4, <3>1 DEF TypeOK
      <3>4. WokenRight' /\ SignalNotSpent'
        BY <1>0, <2>1, <2>4, <3>1 DEF WokenRight, SignalNotSpent, TypeOK, Awake
      <3>5. LockWoken'
        BY <1>0, <2>1, <2>4, <3>1 DEF LockWoken, InUser
      <3>6. OwnerKnows'
        BY <1>0, <2>1, <2>3, <2>4, <3>1, <3>2 DEF OwnerKnows, QueuesRight
      <3> QED  BY <2>4, <3>3, <3>4, <3>5, <3>6 DEF IInv
    <2> QED  BY <2>6, <2>7
  <1>8. CASE CondDestroy
    <2>1. /\ cond = <<>> /\ freed' = freed \cup {"cond"}
          /\ UNCHANGED <<sched, pc, flags, cond, lock, owner, holds, signalled>>
      BY <1>8 DEF CondDestroy
    <2>2. TypeOK' /\ Placed' /\ ArmedRight' /\ QueuesRight'
      BY <1>0, <2>1 DEF TypeOK, Placed, ArmedRight, QueuesRight, sched, flags
    <2>3. WokenRight' /\ OwnerKnows' /\ SignalNotSpent' /\ LockWoken'
      BY <1>0, <2>1 DEF WokenRight, OwnerKnows, SignalNotSpent, LockWoken, sched, flags
    <2>4. NoDanglingLink'
      BY <1>0, <2>1, EmptyElems DEF NoDanglingLink, QueuesRight
    <2> QED  BY <2>2, <2>3, <2>4 DEF IInv
  <1>9. CASE MutexDestroy
    <2>1. /\ lock = <<>> /\ freed' = freed \cup {"lock"}
          /\ UNCHANGED <<sched, pc, flags, cond, lock, owner, holds, signalled>>
      BY <1>9 DEF MutexDestroy
    <2>2. TypeOK' /\ Placed' /\ ArmedRight' /\ QueuesRight'
      BY <1>0, <2>1 DEF TypeOK, Placed, ArmedRight, QueuesRight, sched, flags
    <2>3. WokenRight' /\ OwnerKnows' /\ SignalNotSpent' /\ LockWoken'
      BY <1>0, <2>1 DEF WokenRight, OwnerKnows, SignalNotSpent, LockWoken, sched, flags
    <2>4. NoDanglingLink'
      BY <1>0, <2>1, EmptyElems DEF NoDanglingLink, QueuesRight
    <2> QED  BY <2>2, <2>3, <2>4 DEF IInv
  <1>10. ASSUME NEW t \in Thread, Interrupt(t) PROVE IInv'
    <2>1. /\ InUser /\ interrupt' = interrupt \cup {t}
          /\ UNCHANGED <<pc, timedout, cond, lock, owner, freed, holds, signalled>>
      BY <1>10 DEF Interrupt
    <2>2. CASE state[t] \in Awake
      <3>1. UNCHANGED <<sched, armed>>
        BY <1>10, <2>2 DEF Interrupt, Awake
      <3>2. TypeOK' /\ Placed' /\ ArmedRight' /\ QueuesRight'
        BY <1>0, <2>1, <3>1 DEF TypeOK, Placed, ArmedRight, QueuesRight, sched
      <3>3. WokenRight' /\ OwnerKnows' /\ SignalNotSpent' /\ LockWoken' /\ NoDanglingLink'
        BY <1>0, <2>1, <3>1 DEF WokenRight, OwnerKnows, SignalNotSpent, LockWoken, NoDanglingLink, sched
      <3> QED  BY <3>2, <3>3 DEF IInv
    <2>3. CASE state[t] \notin Awake
      <3>1. Wake(<<t>>)
        BY <1>10, <2>3 DEF Interrupt, Awake
      <3>2. <<t>> \in Seq(Thread) /\ IsInjective(<<t>>) /\ ToSet(<<t>>) = {t}
        BY DEF IsInjective, ToSet
      <3>3. /\ Placed' /\ ArmedRight' /\ QueuesRight' /\ NoDanglingLink'
            /\ running' = running /\ runq' \in Seq(Thread) /\ state' \in [Thread -> State]
            /\ armed' \subseteq Thread /\ ToSet(<<t>>) \subseteq Thread
            /\ \A u \in Thread : state'[u] = IF u \in ToSet(<<t>>) THEN "RUNNABLE" ELSE state[u]
        BY <2>1, <2>3, <3>1, <3>2, WakeIInv
      <3>4. TypeOK'
        BY <1>0, <2>1, <3>3 DEF TypeOK
      <3>5. WokenRight' /\ SignalNotSpent'
        BY <1>0, <2>1, <3>2, <3>3 DEF WokenRight, SignalNotSpent, Awake, TypeOK
      <3>6. LockWoken' /\ OwnerKnows'
        BY <1>0, <2>1, <3>2, <3>3 DEF LockWoken, OwnerKnows, Awake
      <3> QED  BY <3>3, <3>4, <3>5, <3>6 DEF IInv
    <2> QED  BY <2>2, <2>3
  <1>11. CASE UsleepReturn
    <2>1. /\ running # Idle /\ pc[running] = "usleep" /\ pc' = [pc EXCEPT ![running] = "user"]
          /\ interrupt' = interrupt \ {running}
          /\ UNCHANGED <<sched, armed, timedout, cond, lock, owner, freed, holds, signalled>>
      BY <1>11 DEF UsleepReturn
    <2>2. \A t \in Thread : pc'[t] = IF t = running THEN "user" ELSE pc[t]
      BY <1>0, <2>1 DEF TypeOK
    <2>3. TypeOK' /\ Placed' /\ ArmedRight'
      BY <1>0, <1>00, <2>1 DEF TypeOK, Placed, ArmedRight, sched
    <2>4. QueuesRight'
      BY <1>0, <1>00, <2>1, <2>2 DEF QueuesRight, sched
    <2>5. WokenRight' /\ SignalNotSpent'
      BY <1>0, <1>00, <2>1, <2>2 DEF WokenRight, SignalNotSpent, sched, TypeOK
    <2>6. LockWoken' /\ OwnerKnows' /\ NoDanglingLink'
      BY <1>0, <1>00, <2>1, <2>2 DEF LockWoken, OwnerKnows, NoDanglingLink, sched
    <2> QED  BY <2>3, <2>4, <2>5, <2>6 DEF IInv
  <1>12. CASE CondReturn
    <2>1. /\ running # Idle /\ pc[running] = "cond" /\ pc' = [pc EXCEPT ![running] = "user"]
          /\ cond' \in Unlinked(cond, running)
          /\ timedout' = timedout \ {running} /\ interrupt' = interrupt \ {running}
          /\ signalled' = signalled \ {running}
          /\ UNCHANGED <<sched, armed, lock, owner, freed, holds>>
      BY <1>12 DEF CondReturn
    <2>2. \A t \in Thread : pc'[t] = IF t = running THEN "user" ELSE pc[t]
      BY <1>0, <2>1 DEF TypeOK
    <2>3. cond' \in Seq(Thread) /\ IsInjective(cond') /\ ToSet(cond') = ToSet(cond) \ {running}
      BY <1>0, <2>1, UnlinkedElems DEF TypeOK, QueuesRight
    <2>4. TypeOK' /\ Placed' /\ ArmedRight'
      BY <1>0, <1>00, <2>1, <2>3 DEF TypeOK, Placed, ArmedRight, sched
    <2>5. QueuesRight'
      BY <1>0, <1>00, <2>1, <2>2, <2>3 DEF QueuesRight, sched
    <2>6. WokenRight' /\ SignalNotSpent'
      BY <1>0, <1>00, <2>1, <2>2 DEF WokenRight, SignalNotSpent, sched, TypeOK
    <2>7. LockWoken' /\ OwnerKnows' /\ NoDanglingLink'
      BY <1>0, <1>00, <2>1, <2>2 DEF LockWoken, OwnerKnows, NoDanglingLink, sched
    <2> QED  BY <2>4, <2>5, <2>6, <2>7 DEF IInv
  <1>13. CASE LockReturn
    <2>1. /\ running # Idle /\ pc[running] = "lock" /\ pc' = [pc EXCEPT ![running] = "user"]
          /\ lock' \in Unlinked(lock, running)
          /\ UNCHANGED <<sched, armed, timedout, cond, owner, freed, signalled>>
          /\ \/ owner # running /\ interrupt' = interrupt \ {running} /\ holds' = holds
             \/ /\ ~(running \in interrupt /\ owner # running)
                /\ holds' = holds \cup {running} /\ interrupt' = interrupt
      BY <1>13 DEF LockReturn
    <2>2. \A t \in Thread : pc'[t] = IF t = running THEN "user" ELSE pc[t]
      BY <1>0, <2>1 DEF TypeOK
    <2>3. lock' \in Seq(Thread) /\ IsInjective(lock') /\ ToSet(lock') = ToSet(lock) \ {running}
      BY <1>0, <2>1, UnlinkedElems DEF TypeOK, QueuesRight
    <2>4. \/ owner # running /\ interrupt' = interrupt \ {running} /\ holds' = holds
          \/ owner = running /\ holds' = holds \cup {running} /\ interrupt' = interrupt
      BY <1>0, <1>00, <2>1 DEF LockWoken, Awake
    <2>5. TypeOK' /\ Placed' /\ ArmedRight'
      BY <1>0, <1>00, <2>1, <2>3, <2>4 DEF TypeOK, Placed, ArmedRight, sched
    <2>6. QueuesRight'
      BY <1>0, <1>00, <2>1, <2>2, <2>3 DEF QueuesRight, sched
    <2>7. WokenRight' /\ SignalNotSpent'
      BY <1>0, <1>00, <2>1, <2>2 DEF WokenRight, SignalNotSpent, sched, TypeOK
    <2>8. LockWoken' /\ OwnerKnows' /\ NoDanglingLink'
      BY <1>0, <1>00, <2>1, <2>2, <2>4 DEF LockWoken, OwnerKnows, NoDanglingLink, sched
    <2> QED  BY <2>5, <2>6, <2>7, <2>8 DEF IInv
  <1>14. ASSUME NEW late \in Lines, CheckClock(late) PROVE IInv'
    <2> DEFINE st == [t \in Thread |-> IF t \in ToSet(late) THEN "RUNNABLE" ELSE state[t]]
    <2>1. /\ running = Idle /\ ToSet(late) \subseteq armed /\ armed' = armed \ ToSet(late)
          /\ timedout' = timedout \cup {t \in ToSet(late) : state[t] = "COND_WAIT"}
          /\ Schedule(late, st)
          /\ UNCHANGED <<pc, interrupt, cond, lock, owner, freed, holds, signalled>>
      BY <1>14 DEF CheckClock
    <2>2. late \in Seq(Thread) /\ IsInjective(late) /\ ToSet(late) \subseteq Thread
      BY <1>0, <1>14, <2>1, LinesType DEF TypeOK
    <2>3. \A t \in ToSet(late) : state[t] \in {"SLEEPING", "COND_WAIT"}
      BY <1>0, <2>1 DEF ArmedRight
    <2>4. \A t \in Thread : state[t] \notin Awake
      BY <1>0, <2>1, SyncAssumption, EmptyElems DEF Placed, Awake
    <2>5. st \in [Thread -> State] /\ \A t \in Thread : st[t] = IF t \in ToSet(late) THEN "RUNNABLE" ELSE state[t]
      BY <1>0 DEF TypeOK, State
    <2> HIDE DEF st
    <2>6. \A t \in Thread : st[t] # "RUNNING" /\ (st[t] = "RUNNABLE" <=> t \in ToSet(late))
      BY <2>4, <2>5 DEF Awake
    <2>7. /\ Placed'
          /\ running' \in Thread \cup {Idle} /\ runq' \in Seq(Thread) /\ state' \in [Thread -> State]
          /\ \A t \in Thread : \/ state'[t] = st[t]
                               \/ st[t] = "RUNNABLE" /\ state'[t] = "RUNNING"
      BY <2>1, <2>2, <2>5, <2>6, ScheduleStep
    <2>8. \A t \in Thread : IF t \in ToSet(late) THEN state'[t] \in Awake ELSE state'[t] = state[t]
      BY <2>5, <2>6, <2>7 DEF Awake
    <2>9. TypeOK' /\ ArmedRight'
      BY <1>0, <2>1, <2>2, <2>7, <2>8 DEF TypeOK, ArmedRight
    <2>10. QueuesRight'
      BY <1>0, <2>1, <2>8 DEF QueuesRight, Awake
    <2>11. timedout = {} /\ signalled = {}
      BY <1>0, <2>4 DEF WokenRight, TypeOK
    <2>12. WokenRight' /\ SignalNotSpent'
      BY <1>0, <2>1, <2>2, <2>8, <2>11 DEF WokenRight, SignalNotSpent, QueuesRight
    <2>13. LockWoken'
      BY <1>0, <2>1, <2>3, <2>4, <2>8 DEF LockWoken, QueuesRight
    <2>14. OwnerKnows' /\ NoDanglingLink'
      BY <1>0, <2>1, <2>4 DEF OwnerKnows, NoDanglingLink, Awake
    <2> QED  BY <2>7, <2>9, <2>10, <2>12, <2>13, <2>14 DEF IInv
  <1>15. CASE UNCHANGED vars
    <2>1. UNCHANGED <<running, runq, state, pc, armed, timedout, interrupt, cond, lock, owner,
                      freed, holds, signalled>>
      BY <1>15 DEF vars, sched, flags
    <2> QED  BY <1>0, <2>1 DEF IInv, TypeOK, Placed, ArmedRight, QueuesRight, WokenRight, LockWoken,
                   OwnerKnows, SignalNotSpent, NoDanglingLink
  <1> QED
    BY <1>1, <1>2, <1>3, <1>4, <1>5, <1>6, <1>7, <1>8, <1>9, <1>10, <1>11, <1>12, <1>13, <1>14, <1>15
       DEF Next, Call, Return

\* Whatever threads lock, wait, signal, sleep and interrupt each other in whatever
\* order: a thread is in one place, the owner of the mutex knows that it owns it, a
\* signal is not spent on a thread that reports a timeout, and no destroyed wait
\* queue is linked to (sync.c).
THEOREM SyncIsRight == Spec => []SyncInv
  <1>1. IInv => SyncInv
    <2> SUFFICES ASSUME IInv PROVE SyncInv
      OBVIOUS
    <2>1. /\ TypeOK /\ Placed /\ ArmedRight
          /\ OwnerKnows /\ SignalNotSpent /\ NoDanglingLink
      BY DEF IInv
    <2>2. InOnePlace
      BY <2>1 DEF InOnePlace, Placed, ArmedRight
    <2> QED  BY <2>1, <2>2 DEF SyncInv
  <1> QED  BY <1>1, InitIInv, NextIInv, PTL DEF Spec

-----------------------------------------------------------------------------
(* The mutex implements the first-come-first-served lock.                   *)

\* Who is appended comes after everybody else.
LEMMA BeforeAppend ==
    ASSUME NEW q \in Seq(Thread), NEW e \in Thread, e \notin ToSet(q), NEW t \in Thread, NEW u \in Thread
    PROVE  Before(Append(q, e), t, u) <=> (Before(q, t, u) \/ (t \in ToSet(q) /\ u = e))
  <1> DEFINE r == Append(q, e)
  <1>1. /\ Len(q) \in Nat /\ DOMAIN q = 1..Len(q) /\ DOMAIN r = 1..(Len(q) + 1)
        /\ r[Len(q) + 1] = e /\ \A i \in 1..Len(q) : r[i] = q[i]
    OBVIOUS
  <1> HIDE DEF r
  <1>2. ASSUME Before(r, t, u) PROVE Before(q, t, u) \/ (t \in ToSet(q) /\ u = e)
    <2>1. PICK i \in DOMAIN r, j \in DOMAIN r : i < j /\ r[i] = t /\ r[j] = u
      BY <1>2 DEF Before
    <2>2. i \in DOMAIN q /\ q[i] = t
      BY <1>1, <2>1
    <2>3. CASE j = Len(q) + 1
      BY <1>1, <2>1, <2>2, <2>3 DEF ToSet
    <2>4. CASE j # Len(q) + 1
      <3>1. j \in DOMAIN q /\ q[j] = u
        BY <1>1, <2>1, <2>4
      <3> QED  BY <2>1, <2>2, <3>1 DEF Before
    <2> QED  BY <2>3, <2>4
  <1>3. ASSUME Before(q, t, u) PROVE Before(r, t, u)
    <2>1. PICK i \in DOMAIN q, j \in DOMAIN q : i < j /\ q[i] = t /\ q[j] = u
      BY <1>3 DEF Before
    <2> QED  BY <1>1, <2>1 DEF Before
  <1>4. ASSUME t \in ToSet(q), u = e PROVE Before(r, t, u)
    <2>1. PICK i \in DOMAIN q : q[i] = t
      BY <1>4 DEF ToSet
    <2>2. i \in DOMAIN r /\ Len(q) + 1 \in DOMAIN r /\ i < Len(q) + 1 /\ r[i] = t /\ r[Len(q) + 1] = u
      BY <1>1, <1>4, <2>1
    <2> QED  BY <2>2 DEF Before
  <1> QED  BY <1>2, <1>3, <1>4 DEF r

\* Unlinking a thread leaves the order of the others.
LEMMA BeforeUnlinked ==
    ASSUME NEW q \in Seq(Thread), NEW w, NEW r \in Unlinked(q, w),
           NEW t \in Thread \ {w}, NEW u \in Thread \ {w}
    PROVE  Before(r, t, u) <=> Before(q, t, u)
  <1>1. PICK x \in DOMAIN q : q[x] = w /\ r = RemoveAt(q, x)
    BY DEF Unlinked
  <1>2. /\ Len(q) \in Nat \ {0} /\ x \in 1..Len(q) /\ DOMAIN q = 1..Len(q)
        /\ DOMAIN r = 1..(Len(q) - 1)
        /\ \A k \in 1..(Len(q) - 1) : r[k] = IF k < x THEN q[k] ELSE q[k + 1]
    BY <1>1, RemoveAtIndices
  <1>3. ASSUME Before(r, t, u) PROVE Before(q, t, u)
    <2>1. PICK i \in DOMAIN r, j \in DOMAIN r : i < j /\ r[i] = t /\ r[j] = u
      BY <1>3 DEF Before
    <2>2. PICK k \in DOMAIN q : k = (IF i < x THEN i ELSE i + 1) /\ q[k] = t
      BY <1>2, <2>1
    <2>3. PICK l \in DOMAIN q : l = (IF j < x THEN j ELSE j + 1) /\ q[l] = u
      BY <1>2, <2>1
    <2>4. k < l
      BY <1>2, <2>1, <2>2, <2>3
    <2> QED  BY <2>2, <2>3, <2>4 DEF Before
  <1>4. ASSUME Before(q, t, u) PROVE Before(r, t, u)
    <2>1. PICK k \in DOMAIN q, l \in DOMAIN q : k < l /\ q[k] = t /\ q[l] = u
      BY <1>4 DEF Before
    <2>2. k # x /\ l # x
      BY <1>1, <2>1
    <2>3. PICK i \in DOMAIN r : i = (IF k < x THEN k ELSE k - 1) /\ r[i] = t
      <3>1. CASE k < x
        BY <1>2, <2>1, <2>2, <3>1
      <3>2. CASE ~(k < x)
        <4>1. k - 1 \in DOMAIN r /\ ~(k - 1 < x) /\ k - 1 + 1 = k
          BY <1>2, <2>2, <3>2
        <4> QED  BY <1>2, <2>1, <3>2, <4>1
      <3> QED  BY <3>1, <3>2
    <2>4. PICK j \in DOMAIN r : j = (IF l < x THEN l ELSE l - 1) /\ r[j] = u
      <3>1. CASE l < x
        BY <1>2, <2>1, <2>2, <3>1
      <3>2. CASE ~(l < x)
        <4>1. l - 1 \in DOMAIN r /\ ~(l - 1 < x) /\ l - 1 + 1 = l
          BY <1>2, <2>2, <3>2
        <4> QED  BY <1>2, <2>1, <3>2, <4>1
      <3> QED  BY <3>1, <3>2
    <2>5. i < j
      BY <1>2, <2>1, <2>2, <2>3, <2>4
    <2> QED  BY <2>3, <2>4, <2>5 DEF Before
  <1> QED  BY <1>3, <1>4

\* Among threads of a queue one comes first.
LEMMA FirstExists ==
    ASSUME NEW q \in Seq(Thread), NEW S, S \subseteq ToSet(q), S # {}
    PROVE  First(q, S) # {}
  <1> DEFINE P == {i \in DOMAIN q : q[i] \in S}
  <1>1. P \subseteq Nat /\ P # {}
    BY DEF ToSet
  <1>2. PICK m \in P : \A k \in P : m <= k
    BY <1>1, SmallestMember
  <1>3. ASSUME NEW u \in S \ {q[m]} PROVE Before(q, q[m], u)
    <2>1. PICK k \in DOMAIN q : q[k] = u
      BY DEF ToSet
    <2>2. k \in P /\ k # m
      BY <1>3, <2>1
    <2>3. m < k
      BY <1>1, <1>2, <2>2
    <2> QED  BY <1>2, <2>1, <2>3 DEF Before
  <1>4. q[m] \in First(q, S)
    BY <1>2, <1>3 DEF First
  <1> QED  BY <1>4

\* A step that leaves the queue and its waiting threads leaves the abstract lock.
LEMMA QueuedSame ==
    ASSUME IInv, lock' = lock,
           \A t \in Thread : state'[t] = "LOCK_WAIT" <=> state[t] = "LOCK_WAIT"
    PROVE  UNCHANGED <<Queued, QueuedBefore>>
  <1>1. ToSet(lock) \subseteq Thread
    BY DEF IInv, TypeOK, ToSet
  <1>2. Queued' = Queued
    BY <1>1 DEF Queued, Waiters
  <1> QED  BY <1>2 DEF QueuedBefore, Before

\* A waiting thread that is woken leaves the abstract lock's line.
LEMMA QueuedLeft ==
    ASSUME IInv, lock' = lock, NEW h \in Queued,
           \A t \in Thread : state'[t] = "LOCK_WAIT" <=> (state[t] = "LOCK_WAIT" /\ t # h)
    PROVE  /\ Queued' = Queued \ {h}
           /\ QueuedBefore' = {e \in QueuedBefore : e[1] # h /\ e[2] # h}
  <1>1. ToSet(lock) \subseteq Thread
    BY DEF IInv, TypeOK, ToSet
  <1>2. Queued' = Queued \ {h}
    BY <1>1 DEF Queued, Waiters
  <1> QED  BY <1>2 DEF QueuedBefore, Before

\* Every step of the mutex is a step of the lock or leaves it alone.
LEMMA StepRefines ==
    IInv /\ [Next]_vars => [F!Next]_<<owner, Queued, QueuedBefore>>
  <1> SUFFICES ASSUME IInv, [Next]_vars
               PROVE  F!Next \/ UNCHANGED <<owner, Queued, QueuedBefore>>
    OBVIOUS
  <1>0. TypeOK /\ Placed /\ QueuesRight /\ ArmedRight
    BY DEF IInv
  <1>00. running # Idle => running \in Thread /\ state[running] = "RUNNING"
    BY <1>0 DEF TypeOK, Placed
  <1>1. CASE CallInterrupted \/ CondDestroy \/ MutexDestroy \/ UsleepReturn \/ CondReturn \/ UNCHANGED vars
    <2>1. UNCHANGED <<state, lock, owner>>
      BY <1>1 DEF CallInterrupted, CondDestroy, MutexDestroy, UsleepReturn, CondReturn, vars, sched
    <2> QED  BY <2>1, QueuedSame
  <1>2. ASSUME NEW b \in BOOLEAN, Usleep(b) \/ CondWait(b)
        PROVE  UNCHANGED <<owner, Queued, QueuedBefore>>
    <2>1. PICK call \in {"usleep", "cond"}, s \in {"SLEEPING", "SUSPENDED", "COND_WAIT"} :
              InUser /\ Block(call, s) /\ lock' = lock /\ owner' = owner
      BY <1>2 DEF Usleep, CondWait
    <2>2. \A t \in Thread : state'[t] = "LOCK_WAIT" <=> state[t] = "LOCK_WAIT"
      <3>1. state'[running] = s /\ running \in Thread
        BY <1>0, <1>00, <2>1, BlockStep DEF InUser
      <3>2. \A t \in Thread \ {running} : \/ state'[t] = state[t]
                                          \/ state[t] = "RUNNABLE" /\ state'[t] = "RUNNING"
        BY <1>0, <1>00, <2>1, BlockStep DEF InUser
      <3> QED  BY <1>00, <2>1, <3>1, <3>2 DEF InUser
    <2> QED  BY <2>1, <2>2, QueuedSame
  <1>3. ASSUME NEW b \in BOOLEAN, CondSignal(b)
        PROVE  UNCHANGED <<owner, Queued, QueuedBefore>>
    <2>1. PICK to \in Lines :
              /\ InOrder(to, IF b THEN Waiters(cond, "COND_WAIT")
                                  ELSE First(cond, Waiters(cond, "COND_WAIT")), cond)
              /\ Wake(to) /\ lock' = lock /\ owner' = owner
      BY <1>3 DEF CondSignal
    <2>2. \A t \in ToSet(to) : state[t] = "COND_WAIT"
      BY <2>1 DEF InOrder, Waiters, First
    <2>3. \A t \in Thread : state'[t] = IF t \in ToSet(to) THEN "RUNNABLE" ELSE state[t]
      BY <2>1 DEF Wake
    <2>4. \A t \in Thread : state'[t] = "LOCK_WAIT" <=> state[t] = "LOCK_WAIT"
      BY <2>2, <2>3
    <2> QED  BY <2>1, <2>4, QueuedSame
  <1>4. ASSUME NEW b \in BOOLEAN, LockFree(b) PROVE F!Next
    <2>1. running \in Thread /\ owner = None /\ owner' = running /\ UNCHANGED <<state, lock>>
      BY <1>4, <1>00 DEF LockFree, InUser, sched
    <2>2. UNCHANGED <<Queued, QueuedBefore>>
      BY <2>1, QueuedSame
    <2>3. F!Take(running)
      BY <2>1, <2>2 DEF F!Take
    <2> QED  BY <2>1, <2>3 DEF F!Next
  <1>5. CASE LockWait
    <2>1. /\ InUser /\ owner \notin {None, running} /\ lock' = Append(lock, running)
          /\ Block("lock", "LOCK_WAIT") /\ owner' = owner
      BY <1>5 DEF LockWait
    <2>2. running \in Thread /\ pc[running] = "user" /\ state[running] = "RUNNING"
      BY <1>00, <2>1 DEF InUser
    <2>3. /\ state'[running] = "LOCK_WAIT"
          /\ \A t \in Thread \ {running} : state'[t] = "LOCK_WAIT" <=> state[t] = "LOCK_WAIT"
      <3>1. /\ state'[running] = "LOCK_WAIT"
            /\ \A t \in Thread \ {running} : \/ state'[t] = state[t]
                                             \/ state[t] = "RUNNABLE" /\ state'[t] = "RUNNING"
        BY <1>0, <2>1, <2>2, BlockStep
      <3> QED  BY <3>1
    <2>4. lock \in Seq(Thread) /\ running \notin ToSet(lock) /\ ToSet(lock) \subseteq Thread
      BY <1>0, <2>2 DEF TypeOK, QueuesRight, ToSet
    <2>5. ToSet(lock') = ToSet(lock) \cup {running}
      BY <2>1, <2>2, <2>4, AppendElems
    <2>6. Queued' = Queued \cup {running} /\ running \notin Queued /\ Queued \subseteq ToSet(lock)
      BY <2>2, <2>3, <2>4, <2>5 DEF Queued, Waiters
    <2>7. \A t, u \in Thread : Before(lock', t, u) <=> (Before(lock, t, u) \/ (t \in ToSet(lock) /\ u = running))
      BY <2>1, <2>2, <2>4, BeforeAppend
    <2>8. \A t, u \in Thread : Before(lock, t, u) => t \in ToSet(lock) /\ u \in ToSet(lock)
      BY DEF Before, ToSet
    <2>9. QueuedBefore' = QueuedBefore \cup (Queued \X {running})
      <3>1. QueuedBefore' = {e \in Queued' \X Queued' : Before(lock', e[1], e[2])}
        BY DEF QueuedBefore, Before
      <3>2. ASSUME NEW t \in Queued', NEW u \in Queued'
            PROVE  Before(lock', t, u) <=> (<<t, u>> \in QueuedBefore \cup (Queued \X {running}))
        <4>1. t \in Thread /\ u \in Thread
          BY <2>2, <2>4, <2>6
        <4>2. Before(lock', t, u) <=> (Before(lock, t, u) \/ (t \in ToSet(lock) /\ u = running))
          BY <2>7, <4>1
        <4>3. Before(lock, t, u) => t # running /\ u # running
          BY <2>4, <2>8, <4>1
        <4>4. <<t, u>> \in QueuedBefore <=> (t \in Queued /\ u \in Queued /\ Before(lock, t, u))
          BY DEF QueuedBefore
        <4>5. t \in ToSet(lock) <=> t \in Queued
          BY <2>4, <2>6
        <4> QED  BY <2>6, <4>2, <4>3, <4>4, <4>5
      <3>3. QueuedBefore \cup (Queued \X {running}) \subseteq Queued' \X Queued'
        BY <2>6 DEF QueuedBefore
      <3> QED  BY <3>1, <3>2, <3>3
    <2>10. F!Enqueue(running)
      BY <2>1, <2>6, <2>9 DEF F!Enqueue
    <2> QED  BY <2>2, <2>10 DEF F!Next
  <1>6. CASE MutexUnlock
    <2>1. PICK to \in Lines :
              /\ InUser /\ owner = running
              /\ InOrder(to, First(lock, Queued), lock)
              /\ Wake(to)
              /\ owner' = IF to = <<>> THEN None ELSE Head(to)
              /\ lock' = lock
      BY <1>6 DEF MutexUnlock, Queued
    <2>2. owner # None
      BY <1>00, <2>1, SyncAssumption DEF InUser
    <2>3. to \in Seq(Thread) /\ lock \in Seq(Thread) /\ IsInjective(lock) /\ DOMAIN lock \subseteq Nat
      BY <1>0, <2>1, LinesType DEF TypeOK, QueuesRight
    <2>4. ToSet(to) = First(lock, Queued)
      BY <2>1 DEF InOrder
    <2>5. \A t \in Thread : state'[t] = IF t \in ToSet(to) THEN "RUNNABLE" ELSE state[t]
      BY <2>1 DEF Wake
    <2>6. CASE to = <<>>
      <3>1. First(lock, Queued) = {} /\ owner' = None
        BY <2>1, <2>4, <2>6, EmptyElems
      <3>2. Queued = {}
        BY <2>3, <3>1, FirstExists DEF Queued, Waiters
      <3>3. UNCHANGED <<Queued, QueuedBefore>>
        BY <2>1, <2>4, <2>5, <3>1, QueuedSame
      <3> QED  BY <2>2, <3>1, <3>2, <3>3 DEF F!Next, F!LetGo
    <2>7. CASE to # <<>>
      <3>1. Head(to) \in ToSet(to)
        BY <2>3, <2>7, TailElems
      <3>2. PICK h \in Queued : h = Head(to)
        BY <2>4, <3>1 DEF First
      <3>3. ToSet(to) = {h} /\ owner' = h /\ h \in First(lock, Queued)
        BY <2>1, <2>3, <2>4, <2>7, <3>1, <3>2, FirstUnique
      <3>4. \A u \in Queued \ {h} : <<h, u>> \in QueuedBefore
        BY <3>2, <3>3 DEF First, QueuedBefore
      <3>5. \A t \in Thread : state'[t] = "LOCK_WAIT" <=> (state[t] = "LOCK_WAIT" /\ t # h)
        BY <2>5, <3>3
      <3>6. F!Leave(h)
        BY <2>1, <3>2, <3>5, QueuedLeft DEF F!Leave
      <3> QED  BY <2>2, <3>2, <3>3, <3>4, <3>6 DEF F!Next, F!LetGo
    <2> QED  BY <2>6, <2>7
  <1>7. ASSUME NEW t \in Thread, Interrupt(t)
        PROVE  F!Next \/ UNCHANGED <<owner, Queued, QueuedBefore>>
    <2>1. lock' = lock /\ owner' = owner
      BY <1>7 DEF Interrupt
    <2>2. CASE state[t] \in {"RUNNING", "RUNNABLE"}
      <3>1. state' = state
        BY <1>7, <2>2 DEF Interrupt, sched
      <3> QED  BY <2>1, <3>1, QueuedSame
    <2>3. CASE state[t] \notin {"RUNNING", "RUNNABLE"}
      <3>1. Wake(<<t>>) /\ ToSet(<<t>>) = {t}
        BY <1>7, <2>3 DEF Interrupt, ToSet
      <3>2. \A u \in Thread : state'[u] = IF u = t THEN "RUNNABLE" ELSE state[u]
        BY <3>1 DEF Wake
      <3>3. CASE state[t] # "LOCK_WAIT"
        BY <2>1, <3>2, <3>3, QueuedSame
      <3>4. CASE state[t] = "LOCK_WAIT"
        <4>1. t \in Queued
          BY <1>0, <3>4 DEF Queued, Waiters, QueuesRight
        <4>2. \A u \in Thread : state'[u] = "LOCK_WAIT" <=> (state[u] = "LOCK_WAIT" /\ u # t)
          BY <3>2
        <4>3. F!GiveUp(t)
          BY <2>1, <4>1, <4>2, QueuedLeft DEF F!GiveUp, F!Leave
        <4> QED  BY <4>3 DEF F!Next
      <3> QED  BY <3>3, <3>4
    <2> QED  BY <2>2, <2>3
  <1>8. CASE LockReturn
    <2>1. /\ running # Idle /\ lock' \in Unlinked(lock, running)
          /\ state' = state /\ owner' = owner
      BY <1>8 DEF LockReturn, sched
    <2>2. running \in Thread /\ state[running] = "RUNNING"
      BY <1>00, <2>1
    <2>3. lock \in Seq(Thread) /\ IsInjective(lock) /\ ToSet(lock) \subseteq Thread
      BY <1>0 DEF TypeOK, QueuesRight, ToSet
    <2>4. ToSet(lock') = ToSet(lock) \ {running}
      BY <2>1, <2>3, UnlinkedElems
    <2>5. Queued' = Queued /\ Queued \subseteq Thread \ {running}
      BY <2>1, <2>2, <2>3, <2>4 DEF Queued, Waiters
    <2>6. \A t, u \in Queued : Before(lock', t, u) <=> Before(lock, t, u)
      BY <2>1, <2>3, <2>5, BeforeUnlinked
    <2>7. QueuedBefore' = {e \in Queued' \X Queued' : Before(lock', e[1], e[2])}
      BY DEF QueuedBefore, Before
    <2>8. QueuedBefore' = QueuedBefore
      BY <2>5, <2>6, <2>7 DEF QueuedBefore
    <2> QED  BY <2>1, <2>5, <2>8
  <1>9. ASSUME NEW late \in Lines, CheckClock(late)
        PROVE  UNCHANGED <<owner, Queued, QueuedBefore>>
    <2>1. /\ ToSet(late) \subseteq armed /\ lock' = lock /\ owner' = owner
          /\ Schedule(late, [t \in Thread |-> IF t \in ToSet(late) THEN "RUNNABLE" ELSE state[t]])
      BY <1>9 DEF CheckClock
    <2>2. \A t \in ToSet(late) : state[t] # "LOCK_WAIT"
      BY <1>0, <2>1 DEF ArmedRight
    <2>3. late \in Seq(Thread)
      BY <1>9, LinesType
    <2>4. \A t \in Thread : IF t \in ToSet(late) THEN state'[t] \in Awake ELSE state'[t] = state[t]
      <3>1. CASE late = <<>>
        BY <2>1, <3>1, EmptyElems DEF Schedule
      <3>2. CASE late # <<>>
        <4>1. Head(late) \in ToSet(late) /\ Head(late) \in Thread
          BY <2>3, <3>2, TailElems
        <4> QED  BY <2>1, <3>2, <4>1 DEF Schedule, Awake
      <3> QED  BY <3>1, <3>2
    <2>5. \A t \in Thread : state'[t] = "LOCK_WAIT" <=> state[t] = "LOCK_WAIT"
      BY <2>2, <2>4 DEF Awake
    <2> QED  BY <2>1, <2>5, QueuedSame
  <1> QED
    BY <1>1, <1>2, <1>3, <1>4, <1>5, <1>6, <1>7, <1>8, <1>9 DEF Next, Call, Return

\* st_mutex_lock and st_mutex_unlock hand the mutex to who has waited longest, at
\* once, though threads that were interrupted stay linked in its queue: StSync
\* implements FifoLock.
THEOREM MutexIsFifo == Spec => ImplementsFifoLock
  <1>1. Init => F!Init
    <2> SUFFICES ASSUME Init PROVE F!Init
      OBVIOUS
    <2>1. lock = <<>> /\ owner = None
      BY DEF Init
    <2>2. Queued = {}
      BY <2>1, EmptyElems DEF Queued, Waiters
    <2> QED  BY <2>1, <2>2 DEF F!Init, QueuedBefore
  <1> QED  BY <1>1, InitIInv, NextIInv, StepRefines, PTL DEF Spec, ImplementsFifoLock, F!Spec
===============================================================================
