----------------------------- MODULE TimeoutHeap -----------------------------
(***************************************************************************)
(* The timeout heap of State Threads (3rdpart/st-1.9/sched.c): a binary    *)
(* heap of the threads that sleep or wait with a timeout, ordered by due   *)
(* time.  The tree of left and right pointers is a sequence here: the      *)
(* children of position i are 2i and 2i+1, which is how the code numbers   *)
(* heap_index and finds the last element from _ST_SLEEPQ_SIZE.             *)
(*                                                                         *)
(* The clock is gettimeofday, so a look at it may show an earlier time     *)
(* than the one before.                                                    *)
(***************************************************************************)
EXTENDS Naturals, Sequences, FiniteSets, SequencesExt

CONSTANTS
    Thread,    \* the coroutines
    Timeout,   \* the timeouts they sleep or wait with
    MaxClock   \* bound: the last time the clock shows

HeapAssumption ==
    IsFiniteSet(Thread) /\ Timeout \subseteq Nat /\ MaxClock \in Nat

VARIABLES
    sleepq,      \* _ST_SLEEPQ, the tree by position
    heap_index,  \* thread->heap_index, 0 for a thread that is not in the heap
    due,         \* thread->due, 0 for a thread that is not in the heap
    last_clock,  \* _ST_LAST_CLOCK
    woken,       \* the threads the last step's look at the clock queued to run
    dozing,      \* history: the threads that armed the timeout 0 since the last
                 \* look at the clock and are still in the heap, oldest first
    calm         \* history: no such thread was interrupted since then

vars == <<sleepq, heap_index, due, last_clock, woken, dozing, calm>>

Position == 1..Cardinality(Thread)

\* Type invariant.
TypeOK ==
    /\ sleepq \in Seq(Thread) /\ Len(sleepq) <= Cardinality(Thread)
    /\ heap_index \in [Thread -> {0} \cup Position]
    /\ due \in [Thread -> Nat]
    /\ last_clock \in 0..MaxClock
    /\ woken \in Seq(Thread)
    /\ dozing \in Seq(Thread)
    /\ calm \in BOOLEAN

-----------------------------------------------------------------------------
(* The heap operations work on a heap q and the threads' indices ix.        *)

\* The positions from the root to i, i left out.
Above[i \in Nat] == IF i <= 1 THEN <<>> ELSE Append(Above[i \div 2], i \div 2)

\* Faulty variant: an equal due time displaces too.
HeapInsertTies(q, ix, t, dueOf) ==
    LET target == ix[t]
        Step(s, i) == IF dueOf[s.t] <= dueOf[s.q[i]]
                      THEN [q |-> [s.q EXCEPT ![i] = s.t],
                            ix |-> [s.ix EXCEPT ![s.t] = i], t |-> s.q[i]]
                      ELSE s
        end == FoldLeft(Step, [q |-> q, ix |-> ix, t |-> t], Above[target])
    IN  [q |-> [i \in DOMAIN q \cup {target} |-> IF i = target THEN end.t ELSE end.q[i]],
         ix |-> [end.ix EXCEPT ![end.t] = target]]

\* heap_insert: t goes to the position ix[t]; on the way from the root it
\* takes the place of the first thread that is due later, which goes on.
HeapInsert(q, ix, t, dueOf) ==
    LET target == ix[t]
        Step(s, i) == IF dueOf[s.t] < dueOf[s.q[i]]
                      THEN [q |-> [s.q EXCEPT ![i] = s.t],
                            ix |-> [s.ix EXCEPT ![s.t] = i], t |-> s.q[i]]
                      ELSE s
        end == FoldLeft(Step, [q |-> q, ix |-> ix, t |-> t], Above[target])
    IN  [q |-> [i \in DOMAIN q \cup {target} |-> IF i = target THEN end.t ELSE end.q[i]],
         ix |-> [end.ix EXCEPT ![end.t] = target]]

\* The child that is due first, the right one if they are due together.
YoungerChild(q, i) ==
    IF 2 * i + 1 > Len(q) \/ due[q[2 * i]] < due[q[2 * i + 1]] THEN 2 * i ELSE 2 * i + 1

Swap(h, i, j) ==
    [q |-> [h.q EXCEPT ![i] = h.q[j], ![j] = h.q[i]],
     ix |-> [h.ix EXCEPT ![h.q[i]] = j, ![h.q[j]] = i]]

\* A tree and the indices of its threads; a tree and what was taken off its root.
Tree == [q : Seq(Thread), ix : [Thread -> {0} \cup Position]]
Drained == [q : Seq(Thread), ix : [Thread -> {0} \cup Position], out : Seq(Thread)]

\* The loop that re-establishes the heap below position i.
SiftDown[h \in Tree, i \in Position] ==
    IF 2 * i > Len(h.q) THEN h
    ELSE LET y == YoungerChild(h.q, i)
         IN  IF due[h.q[i]] > due[h.q[y]] THEN SiftDown[Swap(h, i, y), y] ELSE h

\* Faulty variant: the last element takes the hole without being compared
\* with the threads above it.
HeapDeleteNoRaise(q, ix, t) ==
    LET last == q[Len(q)]
        short == SubSeq(q, 1, Len(q) - 1)
        hole == ix[t]
    IN  IF last = t THEN [q |-> short, ix |-> [ix EXCEPT ![t] = 0]]
        ELSE SiftDown[[q |-> [short EXCEPT ![hole] = last],
                       ix |-> [ix EXCEPT ![last] = hole, ![t] = 0]], hole]

\* heap_delete: the last element goes into the hole t leaves, up or down from
\* there.  (heap_index of the deleted thread is dead and read as 0.)
HeapDelete(q, ix, t) ==
    LET last == q[Len(q)]
        short == SubSeq(q, 1, Len(q) - 1)
        hole == ix[t]
        raised == HeapInsert(short, [ix EXCEPT ![last] = hole, ![t] = 0], last, due)
    IN  IF last = t THEN [q |-> short, ix |-> [ix EXCEPT ![t] = 0]]
        ELSE SiftDown[raised, hole]

\* The loop of _st_vp_check_clock: the root leaves as long as it is due.
Drain[h \in Drained, now \in Nat] ==
    IF h.q = <<>> \/ due[h.q[1]] > now THEN h
    ELSE LET g == HeapDelete(h.q, h.ix, h.q[1])
         IN  Drain[[q |-> g.q, ix |-> g.ix, out |-> Append(h.out, h.q[1])], now]

Asleep == {t \in Thread : heap_index[t] # 0}

-----------------------------------------------------------------------------
Init ==
    /\ sleepq = <<>>
    /\ heap_index = [t \in Thread |-> 0]
    /\ due = [t \in Thread |-> 0]
    /\ last_clock = 0
    /\ woken = <<>>
    /\ dozing = <<>>
    /\ calm = TRUE

\* _st_add_sleep_q: st_usleep, st_poll or a timed wait by a running thread.
AddSleepQ(t, timeout) ==
    LET dueOf == [due EXCEPT ![t] = last_clock + timeout]
        h == HeapInsert(sleepq, [heap_index EXCEPT ![t] = Len(sleepq) + 1], t, dueOf)
    IN  /\ t \notin Asleep
        /\ due' = dueOf
        /\ sleepq' = h.q
        /\ heap_index' = h.ix
        /\ dozing' = IF timeout = 0 THEN Append(dozing, t) ELSE dozing
        /\ woken' = <<>>
        /\ UNCHANGED <<last_clock, calm>>

\* _st_del_sleep_q: t's descriptor is ready, its condition is signalled or it
\* is interrupted.
DelSleepQ(t) ==
    LET h == HeapDelete(sleepq, heap_index, t)
    IN  /\ t \in Asleep
        /\ sleepq' = h.q
        /\ heap_index' = h.ix
        /\ due' = [due EXCEPT ![t] = 0]
        /\ dozing' = SelectSeq(dozing, LAMBDA u : u # t)
        /\ calm' = (calm /\ ~Contains(dozing, t))
        /\ woken' = <<>>
        /\ UNCHANGED last_clock

\* Faulty variant: a thread that is due at this very moment stays.
CheckClockStrict(now) ==
    LET h == Drain[[q |-> sleepq, ix |-> heap_index, out |-> <<>>],
                   IF now = 0 THEN 0 ELSE now - 1]
    IN  /\ last_clock' = now
        /\ sleepq' = h.q
        /\ heap_index' = h.ix
        /\ due' = [t \in Thread |-> IF h.ix[t] = 0 THEN 0 ELSE due[t]]
        /\ woken' = h.out
        /\ dozing' = <<>>
        /\ calm' = TRUE

\* _st_vp_check_clock.
CheckClock(now) ==
    LET h == Drain[[q |-> sleepq, ix |-> heap_index, out |-> <<>>], now]
    IN  /\ last_clock' = now
        /\ sleepq' = h.q
        /\ heap_index' = h.ix
        /\ due' = [t \in Thread |-> IF h.ix[t] = 0 THEN 0 ELSE due[t]]
        /\ woken' = h.out
        /\ dozing' = <<>>
        /\ calm' = TRUE

Next ==
    \/ \E t \in Thread : DelSleepQ(t) \/ \E d \in Timeout : AddSleepQ(t, d)
    \/ \E now \in 0..MaxClock : CheckClock(now)

Spec == Init /\ [][Next]_vars

-----------------------------------------------------------------------------
\* heap_index is the thread's position: heap_delete finds the hole by it, so
\* one stale index and it removes another thread's timeout.
IndexRight ==
    /\ \A i \in DOMAIN sleepq : heap_index[sleepq[i]] = i
    /\ \A t \in Asleep : sleepq[heap_index[t]] = t

\* After every insertion and every removal from the middle no thread is due
\* before the one above it, whichever way the replacement had to move.
HeapOrder ==
    \A i \in DOMAIN sleepq : i > 1 => due[sleepq[i \div 2]] <= due[sleepq[i]]

\* The threads that called st_usleep(0) wake at the next look at a clock that
\* was not set back, before everything with a later due time, and the one
\* that has slept longest runs first (interrupted ones aside, the server never
\* interrupts): the order the push loop of Relay relies on.
OldestFirst ==
    [][(\E now \in 0..MaxClock : CheckClock(now)) =>
         (dozing # <<>> /\ last_clock' >= last_clock =>
            /\ calm => woken'[1] = dozing[1]
            /\ {woken'[i] : i \in 1..Len(dozing)} = {dozing[i] : i \in DOMAIN dozing})]_vars

\* The armed threads are those with a heap index.
T == INSTANCE Timers WITH
        pending <- [t \in Asleep |-> due[t]], clock <- last_clock, Time <- 0..MaxClock

\* The heap implements the set of timers: every operation is the operation on
\* the set, and a look at the clock takes exactly the due threads in order.
ImplementsTimers == T!Spec

\* The pointer tree is a heap whose indices, links and size agree and in which
\* nobody is due before the thread above it, after every insertion and deletion.
HeapInv == TypeOK /\ IndexRight /\ HeapOrder
==============================================================================
