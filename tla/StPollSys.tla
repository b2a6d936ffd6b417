------------------------------- MODULE StPollSys -------------------------------
(***************************************************************************)
(* The poll event system of State Threads (3rdpart/st-1.9/event.c): the    *)
(* requests on the I/O queue are copied one after the other into an array  *)
(* whose length fdcnt is counted apart; the results are found again by     *)
(* walking the queue and the array side by side.                           *)
(***************************************************************************)
EXTENDS StPoll

CONSTANTS
    MinPollfds,   \* ST_MIN_POLLFDS_SIZE
    Spare         \* the room a new array has beyond what is needed, 10

PollSysAssumption == MinPollfds \in Nat /\ Spare \in Nat

VARIABLES
    fdcnt,   \* _ST_POLL_OSFD_CNT
    size     \* _ST_POLLFDS_SIZE

ps == <<fdcnt, size>>
vars == <<base, ps>>

\* Type invariant; the count of array entries is never negative.
TypeOK ==
    /\ BaseTypeOK
    /\ fdcnt \in Nat /\ size \in Nat

\* _st_poll_init.
Init == BaseInit /\ fdcnt = 0 /\ size = MinPollfds

\* _st_poll_pollset_add under st_poll.
Poll(r, timed) ==
    /\ \A i \in DOMAIN r : r[i].events # {}
    /\ Enqueue(r, timed)
    /\ fdcnt' = fdcnt + Len(r)
    /\ UNCHANGED size

\* Faulty variant: every return takes the request back, the one after an
\* event too.
ReturnTwice ==
    /\ PollReturn
    /\ fdcnt' = fdcnt - Len(pds[running])
    /\ UNCHANGED size

\* _st_poll_pollset_del under st_poll.
Return ==
    /\ PollReturn
    /\ fdcnt' = IF Contains(ioq, running) THEN fdcnt - Len(pds[running]) ELSE fdcnt
    /\ UNCHANGED size

\* The entries of the requests of the threads in S.
Entries(S) == UNION {{t} \X DOMAIN pds[t] : t \in S}

\* The place in the array before the entries of the i-th request on the queue.
Offset(i) == Cardinality(Entries({ioq[j] : j \in 1..i - 1}))

\* The array for poll: every entry of every request, in the order of the queue.
Gathered ==
    LET of(n) == CHOOSE i \in DOMAIN ioq : Offset(i) < n /\ n <= Offset(i + 1)
    IN  [n \in 1..Offset(Len(ioq) + 1) |-> pds[ioq[of(n)]][n - Offset(of(n))]]

\* What poll sets in an entry of the array: it looks at the first fdcnt ones.
Result(i) ==
    LET p == Gathered[i] IN
    IF i > fdcnt THEN {}
    ELSE IF p.fd \notin open THEN {<<p.fd, "nval">>}
    ELSE ({p.fd} \X p.events) \cap ready

\* Faulty variant: the place in the array moves on only past the requests that
\* are taken off the queue.
OffsetOfWoken(i) ==
    LET woken == {j \in 1..i - 1 : \E k \in 1..Len(pds[ioq[j]]) : Result(Offset(j) + k) # {}}
    IN  Cardinality(Entries({ioq[j] : j \in woken}))

Place(i) == Offset(i)

Reported(i) == UNION {Result(Place(i) + k) : k \in DOMAIN pds[ioq[i]]}

\* The array is replaced by a larger one when the count outgrows it.
Grown == IF fdcnt > size THEN fdcnt + Spare ELSE size

\* _st_poll_dispatch, then _st_vp_check_clock.
Dispatch(late) ==
    LET hit == {i \in DOMAIN ioq : Reported(i) # {}}
        at(t) == CHOOSE i \in DOMAIN ioq : ioq[i] = t
    IN  /\ Turn({ioq[i] : i \in hit},
                [t \in Thread |-> IF Contains(ioq, t) THEN Reported(at(t)) ELSE {}], late)
        /\ size' = Grown
        /\ fdcnt' = fdcnt - Cardinality(Entries({ioq[i] : i \in hit}))

\* poll fails with EINTR: only the clock is looked at.
Eintr(late) == Turn({}, revents, late) /\ size' = Grown /\ UNCHANGED fdcnt

\* _st_poll_fd_close has nothing to check: any descriptor may be closed.
NetfdClose(fd) == CloseFd(fd) /\ UNCHANGED ps

Next ==
    \/ \E r \in Request, timed \in BOOLEAN : Poll(r, timed)
    \/ PollInterrupted /\ UNCHANGED ps
    \/ \E t \in Thread : Interrupt(t) /\ UNCHANGED ps
    \/ Return
    \/ \E late \in Lines : Dispatch(late) \/ Eintr(late)
    \/ \E fd \in Fd : NetfdClose(fd)
    \/ Environment /\ UNCHANGED ps

Spec == Init /\ [][Next]_vars

-----------------------------------------------------------------------------
\* The count is the number of entries on the I/O queue: one less and poll is
\* blind for the last request, one more and it reads what an earlier turn left.
CountRight == fdcnt = Len(Gathered)

\* The copy never runs over the end of the array the turn works on.
ArrayLargeEnough == running = Idle => Len(Gathered) <= Grown

\* A turn that looks at events wakes every thread one of whose descriptors is
\* ready or closed, tells it exactly that, and wakes nobody else but for a
\* timeout.
ExactTurn ==
    \/ \A t \in ToSet(ioq) :
         LET hit == {p \in Asked(pds[t]) \cap ready : p[1] \in open}
                      \cup (FdsOf(pds[t]) \ open) \X {"nval"}
         IN  /\ (t \in ToSet(ioq')) = (hit = {})
             /\ hit # {} => revents'[t] = hit
    \/ ~\E late \in Lines : Dispatch(late)

\* The counted length is that of the array that is gathered, which is grown in
\* time.
PollRight == TypeOK /\ InOnePlace /\ CountRight /\ ArrayLargeEnough
================================================================================
