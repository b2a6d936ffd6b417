------------------------------- MODULE StSelect -------------------------------
(***************************************************************************)
(* The select event system of State Threads (3rdpart/st-1.9/event.c), the  *)
(* one the server runs on: reference counts and bit sets per descriptor,   *)
(* and the highest descriptor of interest, beyond which select is blind.   *)
(***************************************************************************)
EXTENDS StPoll

CONSTANT FdSetSize   \* FD_SETSIZE: descriptors from here on are refused

VARIABLES
    cnt,     \* fd_ref_cnts
    fdset,   \* the bits of fd_read_set and fd_write_set
    maxfd,   \* the highest descriptor of interest, -1 for none
    raw      \* history: a descriptor was closed behind the library's back

sel == <<cnt, fdset, maxfd, raw>>
vars == <<base, sel>>

\* Type invariant; no reference count is negative.
TypeOK ==
    /\ BaseTypeOK
    /\ cnt \in [Pair -> Nat]
    /\ fdset \subseteq Pair
    /\ maxfd \in Fd \cup {-1}
    /\ raw \in BOOLEAN

MaxOf(S) == CHOOSE m \in S : \A x \in S : x <= m

\* _st_select_init.
Init ==
    /\ BaseInit
    /\ cnt = [p \in Pair |-> 0]
    /\ fdset = {}
    /\ maxfd = -1
    /\ raw = FALSE

\* _st_select_pollset_add.
PollsetAdd(r) ==
    /\ \A i \in DOMAIN r : r[i].fd < FdSetSize /\ r[i].events # {}
    /\ cnt' = [p \in Pair |-> cnt[p] + NumIn(r, p)]
    /\ fdset' = fdset \cup Asked(r)
    /\ maxfd' = MaxOf({maxfd} \cup FdsOf(r))

\* Faulty variant: the bit goes with the first request that is taken back.
PollsetDelClears(S) ==
    /\ cnt' = [p \in Pair |-> cnt[p] - NumOf(S, p)]
    /\ fdset' = {p \in fdset : NumOf(S, p) = 0}

\* _st_select_pollset_del, and the same lines in dispatch and find_bad_fd: the
\* requests of the threads in S are taken back.
PollsetDel(S) ==
    /\ cnt' = [p \in Pair |-> cnt[p] - NumOf(S, p)]
    /\ fdset' = {p \in fdset : NumOf(S, p) > 0 => cnt[p] - NumOf(S, p) # 0}

\* st_poll on the select system.
Poll(r, timed) == Enqueue(r, timed) /\ PollsetAdd(r) /\ UNCHANGED raw

Return ==
    /\ PollReturn
    /\ PollsetDel(ToSet(ioq) \cap {running})
    /\ UNCHANGED <<maxfd, raw>>

\* The events select reports, and the descriptors it fails on with EBADF.
Seen == {p \in fdset \cap ready : p[1] <= maxfd}

Bad == {p[1] : p \in {q \in fdset : q[1] <= maxfd}} \ open

\* _st_select_dispatch, then _st_vp_check_clock.
Dispatch(late) ==
    LET hit == {t \in ToSet(ioq) : Asked(pds[t]) \cap Seen # {}}
    IN  /\ Bad = {}
        /\ Turn(hit, [t \in Thread |-> Asked(pds[t]) \cap Seen], late)
        /\ IF Seen = {} THEN UNCHANGED sel
           ELSE /\ PollsetDel(hit)
                /\ maxfd' = MaxOf({-1} \cup UNION {FdsOf(pds[t]) : t \in ToSet(ioq) \ hit})
                /\ UNCHANGED raw

\* Faulty variant: EBADF is passed over like any other error.
FindBadFdNobody(late) == Bad # {} /\ Turn({}, revents, late) /\ UNCHANGED sel

\* select fails with EBADF: _st_select_find_bad_fd wakes the threads that wait
\* on a closed descriptor; nobody hears of events in this turn.
FindBadFd(late) ==
    LET hit == {t \in ToSet(ioq) : FdsOf(pds[t]) \ open # {}}
    IN  /\ Bad # {}
        /\ Turn(hit, [t \in Thread |-> (FdsOf(pds[t]) \ open) \X {"nval"}], late)
        /\ PollsetDel(hit)
        /\ maxfd' = MaxOf({-1} \cup UNION {FdsOf(pds[t]) : t \in ToSet(ioq) \ hit})
        /\ UNCHANGED raw

\* select fails with EINTR: only the clock is looked at.
Eintr(late) == Turn({}, revents, late) /\ UNCHANGED sel

\* st_netfd_close after _st_select_fd_close: EBUSY while a request counts.
NetfdClose(fd) ==
    /\ \A e \in Event : cnt[<<fd, e>>] = 0
    /\ CloseFd(fd)
    /\ UNCHANGED sel

\* A thread closes the OS descriptor behind the library's back.
RawClose(fd) == CloseFd(fd) /\ raw' = TRUE /\ UNCHANGED <<cnt, fdset, maxfd>>

\* The program opens what it polls.
Calls ==
    \/ \E r \in Request, timed \in BOOLEAN : FdsOf(r) \subseteq open /\ Poll(r, timed)
    \/ PollInterrupted /\ UNCHANGED sel
    \/ \E t \in Thread : Interrupt(t) /\ UNCHANGED sel
    \/ \E fd \in Fd : NetfdClose(fd)

Idles == \E late \in Lines : Dispatch(late) \/ FindBadFd(late) \/ Eintr(late)

Next ==
    \/ Calls \/ Return \/ Idles
    \/ Environment /\ UNCHANGED sel
    \/ \E fd \in Fd : RawClose(fd)

Spec == Init /\ [][Next]_vars

LooksAtEvents == \E late \in Lines : Dispatch(late) \/ FindBadFd(late)
PollsAgain == \E r \in Request : FdsOf(r) \subseteq open /\ Poll(r, TRUE)
ToldInterrupted == PollInterrupted /\ UNCHANGED sel

\* Signals do not interrupt every select, a thread that has been woken goes on, and
\* threads poll again rather than run for good.
FairSpec ==
    Spec /\ SF_vars(LooksAtEvents) /\ WF_vars(Return) /\ SF_vars(PollsAgain) /\ SF_vars(ToldInterrupted)

-----------------------------------------------------------------------------
\* The reference counts are those of the requests on the I/O queue, a bit is
\* set exactly if its count is not zero, and select sees all of them: over any
\* mixture of events, timeouts, interrupts and bad descriptors.
CountsRight ==
    /\ \A p \in Pair : cnt[p] = NumOf(ToSet(ioq), p)
    /\ fdset = {p \in Pair : cnt[p] > 0}
    /\ \A p \in fdset : p[1] <= maxfd

\* As long as descriptors are closed through st_netfd_close, no thread waits on a
\* closed one.
NeverBad == ~raw => \A t \in Waiting : FdsOf(pds[t]) \subseteq open

\* A turn that looks at events wakes every thread one of whose descriptors is
\* ready, tells it exactly what is ready of what it asked for, and wakes
\* nobody else but for a timeout.
ExactTurn ==
    \/ \A t \in ToSet(ioq) :
         LET hit == Asked(pds[t]) \cap ready
         IN  /\ (t \in ToSet(ioq')) = (hit = {})
             /\ hit # {} => revents'[t] = hit
    \/ ~\E late \in Lines : Dispatch(late)

\* A thread whose descriptor stays ready comes back from st_poll, whatever
\* the others do, closed descriptors included.
ReadyServed ==
    \A t \in Thread :
        (t \in Waiting /\ Asked(pds[t]) \cap ready # {})
            ~> (t \notin Waiting \/ Asked(pds[t]) \cap ready = {})

\* Every turn of the idle thread is exact.
SelectTurns == [][ExactTurn]_vars

\* Counts, bits and the highest descriptor follow the I/O queue, whatever wakes
\* and whatever interrupts the threads on it, and st_netfd_close closes nothing
\* somebody waits on.
SelectRight == TypeOK /\ InOnePlace /\ CountsRight /\ NeverBad
===============================================================================
