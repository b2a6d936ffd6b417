-------------------------------- MODULE StEpoll --------------------------------
(***************************************************************************)
(* The epoll event system of State Threads (3rdpart/st-1.9/event.c):       *)
(* reference counts per descriptor mirrored into the kernel's epoll set,   *)
(* entry by entry, with epoll_ctl calls that can fail, an undo when they   *)
(* do, a deferred update for descriptors that have just fired, and a new   *)
(* epoll set after a fork.                                                 *)
(***************************************************************************)
EXTENDS StPoll

CONSTANTS
    Scarce,   \* external: the descriptors the kernel may have no room for
    Below     \* bound: after a miss, requests are made while all counts are above -Below

EpollAssumption == Scarce \subseteq Fd /\ Below \in Nat

VARIABLES
    cnt,          \* the reference counts of fd_data
    evtlist_cnt,  \* how many descriptors the library thinks are registered
    epset,        \* external: the kernel's epoll set, the events of a descriptor
    epfd,         \* there is an epoll descriptor; epoll_create may fail
    forked,       \* the pid is not the one that made the epoll set
    hup,          \* external: the descriptors with EPOLLHUP or EPOLLERR
    missed        \* history: the threads whose requests could not be put into the
                  \* epoll set that was made after the last fork

ep == <<cnt, evtlist_cnt, epset, epfd, forked, hup, missed>>
vars == <<base, ep>>

\* Type invariant.
TypeOK ==
    /\ BaseTypeOK
    /\ cnt \in [Pair -> Int]
    /\ evtlist_cnt \in Int
    /\ epset \in [Fd -> SUBSET (Event \cup {"err"})]
    /\ missed \subseteq Thread
    /\ epfd \in BOOLEAN /\ forked \in BOOLEAN
    /\ hup \subseteq Fd

\* _st_epoll_init.
Init ==
    /\ BaseInit
    /\ cnt = [p \in Pair |-> 0]
    /\ evtlist_cnt = 0
    /\ epset = [fd \in Fd |-> {}]
    /\ epfd = TRUE /\ forked = FALSE
    /\ hup = {} /\ missed = {}

-----------------------------------------------------------------------------
(* The operations work on a record s of the counts c, the kernel's set k,   *)
(* evtlist_cnt n, and whether there is an epoll descriptor f.  The kernel   *)
(* reports "err" of every descriptor that is registered, asked for or not.  *)

Es == [c |-> cnt, k |-> epset, n |-> evtlist_cnt, f |-> epfd]

\* _ST_EPOLL_EVENTS.
EventsOf(c, fd) == {e \in Event : c[<<fd, e>>] # 0}

\* What the kernel watches if it is told of the events ev; if there are none the
\* descriptor is deleted.
Mask(ev) == IF ev = {} THEN {} ELSE ev \cup {"err"}

\* epoll_ctl succeeds on an open descriptor that is registered (MOD, DEL) or
\* is not (ADD).
CtlOk(s, fd, registered) == s.f /\ fd \in open /\ (s.k[fd] # {}) = registered

Count(c, p, d) == [q \in Pair |-> IF q[1] = p.fd /\ q[2] \in p.events THEN c[q] + d ELSE c[q]]

\* One entry of _st_epoll_pollset_del; fired holds the descriptors whose
\* _ST_EPOLL_REVENTS is not zero, those are updated at the end of dispatch.
DelOne(s, p, fired) ==
    LET c == Count(s.c, p, -1)
        old == EventsOf(s.c, p.fd)
        new == EventsOf(c, p.fd)
        ctl == new # old /\ p.fd \notin fired /\ CtlOk(s, p.fd, TRUE)
    IN  [c |-> c, f |-> s.f,
         k |-> IF ctl THEN [s.k EXCEPT ![p.fd] = Mask(new)] ELSE s.k,
         n |-> IF ctl /\ new = {} THEN s.n - 1 ELSE s.n]

\* The state after each entry of the request r; after all of them; and after the
\* requests of all threads in q.
DelTurns(s, r, fired) ==
    LET at[i \in 0..Len(r)] == IF i = 0 THEN s ELSE DelOne(at[i - 1], r[i], fired) IN at
DelAll(s, r, fired) == DelTurns(s, r, fired)[Len(r)]
DelThreads(s, q, fired) ==
    LET at[i \in 0..Len(q)] == IF i = 0 THEN s ELSE DelAll(at[i - 1], pds[q[i]], fired) IN at

\* One entry of _st_epoll_pollset_add; b is set when epoll_ctl fails for any
\* reason but EEXIST, and the entries after that are left alone.  The kernel
\* may have no room for a new descriptor (ENOMEM, ENOSPC): those in full.
AddOne(u, p, full) ==
    LET s == u.s
        c == Count(s.c, p, 1)
        old == EventsOf(s.c, p.fd)
        new == EventsOf(c, p.fd)
        add == old = {}
        ok == CtlOk(s, p.fd, ~add) /\ (add => p.fd \notin full)
        exists == add /\ s.f /\ p.fd \in open /\ s.k[p.fd] # {}
        failed == new # old /\ ~ok /\ ~exists
    IN  IF u.b THEN u
        ELSE [s |-> [c |-> c, f |-> s.f,
                     k |-> IF new # old /\ ok THEN [s.k EXCEPT ![p.fd] = new \cup {"err"}] ELSE s.k,
                     n |-> IF new # old /\ add /\ ~failed THEN s.n + 1 ELSE s.n],
              i |-> u.i + 1, b |-> failed]

AddTurns(s, r, full) ==
    LET at[i \in 0..Len(r)] ==
            IF i = 0 THEN [s |-> s, i |-> 0, b |-> FALSE] ELSE AddOne(at[i - 1], r[i], full)
    IN  at
Added(s, r, full) == AddTurns(s, r, full)[Len(r)]

\* The entries up to the failing one are taken back.
Undo(u, r) == DelAll(u.s, SubSeq(r, 1, u.i), {})

Store(s) == cnt' = s.c /\ epset' = s.k /\ evtlist_cnt' = s.n

-----------------------------------------------------------------------------
\* Bound: a request that is missed leaves the counts wrong up to the next fork,
\* and they are followed no further than this.
Followed == missed # {} => \A p \in Pair : cnt[p] > -Below

\* st_poll on the epoll system.
Poll(r, timed) ==
    LET u == Added(Es, r, {}) IN
    /\ Followed
    /\ \A i \in DOMAIN r : r[i].events # {}
    /\ ~u.b
    /\ Enqueue(r, timed)
    /\ Store(u.s)
    /\ UNCHANGED <<epfd, forked, hup, missed>>

\* st_poll fails: one of the descriptors cannot be registered.
PollFails(r, full) ==
    LET u == Added(Es, r, full) IN
    /\ Followed
    /\ InUser
    /\ running \notin interrupt
    /\ u.b
    /\ Store(Undo(u, r))
    /\ UNCHANGED <<base, epfd, forked, hup, missed>>

Return ==
    /\ PollReturn
    /\ IF Contains(ioq, running) THEN Store(DelAll(Es, pds[running], {}))
                                 ELSE Store(Es)
    /\ UNCHANGED <<epfd, forked, hup, missed>>

\* Faulty variant: descriptors that fired and are still of interest to someone
\* keep the events they were registered with.
SettleLazy(s, fired) ==
    LET done == {fd \in fired : CtlOk(s, fd, TRUE) /\ EventsOf(s.c, fd) = {}}
    IN  [c |-> s.c, f |-> s.f,
         k |-> [fd \in Fd |-> IF fd \in done THEN {} ELSE s.k[fd]],
         n |-> s.n - Cardinality(done)]

\* The descriptors that fired are modified or deleted at the end of dispatch.
Settle(s, fired) ==
    LET ctl == {fd \in fired : CtlOk(s, fd, TRUE)}
    IN  [c |-> s.c, f |-> s.f,
         k |-> [fd \in Fd |-> IF fd \in ctl THEN Mask(EventsOf(s.c, fd)) ELSE s.k[fd]],
         n |-> s.n - Cardinality({fd \in ctl : EventsOf(s.c, fd) = {}})]

\* Faulty variant: a hang-up is told to nobody, only the events it comes with.
FiresSilently(s, fd) ==
    LET seen == s.k[fd] \cap {e \in Event : <<fd, e>> \in ready}
    IN  IF s.k[fd] # {} /\ fd \in hup THEN EventsOf(s.c, fd) \cup seen ELSE seen

\* _ST_EPOLL_REVENTS, from the kernel's set k and the counts c.
Fires(s, fd) ==
    LET seen == s.k[fd] \cap {e \in Event : <<fd, e>> \in ready}
    IN  IF s.k[fd] # {} /\ fd \in hup THEN EventsOf(s.c, fd) \cup seen \cup {"err"} ELSE seen

\* A fresh epoll set with the requests on the I/O queue.  Nobody looks at the
\* result of _st_epoll_pollset_add here: a request that cannot be registered
\* stays on the queue, uncounted.
Fresh == [c |-> [p \in Pair |-> 0], k |-> [fd \in Fd |-> {}], n |-> 0, f |-> TRUE]
Readded(s, r, full) ==
    LET u == Added(s, r, full) IN IF u.b THEN Undo(u, r) ELSE u.s
AddThreads(s, q, full) ==
    LET at[i \in 0..Len(q)] ==
            IF i = 0 THEN s ELSE Readded(at[i - 1], pds[q[i]], full[q[i]])
    IN  at
Reinit(full) == AddThreads(Fresh, ioq, full)[Len(ioq)]
Refused(full) ==
    {ioq[i] : i \in {j \in DOMAIN ioq :
        Added(AddThreads(Fresh, ioq, full)[j - 1], pds[ioq[j]], full[ioq[j]]).b}}

\* epoll_wait and the rest of _st_epoll_dispatch from the state s, then
\* _st_vp_check_clock.
Report(s, late) ==
    LET fired == {fd \in Fd : Fires(s, fd) # {}}
        told(t) == UNION {({pds[t][i].fd} \X ((pds[t][i].events \cup {"err"}) \cap Fires(s, pds[t][i].fd)))
                            : i \in DOMAIN pds[t]}
        hit == {t \in ToSet(ioq) : told(t) # {}}
        q == Among(ioq, hit)
        gone == DelThreads(s, q, fired)[Len(q)]
    IN  /\ Turn(hit, [t \in Thread |-> told(t)], late)
        /\ Store(Settle(gone, fired))

\* _st_epoll_dispatch.
Dispatch(late) ==
    /\ ~forked
    /\ Report(Es, late)
    /\ UNCHANGED <<epfd, forked, hup, missed>>

\* The epoll set belongs to another process: dispatch makes a new one with the
\* requests on the queue, and then waits.
DispatchForked(full) ==
    /\ running = Idle
    /\ forked
    /\ epfd' = TRUE /\ forked' = FALSE
    /\ Store(Reinit(full))
    /\ missed' = Refused(full)
    /\ UNCHANGED <<base, hup>>

\* epoll_create fails: dispatch returns, and tries again in the next turn.
ForkedFails ==
    /\ running = Idle
    /\ forked
    /\ epfd' = FALSE
    /\ epset' = [fd \in Fd |-> {}]
    /\ UNCHANGED <<base, cnt, evtlist_cnt, forked, hup, missed>>

\* A turn without events: epoll_wait was interrupted or there is no epoll set;
\* only the clock is looked at.
ClockOnly(late) == Turn({}, revents, late) /\ UNCHANGED ep

\* st_netfd_close after _st_epoll_fd_close: EBUSY while a request counts.  The
\* kernel drops a closed descriptor from the set.
NetfdClose(fd) ==
    /\ \A e \in Event : cnt[<<fd, e>>] = 0
    /\ CloseFd(fd)
    /\ epset' = [epset EXCEPT ![fd] = {}]
    /\ hup' = hup \ {fd}
    /\ UNCHANGED <<cnt, evtlist_cnt, epfd, forked, missed>>

\* External: a new connection gets the number of a closed descriptor.
Reopen(fd) ==
    /\ InUser
    /\ fd \notin open
    /\ open' = open \cup {fd}
    /\ UNCHANGED <<sched, pc, ioq, pds, revents, armed, interrupt, ready, ep>>

\* External: the program forks; this is the child, with the epoll set shared.
Fork ==
    /\ InUser
    /\ forked' = TRUE
    /\ UNCHANGED <<base, cnt, evtlist_cnt, epset, epfd, hup, missed>>

\* External: a peer hangs up.
HangUp(fd) ==
    /\ fd \in open \ hup
    /\ hup' = hup \cup {fd}
    /\ UNCHANGED <<base, cnt, evtlist_cnt, epset, epfd, forked, missed>>

Next ==
    \/ \E r \in Request :
          \/ \E full \in SUBSET Scarce : PollFails(r, full)
          \/ \E timed \in BOOLEAN : Poll(r, timed)
    \/ PollInterrupted /\ UNCHANGED ep
    \/ \E t \in Thread : Interrupt(t) /\ UNCHANGED ep
    \/ Return
    \/ \E full \in [ToSet(ioq) -> SUBSET Scarce] : DispatchForked(full)
    \/ ForkedFails
    \/ \E late \in Lines : Dispatch(late) \/ ClockOnly(late)
    \/ \E fd \in Fd : NetfdClose(fd) \/ Reopen(fd) \/ HangUp(fd)
    \/ Environment /\ UNCHANGED ep
    \/ Fork

Spec == Init /\ [][Next]_vars

-----------------------------------------------------------------------------
\* The counts are those of the requests on the I/O queue and the kernel watches
\* exactly what they ask for if there is an epoll set: through failed
\* registrations and their undo, descriptors that fire for one of several
\* threads, and a fork.
KernelMatches ==
    /\ \A p \in Pair : cnt[p] = NumOf(ToSet(ioq), p)
    /\ epfd => \A fd \in Fd : epset[fd] = Mask(EventsOf(cnt, fd))

\* The list for epoll_wait has room for every registered descriptor.
ListLargeEnough == epfd => evtlist_cnt = Cardinality({fd \in Fd : epset[fd] # {}})

\* A turn wakes every thread one of whose descriptors is ready or hung up,
\* tells it exactly that, and wakes nobody else but for a timeout; unless a
\* request was missed after a fork.
ExactTurn ==
    \/ \A t \in ToSet(ioq) :
         LET dead == FdsOf(pds[t]) \cap hup
             hit == (Asked(pds[t]) \cap ready)
                      \cup {p \in Asked(pds[t]) : p[1] \in dead} \cup dead \X {"err"}
         IN  /\ (t \in ToSet(ioq')) = (hit = {})
             /\ hit # {} => revents'[t] = hit
    \/ missed # {}
    \/ ~\E late \in Lines : Dispatch(late)

\* The kernel watches exactly what the I/O queue asks for, and the list that
\* epoll_wait fills is long enough, after failed registrations and a fork, too;
\* unless the kernel had no room for a request that was to be registered again
\* after a fork.  From then on counts and kernel go wrong, up to the next fork
\* after which all requests can be registered.
EpollRight == TypeOK /\ InOnePlace /\ (missed = {} => KernelMatches /\ ListLargeEnough)
================================================================================
