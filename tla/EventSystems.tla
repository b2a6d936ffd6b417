----------------------------- MODULE EventSystems -----------------------------
(***************************************************************************)
(* The event systems of 3rdpart/st-1.9/event.c that there are on Linux,    *)
(* select, poll and epoll, of which st_set_eventsys takes one before       *)
(* st_init and for good.  All of them serve the same st_poll.              *)
(***************************************************************************)
EXTENDS StSelect

CONSTANTS
    Systems,             \* those that may be chosen
    MinPollfds, Spare,   \* of StPollSys
    Scarce, Below        \* of StEpoll

VARIABLES
    eventsys,                               \* _st_eventsys
    fdcnt, size,                            \* of StPollSys
    evtlist_cnt, epset, epfd, forked, hup, missed   \* of StEpoll, which shares cnt

P == INSTANCE StPollSys
E == INSTANCE StEpoll

ASSUME SystemsAssumption == Systems \subseteq {"select", "poll", "epoll"}
ASSUME PollSysSizes == P!PollSysAssumption
ASSUME EpollSizes == E!EpollAssumption

evars == <<evtlist_cnt, epset, epfd, forked, hup, missed>>
all == <<eventsys, vars, fdcnt, size, evars>>

\* st_set_eventsys takes "alternative" for epoll.
SetEventsys == eventsys \in Systems /\ Init /\ P!Init /\ E!Init

Selects == eventsys = "select" /\ Next /\ UNCHANGED <<eventsys, fdcnt, size, evars>>
Polls == eventsys = "poll" /\ P!Next /\ UNCHANGED <<eventsys, sel, evars>>
Epolls == eventsys = "epoll" /\ E!Next /\ UNCHANGED <<eventsys, fdset, maxfd, raw, fdcnt, size>>

AnySystem == SetEventsys /\ [][Selects \/ Polls \/ Epolls]_all

-----------------------------------------------------------------------------
\* StSelect: counts, bits and the highest descriptor follow the I/O queue, and no
\* descriptor somebody waits on is closed through the library.
SelectsRight == eventsys = "select" => SelectRight

\* StPollSys: the counted length is that of the array, which is grown in time.
PollsRight == eventsys = "poll" => P!PollRight

\* StEpoll: the kernel watches exactly what the I/O queue asks for, and the list
\* for epoll_wait is long enough, until a request is refused after a fork.
EpollsRight == eventsys = "epoll" => E!EpollRight

\* A turn of the idle thread on select or poll wakes whom it must, tells it what
\* of its request is ready, and wakes nobody else.
TurnsExact ==
    [][/\ eventsys = "select" => ExactTurn
       /\ eventsys = "poll" => P!ExactTurn]_all

\* A turn of the idle thread on epoll does the same, with hang-ups reported too,
\* while no request has been refused after a fork.
EpollTurnsExact == [][eventsys = "epoll" => E!ExactTurn]_all
===============================================================================
