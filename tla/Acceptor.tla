-------------------------------- MODULE Acceptor --------------------------------
(***************************************************************************)
(* The server's start and its accept loop (server.cpp, main_server.cpp) on *)
(* st_accept and the descriptor objects of the State Threads library       *)
(* (3rdpart/st-1.9/io.c): a new connection takes a descriptor, a           *)
(* descriptor object, an entry of clients and a coroutine, and nothing     *)
(* gives the first three back.                                             *)
(***************************************************************************)
EXTENDS Integers, Sequences, FiniteSets, SequencesExt

CONSTANTS
    Conn,       \* the connections peers ever make
    Backlog,    \* the second argument of ::listen
    Rlimit,     \* rlim_max of RLIMIT_NOFILE, the standard descriptors not counted
    SetSize,    \* FD_SETSIZE, what the event system's fd_getlimit returns
    Accepting,  \* the coroutine of Server::accept
    Main,       \* the primordial thread
    Idle        \* the idle thread

AcceptorAssumption ==
    /\ IsFiniteSet(Conn) /\ Conn \cap {Accepting, Main, Idle, "halt"} = {}
    /\ Accepting \notin {Main, Idle, "halt"} /\ Main \notin {Idle, "halt"} /\ Idle # "halt"
    /\ Backlog \in Nat \ {0} /\ Rlimit \in Nat /\ SetSize \in Nat \ {0}

VARIABLES
    running,  \* the coroutine that has the processor, or "halt" after exit(0)
    runq,     \* _ST_RUNQ
    acc,      \* the accept loop: "none", "accept", "poll" or "sleep"
    queue,    \* the connections the kernel has for the listening socket
    open,     \* the open descriptors, a number each
    netfd,    \* the descriptor objects ever allocated: [osfd, inuse]
    freelist, \* _st_netfd_freelist, the last one freed first
    listener, \* Server::stfd, 0 when there is none
    clients,  \* Server::clients: from descriptor objects to connections
    thread,   \* per connection: "none", "new", "ready", "blocked" or "ended"
    met       \* the connections that were ever made

vars == <<running, runq, acc, queue, open, netfd, freelist, listener, clients, thread, met>>

Coroutine == Conn \cup {Accepting, Main}

\* Type invariant; the accept loop is runnable exactly while it is between two waits.
TypeOK ==
    /\ running \in Coroutine \cup {Idle, "halt"}
    /\ runq \in Seq(Coroutine)
    /\ acc \in {"none", "accept", "poll", "sleep"}
    /\ queue \in Seq(Conn) /\ Len(queue) <= Backlog
    /\ open \subseteq 0..Rlimit - 1
    /\ netfd \in Seq([osfd : 0..Rlimit, inuse : BOOLEAN])
    /\ freelist \in Seq(1..Len(netfd))
    /\ listener \in 0..Len(netfd)
    /\ DOMAIN clients \subseteq 1..Len(netfd) /\ Range(clients) \subseteq Conn
    /\ thread \in [Conn -> {"none", "new", "ready", "blocked", "ended"}]
    /\ met \subseteq Conn
    /\ acc = "accept" <=> (running = Accepting \/ Accepting \in ToSet(runq))

\* _st_io_init: as many descriptors as the system and the event system allow.
FdLimit == IF Rlimit > SetSize THEN SetSize ELSE Rlimit

Unused == (0..FdLimit - 1) \ open

\* The descriptor a system call returns: the lowest one that is not open.
Lowest == {fd \in Unused : \A x \in Unused : fd <= x}

\* No descriptor is left: accept(2) fails with EMFILE.
Full == Unused = {}

Init ==
    /\ running = Main /\ runq = <<>> /\ acc = "none" /\ queue = <<>>
    /\ open = {} /\ netfd = <<>> /\ freelist = <<>> /\ listener = 0
    /\ clients = <<>> /\ thread = [c \in Conn |-> "none"] /\ met = {}

-----------------------------------------------------------------------------
\* _st_vp_schedule.
Switch(q) ==
    /\ running' = IF q = <<>> THEN Idle ELSE Head(q)
    /\ runq' = IF q = <<>> THEN q ELSE Tail(q)

\* _st_netfd_new: a free object, or a new one.
NetfdNew(fd) ==
    IF freelist # <<>>
    THEN [n |-> Head(freelist), free |-> Tail(freelist),
          all |-> [netfd EXCEPT ![Head(freelist)] = [osfd |-> fd, inuse |-> TRUE]]]
    ELSE [n |-> Len(netfd) + 1, free |-> freelist,
          all |-> Append(netfd, [osfd |-> fd, inuse |-> TRUE])]

\* st_netfd_free of the object n of the objects all.
NetfdFree(n, all, free) ==
    /\ netfd' = [all EXCEPT ![n].inuse = FALSE]
    /\ freelist' = <<n>> \o free

\* The listening socket gets the descriptor fd and a descriptor object.
OpenListener(fd) ==
    /\ open' = open \cup {fd}
    /\ netfd' = NetfdNew(fd).all
    /\ freelist' = NetfdNew(fd).free
    /\ listener' = NetfdNew(fd).n

\* main: Server::listen succeeds and Server::cycle ends the primordial thread.
Listen ==
    /\ running = Main
    /\ \E fd \in Lowest : OpenListener(fd)
    /\ acc' = "accept"
    /\ Switch(<<Accepting>>)
    /\ UNCHANGED <<queue, clients, thread, met>>

\* main: a call of Server::listen fails, before or after it has a descriptor or
\* a descriptor object; main ignores the result and ends the primordial thread
\* all the same.
ListenFails ==
    /\ running = Main
    /\ \/ UNCHANGED <<open, netfd, freelist, listener>>
       \/ \E fd \in Lowest : open' = open \cup {fd} /\ UNCHANGED <<netfd, freelist, listener>>
       \/ \E fd \in Lowest : OpenListener(fd)
    /\ Switch(<<>>)
    /\ UNCHANGED <<acc, queue, clients, thread, met>>

\* A peer connects, as far as the backlog allows.
Connect(c) ==
    /\ acc # "none"
    /\ c \notin met /\ Len(queue) < Backlog
    /\ met' = met \cup {c}
    /\ queue' = Append(queue, c)
    /\ UNCHANGED <<running, runq, acc, open, netfd, freelist, listener, clients, thread>>

\* The next accept(2) of Server::accept's loop.
Loop == running = Accepting /\ acc = "accept"

\* st_accept returns a connection: Client, clients, Client::cycle and
\* st_usleep(0).  Client::cycle goes on without a coroutine if there is no
\* memory for one.
Accept ==
    /\ Loop /\ queue # <<>>
    /\ queue' = Tail(queue)
    /\ \E fd \in Lowest :
        /\ fd < SetSize
        /\ open' = open \cup {fd}
        /\ netfd' = NetfdNew(fd).all
        /\ freelist' = NetfdNew(fd).free
        /\ clients' = [n \in DOMAIN clients \cup {NetfdNew(fd).n} |->
                          IF n = NetfdNew(fd).n THEN Head(queue) ELSE clients[n]]
    /\ acc' = "sleep"
    /\ \/ /\ thread' = [thread EXCEPT ![Head(queue)] = "new"]
          /\ Switch(Append(runq, Head(queue)))
       \/ UNCHANGED thread /\ Switch(runq)
    /\ UNCHANGED <<listener, met>>

\* Faulty variant: the descriptor stays open.
AcceptUndoneOpen ==
    /\ Loop /\ queue # <<>>
    /\ queue' = Tail(queue)
    /\ \E fd \in Lowest :
        /\ open' = open \cup {fd}
        /\ NetfdFree(NetfdNew(fd).n, NetfdNew(fd).all, NetfdNew(fd).free)
    /\ UNCHANGED <<running, runq, acc, listener, clients, thread, met>>

\* accept(2) succeeds and _st_netfd_new fails, before it has an object or while
\* it makes the descriptor nonblocking: the descriptor is closed again, and the
\* loop goes on at once.
AcceptUndone ==
    /\ Loop /\ queue # <<>>
    /\ queue' = Tail(queue)
    /\ \E fd \in Lowest :
        \/ (fd >= SetSize \/ freelist = <<>>) /\ UNCHANGED <<netfd, freelist>>
        \/ NetfdFree(NetfdNew(fd).n, NetfdNew(fd).all, NetfdNew(fd).free)
    /\ UNCHANGED <<running, runq, acc, open, listener, clients, thread, met>>

\* accept(2) fails for the connection it would have returned (ECONNABORTED).
AcceptAborted ==
    /\ Loop /\ ~Full /\ queue # <<>>
    /\ queue' = Tail(queue)
    /\ UNCHANGED <<running, runq, acc, open, netfd, freelist, listener, clients, thread, met>>

\* accept(2) fails with EMFILE, and st_accept with it: the loop goes on at once.
AcceptFull ==
    /\ Loop /\ Full
    /\ UNCHANGED vars

\* EAGAIN: the coroutine waits in st_netfd_poll.
AcceptWait ==
    /\ Loop /\ ~Full /\ queue = <<>>
    /\ acc' = "poll"
    /\ Switch(runq)
    /\ UNCHANGED <<queue, open, netfd, freelist, listener, clients, thread, met>>

\* A client's coroutine runs until it waits for its peer, or to its end; its
\* descriptor stays open and its entry in clients.
ClientTurn ==
    /\ running \in Conn
    /\ thread' \in {[thread EXCEPT ![running] = "blocked"], [thread EXCEPT ![running] = "ended"]}
    /\ Switch(runq)
    /\ UNCHANGED <<acc, queue, open, netfd, freelist, listener, clients, met>>

\* Faulty variant: a turn that wakes clients does not look at the accept loop.
IdleTurnClientsFirst ==
    /\ running = Idle
    /\ acc # "none"
    /\ \E ready \in SUBSET {c \in Conn : thread[c] = "blocked"} :
        LET pollers == IF ready = {} /\ acc = "poll" /\ queue # <<>> THEN {Accepting} ELSE ready
        IN  \E q \in SetToSeqs(pollers) :
              /\ Switch(q \o (IF acc = "sleep" THEN <<Accepting>> ELSE <<>>))
              /\ thread' = [c \in Conn |-> IF c \in ready THEN "ready" ELSE thread[c]]
              /\ acc' = IF acc = "sleep" \/ Accepting \in pollers THEN "accept" ELSE acc
    /\ UNCHANGED <<queue, open, netfd, freelist, listener, clients, met>>

\* The idle thread: clients whose peers have sent something and the accept loop
\* become runnable, first those that wait for a descriptor, then the sleepers.
IdleTurn ==
    /\ running = Idle
    /\ acc # "none"
    /\ \E ready \in SUBSET {c \in Conn : thread[c] = "blocked"} :
        LET pollers == ready \cup (IF acc = "poll" /\ queue # <<>> THEN {Accepting} ELSE {})
        IN  \E q \in SetToSeqs(pollers) :
              /\ Switch(q \o (IF acc = "sleep" THEN <<Accepting>> ELSE <<>>))
              /\ thread' = [c \in Conn |-> IF c \in ready THEN "ready" ELSE thread[c]]
              /\ acc' = IF acc = "sleep" \/ Accepting \in pollers THEN "accept" ELSE acc
    /\ UNCHANGED <<queue, open, netfd, freelist, listener, clients, met>>

\* The last coroutine is gone: exit(0).
IdleExit ==
    /\ running = Idle
    /\ acc = "none"
    /\ running' = "halt"
    /\ UNCHANGED <<runq, acc, queue, open, netfd, freelist, listener, clients, thread, met>>

Server == Listen \/ ListenFails \/ Accept \/ AcceptUndone \/ AcceptAborted \/ AcceptFull
              \/ AcceptWait \/ ClientTurn \/ IdleTurn \/ IdleExit

Next == Server \/ \E c \in Conn : Connect(c)

Spec == Init /\ [][Next]_vars

\* The process runs.
FairSpec == Spec /\ WF_vars(Server)

-----------------------------------------------------------------------------
\* Every open descriptor belongs to one descriptor object in use, every object
\* in use to the listening socket or to one entry of clients, and nothing in
\* use can be handed out again; also after calls that failed half way.
Accounted ==
    LET used == {n \in 1..Len(netfd) : netfd[n].inuse} IN
    listener # 0 =>
        /\ used = DOMAIN clients \cup {listener} /\ listener \notin DOMAIN clients
        /\ open = {netfd[n].osfd : n \in used}
        /\ Cardinality(open) = Cardinality(used)
        /\ ToSet(freelist) = (1..Len(netfd)) \ used /\ IsInjective(freelist)
        /\ IsInjective(clients)

\* A client's coroutine has begun before the next connection is accepted, however
\* many connections wait.
FirstTurn == Loop => \A c \in Conn : thread[c] # "new"

\* While there are descriptors left, the accept loop lets every client go on
\* that can; with the last one gone it never gives up the processor again.
TurnsBelowLimit ==
    /\ running = Accepting ~> (running # Accepting \/ Full)
    /\ \A c \in Conn : thread[c] = "ready" ~> (thread[c] # "ready" \/ Full)

\* A connection in the kernel's queue is taken out of it while there are
\* descriptors left, whatever the clients do.
Admitted == \A c \in Conn : Contains(queue, c) ~> (~Contains(queue, c) \/ Full)

\* Descriptors, descriptor objects and clients match one to one after every way
\* an accept can succeed or fail, and a client has had its first turn before the
\* next connection is accepted.
AllAccounted == TypeOK /\ Accounted /\ FirstTurn

\* Below the descriptor limit the accept loop neither starves the clients nor
\* leaves a connection waiting.
Served == TurnsBelowLimit /\ Admitted
=================================================================================
