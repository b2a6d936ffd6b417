---------------------------- MODULE AcceptorProofs ----------------------------
(***************************************************************************)
(* Proofs about Acceptor for every number of connections, backlog and      *)
(* descriptor limit: what the accept loop opens is accounted for, and a    *)
(* client has its first turn before the next connection is accepted.       *)
(***************************************************************************)
EXTENDS Acceptor, QueueLemmas

Object == [osfd : 0..Rlimit, inuse : BOOLEAN]

\* The descriptor objects in use.
Used == {n \in 1..Len(netfd) : netfd[n].inuse}

\* The free list holds the others, once each.
Objects == ToSet(freelist) = (1..Len(netfd)) \ Used /\ IsInjective(freelist)

\* A coroutine is queued once and not while it runs; the idle thread runs only
\* when nothing else can; a client that has not had its first turn is queued.
Turns ==
    /\ IsInjective(runq) /\ running \notin ToSet(runq) /\ Main \notin ToSet(runq)
    /\ running \in {Idle, Main, "halt"} => runq = <<>>
    /\ \A c \in Conn :
        /\ c \in ToSet(runq) \cup {running} => thread[c] \in {"new", "ready"}
        /\ thread[c] = "new" => c \in ToSet(runq) \cup {running}

\* A connection is in the kernel's queue or has been taken out of it.
Met ==
    /\ IsInjective(queue) /\ ToSet(queue) \subseteq met /\ Range(clients) \subseteq met
    /\ ToSet(queue) \cap Range(clients) = {}
    /\ \A c \in Conn : thread[c] # "none" => c \in met \ ToSet(queue)

\* Before Server::listen nothing is open.
Starting ==
    running = Main =>
        /\ acc = "none" /\ queue = <<>> /\ open = {} /\ netfd = <<>> /\ freelist = <<>>
        /\ listener = 0 /\ DOMAIN clients = {} /\ \A c \in Conn : thread[c] = "none"

Listening == acc # "none" => listener # 0

\* The accept loop goes on only when every client has had its first turn.
BegunFirst == acc = "accept" => \A c \in Conn : thread[c] # "new"

\* The inductive invariant.
IInv ==
    /\ TypeOK /\ Objects /\ Turns /\ Met /\ Starting /\ Listening /\ BegunFirst /\ Accounted

-----------------------------------------------------------------------------
(* Descriptors, descriptor objects and context switches.                    *)

LEMMA SetToSeqsElems ==
    ASSUME NEW S, IsFiniteSet(S), NEW q \in SetToSeqs(S)
    PROVE  q \in Seq(S) /\ IsInjective(q) /\ ToSet(q) = S
  <1>1. Cardinality(S) \in Nat
    BY FS_CardinalityType
  <1> DEFINE D == 1..Cardinality(S)
  <1>2. q \in [D -> S] /\ \A i, j \in D : i # j => q[i] # q[j]
    BY DEF SetToSeqs
  <1>3. q \in Seq(S) /\ DOMAIN q = D
    BY <1>1, <1>2, SeqDef
  <1>4. IsInjective(q)
    BY <1>2, <1>3 DEF IsInjective
  <1>5. q \in Injection(D, S)
    BY <1>2, <1>4 DEF Injection
  <1>6. IsFiniteSet(D) /\ Cardinality(D) = Cardinality(S)
    BY <1>1, FS_Interval
  <1>7. q \in Surjection(D, S)
    BY <1>5, <1>6, FS_Injection
  <1>8. ToSet(q) = S
    BY <1>2, <1>3, <1>7 DEF Surjection, ToSet
  <1> QED  BY <1>3, <1>4, <1>8

\* _st_vp_schedule resumes the head of the queue, or the idle thread.
LEMMA SwitchStep ==
    ASSUME AcceptorAssumption, NEW q \in Seq(Coroutine), IsInjective(q), Main \notin ToSet(q), Switch(q)
    PROVE  /\ running' \in Coroutine \cup {Idle, "halt"} /\ running' \notin {Main, "halt"}
           /\ runq' \in Seq(Coroutine) /\ IsInjective(runq')
           /\ running' \notin ToSet(runq') /\ Main \notin ToSet(runq')
           /\ running' = Idle => runq' = <<>>
           /\ \A t \in Coroutine : t \in ToSet(q) <=> t \in ToSet(runq') \cup {running'}
  <1>1. /\ Idle \notin Coroutine /\ "halt" \notin Coroutine \cup {Idle} /\ Main # Idle
    BY DEF AcceptorAssumption, Coroutine
  <1>2. CASE q = <<>>
    <2>1. running' = Idle /\ runq' = <<>>
      BY <1>2 DEF Switch
    <2> QED  BY <1>1, <1>2, <2>1, EmptyElems
  <1>3. CASE q # <<>>
    <2>1. running' = Head(q) /\ runq' = Tail(q)
      BY <1>3 DEF Switch
    <2>2. /\ Head(q) \in Coroutine /\ Tail(q) \in Seq(Coroutine) /\ Head(q) \in ToSet(q)
          /\ ToSet(q) = ToSet(Tail(q)) \cup {Head(q)}
          /\ IsInjective(Tail(q)) /\ Head(q) \notin ToSet(Tail(q))
      BY <1>3, TailElems
    <2> QED  BY <1>1, <2>1, <2>2
  <1> QED  BY <1>2, <1>3

\* _st_netfd_new takes an object that is not in use off the free list, or makes
\* one, and leaves the others as they are.
LEMMA NetfdNewObject ==
    ASSUME netfd \in Seq(Object), freelist \in Seq(1..Len(netfd)), Objects, NEW fd \in 0..Rlimit
    PROVE  LET r == NetfdNew(fd) IN
           /\ r.all \in Seq(Object) /\ Len(netfd) <= Len(r.all)
           /\ r.n \in 1..Len(r.all) /\ r.n \notin Used
           /\ r.all[r.n] = [osfd |-> fd, inuse |-> TRUE]
           /\ 1..Len(r.all) = (1..Len(netfd)) \cup {r.n}
           /\ \A m \in (1..Len(netfd)) \ {r.n} : r.all[m] = netfd[m]
           /\ r.free \in Seq(1..Len(r.all)) /\ IsInjective(r.free)
           /\ ToSet(r.free) = ToSet(freelist) \ {r.n}
  <1> DEFINE new == [osfd |-> fd, inuse |-> TRUE]
  <1>1. new \in Object /\ Len(netfd) \in Nat
    BY DEF Object
  <1>2. CASE freelist # <<>>
    <2>1. /\ NetfdNew(fd).n = Head(freelist) /\ NetfdNew(fd).free = Tail(freelist)
          /\ NetfdNew(fd).all = [netfd EXCEPT ![Head(freelist)] = new]
      BY <1>2 DEF NetfdNew
    <2>2. /\ Head(freelist) \in 1..Len(netfd) /\ Tail(freelist) \in Seq(1..Len(netfd))
          /\ Head(freelist) \in ToSet(freelist)
          /\ ToSet(freelist) = ToSet(Tail(freelist)) \cup {Head(freelist)}
          /\ IsInjective(Tail(freelist)) /\ Head(freelist) \notin ToSet(Tail(freelist))
      BY <1>2, TailElems DEF Objects
    <2>3. Head(freelist) \notin Used
      BY <2>2 DEF Objects
    <2>4. PICK h \in 1..Len(netfd) : h = Head(freelist)
      BY <2>2
    <2>5. PICK a : a = [netfd EXCEPT ![h] = new]
      OBVIOUS
    <2>6. a \in Seq(Object) /\ Len(a) = Len(netfd) /\ a[h] = new /\ \A m \in (1..Len(netfd)) \ {h} : a[m] = netfd[m]
      BY <1>1, <2>4, <2>5
    <2> QED  BY <1>1, <2>1, <2>2, <2>3, <2>4, <2>5, <2>6
  <1>3. CASE freelist = <<>>
    <2>1. /\ NetfdNew(fd).n = Len(netfd) + 1 /\ NetfdNew(fd).free = freelist
          /\ NetfdNew(fd).all = Append(netfd, new)
      BY <1>3 DEF NetfdNew
    <2>2. PICK a : a = Append(netfd, new)
      OBVIOUS
    <2>3. /\ a \in Seq(Object) /\ Len(a) = Len(netfd) + 1 /\ a[Len(netfd) + 1] = new
          /\ \A m \in 1..Len(netfd) : a[m] = netfd[m]
      BY <1>1, <2>2
    <2>4. 1..(Len(netfd) + 1) = (1..Len(netfd)) \cup {Len(netfd) + 1} /\ Len(netfd) + 1 \notin 1..Len(netfd)
      BY <1>1
    <2>5. Len(netfd) + 1 \notin Used
      BY <2>4 DEF Used
    <2>6. freelist \in Seq(1..(Len(netfd) + 1)) /\ IsInjective(freelist) /\ ToSet(freelist) = {}
      BY <1>3, EmptyElems
    <2> QED  BY <1>1, <2>1, <2>2, <2>3, <2>4, <2>5, <2>6
  <1> QED  BY <1>2, <1>3

\* An object and a descriptor that were not in use are put into use.
LEMMA TakeObject ==
    ASSUME netfd \in Seq(Object), freelist \in Seq(1..Len(netfd)), Objects, NEW fd \in 0..Rlimit,
           netfd' = NetfdNew(fd).all, freelist' = NetfdNew(fd).free
    PROVE  /\ netfd' \in Seq(Object) /\ freelist' \in Seq(1..Len(netfd')) /\ Len(netfd) <= Len(netfd')
           /\ Objects' /\ Used' = Used \cup {NetfdNew(fd).n}
           /\ NetfdNew(fd).n \in (1..Len(netfd')) \ Used
           /\ netfd'[NetfdNew(fd).n].osfd = fd
           /\ \A m \in Used : netfd'[m] = netfd[m]
  <1> DEFINE n == NetfdNew(fd).n
  <1>1. /\ netfd' \in Seq(Object) /\ Len(netfd) <= Len(netfd')
        /\ n \in 1..Len(netfd') /\ n \notin Used
        /\ netfd'[n] = [osfd |-> fd, inuse |-> TRUE]
        /\ 1..Len(netfd') = (1..Len(netfd)) \cup {n}
        /\ \A m \in (1..Len(netfd)) \ {n} : netfd'[m] = netfd[m]
        /\ freelist' \in Seq(1..Len(netfd')) /\ IsInjective(freelist')
        /\ ToSet(freelist') = ToSet(freelist) \ {n}
    BY NetfdNewObject
  <1> HIDE DEF n
  <1>2. Used' = Used \cup {n}
    <2>1. \A m \in 1..Len(netfd') : netfd'[m].inuse <=> (m = n \/ m \in Used)
      <3> SUFFICES ASSUME NEW m \in 1..Len(netfd') PROVE netfd'[m].inuse <=> (m = n \/ m \in Used)
        OBVIOUS
      <3>1. CASE m = n
        BY <1>1, <3>1
      <3>2. CASE m # n
        <4>1. m \in 1..Len(netfd) /\ netfd'[m] = netfd[m]
          BY <1>1, <3>2
        <4> QED  BY <3>2, <4>1 DEF Used
      <3> QED  BY <3>1, <3>2
    <2>2. Used' = {m \in 1..Len(netfd') : netfd'[m].inuse}
      BY DEF Used
    <2>3. Used \subseteq 1..Len(netfd')
      BY <1>1 DEF Used
    <2> QED  BY <1>1, <2>1, <2>2, <2>3
  <1>3. Objects'
    BY <1>1, <1>2 DEF Objects
  <1>4. \A m \in Used : netfd'[m] = netfd[m]
    BY <1>1 DEF Used
  <1> QED  BY <1>1, <1>2, <1>3, <1>4 DEF n

\* An object that is taken and freed again changes nothing for the others.
LEMMA FreeObject ==
    ASSUME netfd \in Seq(Object), freelist \in Seq(1..Len(netfd)), Objects, NEW fd \in 0..Rlimit,
           NetfdFree(NetfdNew(fd).n, NetfdNew(fd).all, NetfdNew(fd).free)
    PROVE  /\ netfd' \in Seq(Object) /\ freelist' \in Seq(1..Len(netfd')) /\ Len(netfd) <= Len(netfd')
           /\ Objects' /\ Used' = Used
           /\ \A m \in Used : netfd'[m] = netfd[m]
  <1>1. PICK n, all, free : n = NetfdNew(fd).n /\ all = NetfdNew(fd).all /\ free = NetfdNew(fd).free
    OBVIOUS
  <1>2. /\ all \in Seq(Object) /\ Len(netfd) <= Len(all)
        /\ n \in 1..Len(all) /\ n \notin Used
        /\ all[n] = [osfd |-> fd, inuse |-> TRUE]
        /\ 1..Len(all) = (1..Len(netfd)) \cup {n}
        /\ \A m \in (1..Len(netfd)) \ {n} : all[m] = netfd[m]
        /\ free \in Seq(1..Len(all)) /\ IsInjective(free)
        /\ ToSet(free) = ToSet(freelist) \ {n}
    BY <1>1, NetfdNewObject
  <1>3. netfd' = [all EXCEPT ![n].inuse = FALSE] /\ freelist' = <<n>> \o free
    BY <1>1 DEF NetfdFree
  <1>4. /\ netfd' \in Seq(Object) /\ Len(netfd') = Len(all) /\ ~netfd'[n].inuse
        /\ \A m \in (1..Len(all)) \ {n} : netfd'[m] = all[m]
    <2>1. PICK o : o = [all[n] EXCEPT !.inuse = FALSE]
      OBVIOUS
    <2>2. netfd' = [all EXCEPT ![n] = o]
      BY <1>3, <2>1
    <2>3. all[n] \in Object
      BY <1>2
    <2>4. o \in Object /\ ~o.inuse
      BY <2>1, <2>3 DEF Object
    <2> QED  BY <1>2, <2>2, <2>4
  <1>5. <<n>> \in Seq(1..Len(all)) /\ IsInjective(<<n>>) /\ ToSet(<<n>>) = {n}
    BY <1>2 DEF IsInjective, ToSet
  <1>6. freelist' \in Seq(1..Len(all)) /\ IsInjective(freelist') /\ ToSet(freelist') = ToSet(free) \cup {n}
    <2>1. PICK T, s : T = 1..Len(all) /\ s = <<n>>
      OBVIOUS
    <2>2. /\ s \in Seq(T) /\ free \in Seq(T) /\ IsInjective(s) /\ IsInjective(free)
          /\ ToSet(s) = {n} /\ ToSet(s) \cap ToSet(free) = {}
      BY <1>2, <1>5, <2>1
    <2>3. s \o free \in Seq(T) /\ IsInjective(s \o free) /\ ToSet(s \o free) = ToSet(s) \cup ToSet(free)
      <3>1. ToSet(s \o free) = ToSet(s) \cup ToSet(free) /\ s \o free \in Seq(T)
        BY <2>2, ConcatElems
      <3>2. IsInjective(s \o free)
        BY <2>2, ConcatElems
      <3> QED  BY <3>1, <3>2
    <2>4. freelist' = s \o free
      BY <1>3, <2>1
    <2> QED  BY <2>1, <2>2, <2>3, <2>4, Zenon
  <1>7. Used' = Used
    BY <1>2, <1>4 DEF Used
  <1>8. Objects'
    <2>1. 1..Len(netfd') = (1..Len(netfd)) \cup {n}
      BY <1>2, <1>4
    <2> QED  BY <1>2, <1>6, <1>7, <2>1 DEF Objects
  <1>9. \A m \in Used : netfd'[m] = netfd[m]
    <2>1. \A m \in Used : m \in 1..Len(netfd) /\ m # n
      BY <1>2 DEF Used
    <2> QED  BY <1>2, <1>4, <2>1
  <1> QED  BY <1>2, <1>4, <1>6, <1>7, <1>8, <1>9

\* The descriptor of a system call is one that was not open.
LEMMA LowestFree ==
    ASSUME AcceptorAssumption, NEW fd \in Lowest
    PROVE  fd \in 0..Rlimit - 1 /\ fd \in 0..Rlimit /\ fd \notin open
  <1>1. fd \in 0..FdLimit - 1 /\ fd \notin open
    BY DEF Lowest, Unused
  <1>2. FdLimit \in Nat /\ FdLimit <= Rlimit /\ Rlimit \in Nat
    BY DEF FdLimit, AcceptorAssumption
  <1> QED  BY <1>1, <1>2

\* The connection at the head of the kernel's queue.
LEMMA QueueHead ==
    ASSUME AcceptorAssumption, TypeOK, Met, queue # <<>>
    PROVE  /\ Head(queue) \in Conn /\ Tail(queue) \in Seq(Conn) /\ Len(Tail(queue)) <= Backlog
           /\ IsInjective(Tail(queue)) /\ ToSet(queue) = ToSet(Tail(queue)) \cup {Head(queue)}
           /\ Head(queue) \notin ToSet(Tail(queue)) /\ Head(queue) \in met \ Range(clients)
           /\ thread[Head(queue)] = "none"
  <1>1. queue \in Seq(Conn) /\ Len(queue) <= Backlog /\ IsInjective(queue) /\ Backlog \in Nat
    BY DEF TypeOK, Met, AcceptorAssumption
  <1>2. /\ Head(queue) \in Conn /\ Tail(queue) \in Seq(Conn)
        /\ Head(queue) \in ToSet(queue) /\ ToSet(queue) = ToSet(Tail(queue)) \cup {Head(queue)}
        /\ IsInjective(Tail(queue)) /\ Head(queue) \notin ToSet(Tail(queue))
    BY <1>1, TailElems
  <1>3. Len(Tail(queue)) <= Backlog
    BY <1>1
  <1>4. Head(queue) \in met \ Range(clients) /\ thread[Head(queue)] = "none"
    BY <1>2 DEF Met
  <1> QED  BY <1>2, <1>3, <1>4

LEMMA FiniteBoth ==
    ASSUME AcceptorAssumption, TypeOK
    PROVE  IsFiniteSet(open) /\ IsFiniteSet(Used)
  <1>1. Rlimit \in Nat /\ Len(netfd) \in Nat /\ open \subseteq 0..Rlimit - 1 /\ Used \subseteq 1..Len(netfd)
    BY DEF AcceptorAssumption, TypeOK, Used
  <1>2. IsFiniteSet(0..Rlimit - 1) /\ IsFiniteSet(1..Len(netfd))
    BY <1>1, FS_Interval
  <1> QED  BY <1>1, <1>2, FS_Subset

-----------------------------------------------------------------------------
(* The inductive invariant.                                                 *)

LEMMA InitIInv ==
    ASSUME AcceptorAssumption, Init
    PROVE  IInv
  <1>1. /\ running = Main /\ runq = <<>> /\ acc = "none" /\ queue = <<>>
        /\ open = {} /\ netfd = <<>> /\ freelist = <<>> /\ listener = 0
        /\ clients = <<>> /\ met = {} /\ \A c \in Conn : thread[c] = "none"
        /\ thread \in [Conn -> {"none", "new", "ready", "blocked", "ended"}]
    BY DEF Init
  <1>2. DOMAIN clients = {} /\ Range(clients) = {} /\ Len(netfd) = 0
    BY <1>1 DEF Range
  <1>3. Main \notin Conn /\ Main # Accepting
    BY DEF AcceptorAssumption
  <1>4. TypeOK
    <2>1. /\ runq \in Seq(Coroutine) /\ queue \in Seq(Conn) /\ freelist \in Seq(1..Len(netfd))
          /\ netfd \in Seq([osfd : 0..Rlimit, inuse : BOOLEAN])
      BY <1>1
    <2>2. Len(queue) <= Backlog
      BY <1>1 DEF AcceptorAssumption
    <2> QED  BY <1>1, <1>2, <1>3, <2>1, <2>2, EmptyElems DEF TypeOK, Coroutine
  <1>5. Used = {}
    BY <1>2 DEF Used
  <1>6. Objects /\ Turns /\ Met
    BY <1>1, <1>2, <1>3, <1>5, EmptyElems DEF Objects, Turns, Met
  <1>7. Starting /\ Listening /\ BegunFirst /\ Accounted
    BY <1>1, <1>2 DEF Starting, Listening, BegunFirst, Accounted
  <1> QED  BY <1>4, <1>6, <1>7 DEF IInv

\* Server::listen, as far as it gets: what main has when it ends its thread.
LEMMA ListenIInv ==
    ASSUME AcceptorAssumption, IInv, Listen \/ ListenFails
    PROVE  IInv'
  <1>0. TypeOK /\ Objects /\ Turns /\ Met /\ Starting /\ Listening /\ BegunFirst /\ Accounted
    BY DEF IInv
  <1>1. /\ running = Main /\ UNCHANGED <<queue, clients, thread, met>>
    BY DEF Listen, ListenFails
  <1>2. /\ acc = "none" /\ queue = <<>> /\ open = {} /\ netfd = <<>> /\ freelist = <<>>
        /\ listener = 0 /\ DOMAIN clients = {} /\ \A c \in Conn : thread[c] = "none"
    BY <1>0, <1>1 DEF Starting
  <1>3. netfd \in Seq(Object) /\ freelist \in Seq(1..Len(netfd)) /\ Len(netfd) = 0 /\ Used = {}
    BY <1>2 DEF Used
  <1>4. ASSUME NEW fd \in Lowest, OpenListener(fd)
        PROVE  /\ Objects' /\ Accounted' /\ listener' # 0
               /\ open' \subseteq 0..Rlimit - 1 /\ netfd' \in Seq(Object)
               /\ freelist' \in Seq(1..Len(netfd')) /\ listener' \in 0..Len(netfd')
    <2> DEFINE n == NetfdNew(fd).n
    <2>1. open' = {fd} /\ netfd' = NetfdNew(fd).all /\ freelist' = NetfdNew(fd).free /\ listener' = n
      BY <1>2, <1>4 DEF OpenListener
    <2>2. fd \in 0..Rlimit - 1 /\ fd \in 0..Rlimit
      BY LowestFree
    <2>3. /\ netfd' \in Seq(Object) /\ freelist' \in Seq(1..Len(netfd')) /\ Objects'
          /\ Used' = Used \cup {n} /\ n \in (1..Len(netfd')) \ Used /\ netfd'[n].osfd = fd
      BY <1>0, <1>3, <2>1, <2>2, TakeObject
    <2> HIDE DEF n
    <2>4. Used' = {n} /\ n # 0 /\ n \in 0..Len(netfd')
      BY <1>3, <2>3
    <2>5. open' = {netfd'[m].osfd : m \in Used'}
      BY <2>1, <2>3, <2>4
    <2>6. Cardinality(open') = Cardinality(Used')
      BY <2>1, <2>4, FS_Singleton
    <2>7. ToSet(freelist') = (1..Len(netfd')) \ Used' /\ IsInjective(freelist')
      BY <2>3 DEF Objects
    <2>8. IsInjective(clients') /\ Used' = DOMAIN clients' \cup {listener'} /\ listener' \notin DOMAIN clients'
      BY <1>1, <1>2, <2>1, <2>4 DEF IsInjective
    <2>9. Accounted'
      BY <2>5, <2>6, <2>7, <2>8 DEF Accounted, Used
    <2> QED  BY <2>1, <2>2, <2>3, <2>4, <2>9
  <1>5. /\ Objects' /\ Accounted'
        /\ open' \subseteq 0..Rlimit - 1 /\ netfd' \in Seq(Object)
        /\ freelist' \in Seq(1..Len(netfd')) /\ listener' \in 0..Len(netfd')
        /\ Listen => listener' # 0
    <2>1. CASE \E fd \in Lowest : OpenListener(fd)
      BY <1>4, <2>1
    <2>2. CASE UNCHANGED <<netfd, freelist, listener>> /\ \E fd \in Lowest : open' \in {open, open \cup {fd}}
      <3>1. open' \subseteq 0..Rlimit - 1
        BY <1>2, <2>2, LowestFree
      <3>2. Objects' /\ Accounted'
        BY <1>0, <1>2, <2>2 DEF Objects, Used, Accounted
      <3>3. ~Listen \/ listener' # 0
        BY <1>4 DEF Listen
      <3> QED  BY <1>0, <1>3, <2>2, <3>1, <3>2, <3>3 DEF TypeOK
    <2>3. CASE UNCHANGED <<open, netfd, freelist, listener>>
      <3>1. open' \subseteq 0..Rlimit - 1
        BY <1>0, <2>3 DEF TypeOK
      <3>2. Objects' /\ Accounted'
        BY <1>0, <1>2, <2>3 DEF Objects, Used, Accounted
      <3>3. ~Listen \/ listener' # 0
        BY <1>4 DEF Listen
      <3> QED  BY <1>0, <1>3, <2>3, <3>1, <3>2, <3>3 DEF TypeOK
    <2> QED  BY <2>1, <2>2, <2>3 DEF Listen, ListenFails
  <1>6. PICK q : /\ q \in Seq(Coroutine) /\ IsInjective(q) /\ Main \notin ToSet(q) /\ Switch(q)
                 /\ \/ Listen /\ acc' = "accept" /\ ToSet(q) = {Accepting}
                    \/ acc' = "none" /\ ToSet(q) = {}
    <2>1. <<Accepting>> \in Seq(Coroutine) /\ IsInjective(<<Accepting>>) /\ ToSet(<<Accepting>>) = {Accepting}
      BY DEF IsInjective, ToSet, Coroutine
    <2>2. <<>> \in Seq(Coroutine)
      OBVIOUS
    <2>3. Main # Accepting
      BY DEF AcceptorAssumption
    <2>4. CASE Listen
      BY <2>1, <2>3, <2>4 DEF Listen
    <2>5. CASE ListenFails
      BY <1>2, <2>2, <2>5, EmptyElems DEF ListenFails
    <2> QED  BY <2>4, <2>5
  <1>7. /\ running' \in Coroutine \cup {Idle, "halt"} /\ running' \notin {Main, "halt"}
        /\ runq' \in Seq(Coroutine) /\ IsInjective(runq')
        /\ running' \notin ToSet(runq') /\ Main \notin ToSet(runq')
        /\ running' = Idle => runq' = <<>>
        /\ \A t \in Coroutine : t \in ToSet(q) <=> t \in ToSet(runq') \cup {running'}
    BY <1>6, SwitchStep
  <1>8. Accepting \in Coroutine /\ Conn \subseteq Coroutine /\ Accepting \notin Conn
    BY DEF Coroutine, AcceptorAssumption
  <1>9. TypeOK'
    <2>1. acc' = "accept" <=> (running' = Accepting \/ Accepting \in ToSet(runq'))
      BY <1>6, <1>7, <1>8
    <2> QED  BY <1>0, <1>1, <1>2, <1>5, <1>6, <1>7, <2>1 DEF TypeOK, Object
  <1>10. Turns'
    <2>1. \A c \in Conn : c \notin ToSet(runq') \cup {running'}
      BY <1>6, <1>7, <1>8
    <2> QED  BY <1>1, <1>2, <1>7, <2>1 DEF Turns
  <1>11. Met'
    BY <1>0, <1>1 DEF Met
  <1>12. Starting' /\ BegunFirst'
    BY <1>1, <1>2, <1>7 DEF Starting, BegunFirst
  <1>13. Listening'
    BY <1>5, <1>6 DEF Listening
  <1> QED  BY <1>5, <1>9, <1>10, <1>11, <1>12, <1>13 DEF IInv

\* What is accounted for stays so while nothing in use changes.
LEMMA AccountedKept ==
    ASSUME Accounted, Objects', Used' = Used, \A m \in Used : netfd'[m] = netfd[m],
           UNCHANGED <<open, listener, clients>>
    PROVE  Accounted'
  <1> SUFFICES ASSUME listener # 0 PROVE Accounted'
    BY DEF Accounted
  <1>1. /\ Used = DOMAIN clients \cup {listener} /\ listener \notin DOMAIN clients
        /\ open = {netfd[n].osfd : n \in Used}
        /\ Cardinality(open) = Cardinality(Used)
        /\ IsInjective(clients)
    BY DEF Accounted, Used
  <1>2. open' = {netfd'[n].osfd : n \in Used'}
    BY <1>1
  <1>3. ToSet(freelist') = (1..Len(netfd')) \ Used' /\ IsInjective(freelist')
    BY DEF Objects
  <1>4. /\ Used' = DOMAIN clients' \cup {listener'} /\ listener' \notin DOMAIN clients'
        /\ Cardinality(open') = Cardinality(Used') /\ IsInjective(clients')
    BY <1>1
  <1> QED  BY <1>2, <1>3, <1>4 DEF Accounted, Used

\* st_accept returns a connection.
LEMMA AcceptIInv ==
    ASSUME AcceptorAssumption, IInv, Accept
    PROVE  IInv'
  <1>0. TypeOK /\ Objects /\ Turns /\ Met /\ Starting /\ Listening /\ BegunFirst /\ Accounted
    BY DEF IInv
  <1>1. PICK fd \in Lowest :
            /\ running = Accepting /\ acc = "accept" /\ queue # <<>>
            /\ queue' = Tail(queue)
            /\ open' = open \cup {fd}
            /\ netfd' = NetfdNew(fd).all /\ freelist' = NetfdNew(fd).free
            /\ clients' = [n \in DOMAIN clients \cup {NetfdNew(fd).n} |->
                              IF n = NetfdNew(fd).n THEN Head(queue) ELSE clients[n]]
            /\ acc' = "sleep"
            /\ \/ /\ thread' = [thread EXCEPT ![Head(queue)] = "new"]
                  /\ Switch(Append(runq, Head(queue)))
               \/ UNCHANGED thread /\ Switch(runq)
            /\ UNCHANGED <<listener, met>>
    BY DEF Accept, Loop
  <1>2. PICK c \in Conn : c = Head(queue)
    BY <1>0, <1>1, QueueHead
  <1>3. /\ queue' \in Seq(Conn) /\ Len(queue') <= Backlog
        /\ IsInjective(queue') /\ ToSet(queue) = ToSet(queue') \cup {c}
        /\ c \notin ToSet(queue') /\ c \in met \ Range(clients) /\ thread[c] = "none"
    BY <1>0, <1>1, <1>2, QueueHead
  <1>4. PICK n : n = NetfdNew(fd).n
    OBVIOUS
  <1>5. fd \in 0..Rlimit - 1 /\ fd \in 0..Rlimit /\ fd \notin open
    BY LowestFree
  <1>6. netfd \in Seq(Object) /\ freelist \in Seq(1..Len(netfd))
    BY <1>0 DEF TypeOK, Object
  <1>7. /\ netfd' \in Seq(Object) /\ freelist' \in Seq(1..Len(netfd')) /\ Len(netfd) <= Len(netfd')
        /\ Objects' /\ Used' = Used \cup {n} /\ n \in (1..Len(netfd')) \ Used
        /\ netfd'[n].osfd = fd /\ \A m \in Used : netfd'[m] = netfd[m]
    BY <1>0, <1>1, <1>4, <1>5, <1>6, TakeObject
  <1>8. /\ listener # 0 /\ Used = DOMAIN clients \cup {listener} /\ listener \notin DOMAIN clients
        /\ open = {netfd[m].osfd : m \in Used}
        /\ Cardinality(open) = Cardinality(Used)
        /\ IsInjective(clients)
    BY <1>0, <1>1 DEF Accounted, Used, Listening
  <1>9. /\ DOMAIN clients' = DOMAIN clients \cup {n} /\ clients'[n] = c
        /\ \A m \in DOMAIN clients : clients'[m] = clients[m]
    <2>1. n \notin DOMAIN clients
      BY <1>7, <1>8
    <2> QED  BY <1>1, <1>2, <1>4, <2>1
  <1>10. Range(clients') = Range(clients) \cup {c}
    BY <1>9 DEF Range
  <1>11. IsInjective(clients')
    <2>1. \A m \in DOMAIN clients : clients[m] # c
      BY <1>3 DEF Range
    <2> QED  BY <1>8, <1>9, <2>1 DEF IsInjective
  <1>12. Accounted'
    <2>1. open' = {netfd'[m].osfd : m \in Used'}
      <3>1. {netfd'[m].osfd : m \in Used \cup {n}} = {netfd'[m].osfd : m \in Used} \cup {netfd'[n].osfd}
        OBVIOUS
      <3>2. {netfd'[m].osfd : m \in Used} = open
        BY <1>7, <1>8
      <3> QED  BY <1>1, <1>7, <3>1, <3>2
    <2>2. Cardinality(open') = Cardinality(Used')
      <3>1. IsFiniteSet(open) /\ IsFiniteSet(Used) /\ n \notin Used
        BY <1>0, <1>7, FiniteBoth
      <3>2. Cardinality(open \cup {fd}) = Cardinality(open) + 1
        BY <1>5, <3>1, FS_AddElement
      <3>3. Cardinality(Used \cup {n}) = Cardinality(Used) + 1
        BY <3>1, FS_AddElement
      <3> QED  BY <1>1, <1>7, <1>8, <3>2, <3>3
    <2>3. Used' = DOMAIN clients' \cup {listener'} /\ listener' \notin DOMAIN clients'
      BY <1>1, <1>7, <1>8, <1>9
    <2>4. ToSet(freelist') = (1..Len(netfd')) \ Used' /\ IsInjective(freelist')
      BY <1>7 DEF Objects
    <2> QED  BY <1>11, <2>1, <2>2, <2>3, <2>4 DEF Accounted, Used
  <1>13. runq \in Seq(Coroutine) /\ IsInjective(runq) /\ Main \notin ToSet(runq) /\ Accepting \notin ToSet(runq)
    BY <1>0, <1>1 DEF TypeOK, Turns
  <1>14. /\ Accepting \in Coroutine /\ Conn \subseteq Coroutine /\ Accepting \notin Conn /\ Main \notin Conn
    BY DEF Coroutine, AcceptorAssumption
  <1>15. c \notin ToSet(runq)
    BY <1>0, <1>3 DEF Turns
  <1>16. PICK q : /\ q \in Seq(Coroutine) /\ IsInjective(q) /\ Switch(q)
                  /\ \/ ToSet(q) = ToSet(runq) \cup {c} /\ thread' = [thread EXCEPT ![c] = "new"]
                     \/ ToSet(q) = ToSet(runq) /\ thread' = thread
    <2>1. CASE thread' = [thread EXCEPT ![Head(queue)] = "new"] /\ Switch(Append(runq, Head(queue)))
      <3>1. /\ Append(runq, c) \in Seq(Coroutine) /\ IsInjective(Append(runq, c))
            /\ ToSet(Append(runq, c)) = ToSet(runq) \cup {c}
        BY <1>13, <1>14, <1>15, AppendElems
      <3> QED  BY <1>2, <2>1, <3>1
    <2>2. CASE UNCHANGED thread /\ Switch(runq)
      BY <1>13, <2>2
    <2> QED  BY <1>1, <2>1, <2>2
  <1>17. /\ running' \in Coroutine \cup {Idle, "halt"} /\ running' \notin {Main, "halt"}
         /\ runq' \in Seq(Coroutine) /\ IsInjective(runq')
         /\ running' \notin ToSet(runq') /\ Main \notin ToSet(runq')
         /\ running' = Idle => runq' = <<>>
         /\ \A t \in Coroutine : t \in ToSet(q) <=> t \in ToSet(runq') \cup {running'}
    <2>1. Main \notin ToSet(q)
      BY <1>13, <1>14, <1>16
    <2> QED  BY <1>16, <2>1, SwitchStep
  <1>18. /\ thread' \in [Conn -> {"none", "new", "ready", "blocked", "ended"}]
         /\ \A d \in Conn \ {c} : thread'[d] = thread[d]
         /\ \/ thread'[c] = "new" /\ c \in ToSet(q)
            \/ thread'[c] = "none" /\ c \notin ToSet(q)
    BY <1>0, <1>3, <1>15, <1>16 DEF TypeOK
  <1>19. TypeOK'
    <2>1. acc' = "accept" <=> (running' = Accepting \/ Accepting \in ToSet(runq'))
      BY <1>1, <1>13, <1>14, <1>16, <1>17
    <2>2. open' \subseteq 0..Rlimit - 1
      BY <1>0, <1>1, <1>5 DEF TypeOK
    <2>3. Range(clients') \subseteq Conn
      BY <1>0, <1>10 DEF TypeOK
    <2>4. DOMAIN clients' \subseteq 1..Len(netfd') /\ listener' \in 0..Len(netfd')
      <3>1. Used' \subseteq 1..Len(netfd')
        BY DEF Used
      <3>2. DOMAIN clients' \subseteq Used' /\ listener' \in Used'
        BY <1>1, <1>7, <1>8, <1>9
      <3> QED  BY <3>1, <3>2
    <2>5. met' \subseteq Conn /\ acc' \in {"none", "accept", "poll", "sleep"}
      BY <1>0, <1>1 DEF TypeOK
    <2> QED  BY <1>3, <1>7, <1>17, <1>18, <2>1, <2>2, <2>3, <2>4, <2>5 DEF TypeOK, Object
  <1>20. Turns'
    <2>1. \A d \in Conn : d \in ToSet(q) <=> d \in ToSet(runq') \cup {running'}
      BY <1>14, <1>17
    <2>2. \A d \in Conn \ {c} : d \in ToSet(q) <=> d \in ToSet(runq)
      BY <1>16
    <2>3. \A d \in Conn : d # running
      BY <1>1, <1>14
    <2>4. ASSUME NEW d \in Conn
          PROVE  /\ d \in ToSet(runq') \cup {running'} => thread'[d] \in {"new", "ready"}
                 /\ thread'[d] = "new" => d \in ToSet(runq') \cup {running'}
      <3>1. CASE d = c
        BY <1>18, <2>1, <3>1
      <3>2. CASE d # c
        BY <1>0, <1>18, <2>1, <2>2, <2>3, <3>2 DEF Turns
      <3> QED  BY <3>1, <3>2
    <2> QED  BY <1>17, <2>4 DEF Turns
  <1>21. Met'
    <2>1. ToSet(queue') \subseteq met' /\ Range(clients') \subseteq met' /\ ToSet(queue') \cap Range(clients') = {}
      BY <1>0, <1>1, <1>3, <1>10 DEF Met
    <2>2. \A d \in Conn : thread'[d] # "none" => d \in met' \ ToSet(queue')
      BY <1>0, <1>1, <1>3, <1>18 DEF Met
    <2> QED  BY <1>3, <2>1, <2>2 DEF Met
  <1>22. Starting' /\ Listening' /\ BegunFirst'
    BY <1>1, <1>8, <1>17 DEF Starting, Listening, BegunFirst
  <1> QED  BY <1>7, <1>12, <1>19, <1>20, <1>21, <1>22 DEF IInv

\* A connection is taken out of the queue and lost: accept(2) or _st_netfd_new fails.
LEMMA LostIInv ==
    ASSUME AcceptorAssumption, IInv, AcceptUndone \/ AcceptAborted
    PROVE  IInv'
  <1>0. TypeOK /\ Objects /\ Turns /\ Met /\ Starting /\ Listening /\ BegunFirst /\ Accounted
    BY DEF IInv
  <1>1. /\ running = Accepting /\ queue # <<>> /\ queue' = Tail(queue)
        /\ UNCHANGED <<running, runq, acc, open, listener, clients, thread, met>>
        /\ \/ UNCHANGED <<netfd, freelist>>
           \/ \E fd \in Lowest : NetfdFree(NetfdNew(fd).n, NetfdNew(fd).all, NetfdNew(fd).free)
    BY DEF AcceptUndone, AcceptAborted, Loop
  <1>2. /\ queue' \in Seq(Conn) /\ Len(queue') <= Backlog
        /\ IsInjective(queue') /\ ToSet(queue') \subseteq ToSet(queue)
    BY <1>0, <1>1, QueueHead
  <1>3. netfd \in Seq(Object) /\ freelist \in Seq(1..Len(netfd)) /\ Len(netfd) \in Nat
    BY <1>0 DEF TypeOK, Object
  <1>4. /\ netfd' \in Seq(Object) /\ freelist' \in Seq(1..Len(netfd')) /\ Len(netfd) <= Len(netfd')
        /\ Objects' /\ Used' = Used /\ \A m \in Used : netfd'[m] = netfd[m]
    <2>1. CASE UNCHANGED <<netfd, freelist>>
      BY <1>0, <1>3, <2>1 DEF Objects, Used
    <2>2. CASE \E fd \in Lowest : NetfdFree(NetfdNew(fd).n, NetfdNew(fd).all, NetfdNew(fd).free)
      <3>1. PICK fd \in Lowest : NetfdFree(NetfdNew(fd).n, NetfdNew(fd).all, NetfdNew(fd).free)
        BY <2>2
      <3>2. fd \in 0..Rlimit
        BY <3>1, LowestFree
      <3> QED  BY <1>0, <1>3, <3>1, <3>2, FreeObject
    <2> QED  BY <1>1, <2>1, <2>2
  <1>5. Accounted'
    BY <1>0, <1>1, <1>4, AccountedKept
  <1>6. TypeOK'
    <2>1. Len(netfd') \in Nat /\ \A m \in 0..Len(netfd) : m \in 0..Len(netfd')
      BY <1>3, <1>4
    <2>2. \A m \in 1..Len(netfd) : m \in 1..Len(netfd')
      BY <1>3, <1>4
    <2>3. DOMAIN clients' \subseteq 1..Len(netfd') /\ listener' \in 0..Len(netfd')
      BY <1>0, <1>1, <2>1, <2>2 DEF TypeOK
    <2> QED  BY <1>0, <1>1, <1>2, <1>4, <2>3 DEF TypeOK, Object
  <1>7. Turns' /\ Listening' /\ BegunFirst'
    BY <1>0, <1>1 DEF Turns, Listening, BegunFirst
  <1>8. Met'
    BY <1>0, <1>1, <1>2 DEF Met
  <1>9. Starting'
    BY <1>1 DEF Starting, AcceptorAssumption
  <1> QED  BY <1>4, <1>5, <1>6, <1>7, <1>8, <1>9 DEF IInv

\* A peer connects.
LEMMA ConnectIInv ==
    ASSUME AcceptorAssumption, IInv, NEW c \in Conn, Connect(c)
    PROVE  IInv'
  <1>0. TypeOK /\ Objects /\ Turns /\ Met /\ Starting /\ Listening /\ BegunFirst /\ Accounted
    BY DEF IInv
  <1>1. /\ acc # "none" /\ c \notin met /\ Len(queue) < Backlog
        /\ met' = met \cup {c} /\ queue' = Append(queue, c)
        /\ UNCHANGED <<running, runq, acc, open, netfd, freelist, listener, clients, thread>>
    BY DEF Connect
  <1>2. queue \in Seq(Conn) /\ IsInjective(queue) /\ c \notin ToSet(queue)
    BY <1>0, <1>1 DEF TypeOK, Met
  <1>3. /\ queue' \in Seq(Conn) /\ IsInjective(queue') /\ ToSet(queue') = ToSet(queue) \cup {c}
    BY <1>1, <1>2, AppendElems
  <1>4. Len(queue') <= Backlog
    BY <1>1, <1>2 DEF AcceptorAssumption
  <1>5. TypeOK'
    BY <1>0, <1>1, <1>3, <1>4 DEF TypeOK
  <1>6. Met'
    BY <1>0, <1>1, <1>3 DEF Met
  <1>7. Objects' /\ Turns' /\ Listening' /\ BegunFirst'
    BY <1>0, <1>1 DEF Objects, Used, Turns, Listening, BegunFirst
  <1>8. Starting' /\ Accounted'
    BY <1>0, <1>1 DEF Starting, Accounted
  <1> QED  BY <1>5, <1>6, <1>7, <1>8 DEF IInv

\* The processor changes hands while descriptors and clients stay as they are.
LEMMA SwitchIInv ==
    ASSUME AcceptorAssumption, IInv, NEW q \in Seq(Coroutine), IsInjective(q), Main \notin ToSet(q), Switch(q),
           running # Main,
           UNCHANGED <<queue, open, netfd, freelist, listener, clients, met>>,
           acc' \in {"none", "accept", "poll", "sleep"}, acc' # "none" => acc # "none",
           acc' = "accept" <=> Accepting \in ToSet(q),
           acc' = "accept" => \A c \in Conn : thread'[c] # "new",
           thread' \in [Conn -> {"none", "new", "ready", "blocked", "ended"}],
           \A c \in Conn : thread'[c] # "none" => c \in met \ ToSet(queue),
           \A c \in Conn : c \in ToSet(q) => thread'[c] \in {"new", "ready"},
           \A c \in Conn : thread'[c] = "new" => c \in ToSet(q)
    PROVE  IInv'
  <1>0. TypeOK /\ Objects /\ Turns /\ Met /\ Starting /\ Listening /\ BegunFirst /\ Accounted
    BY DEF IInv
  <1>1. /\ running' \in Coroutine \cup {Idle, "halt"} /\ running' \notin {Main, "halt"}
        /\ runq' \in Seq(Coroutine) /\ IsInjective(runq')
        /\ running' \notin ToSet(runq') /\ Main \notin ToSet(runq')
        /\ running' = Idle => runq' = <<>>
        /\ \A t \in Coroutine : t \in ToSet(q) <=> t \in ToSet(runq') \cup {running'}
    BY SwitchStep
  <1>2. Accepting \in Coroutine /\ Conn \subseteq Coroutine
    BY DEF Coroutine
  <1>3. TypeOK'
    <2>1. acc' = "accept" <=> (running' = Accepting \/ Accepting \in ToSet(runq'))
      BY <1>1, <1>2
    <2> QED  BY <1>0, <1>1, <2>1 DEF TypeOK
  <1>4. Turns'
    BY <1>1, <1>2 DEF Turns
  <1>5. Met'
    BY <1>0 DEF Met
  <1>6. Starting' /\ Listening' /\ BegunFirst'
    BY <1>0, <1>1 DEF Starting, Listening, BegunFirst
  <1>7. Objects' /\ Accounted'
    BY <1>0 DEF Objects, Used, Accounted
  <1> QED  BY <1>3, <1>4, <1>5, <1>6, <1>7 DEF IInv

\* The accept loop has nothing to accept and waits.
LEMMA WaitIInv ==
    ASSUME AcceptorAssumption, IInv, AcceptWait
    PROVE  IInv'
  <1>0. TypeOK /\ Turns /\ Met /\ Listening /\ BegunFirst
    BY DEF IInv
  <1>1. /\ running = Accepting /\ acc = "accept" /\ acc' = "poll" /\ Switch(runq)
        /\ UNCHANGED <<queue, open, netfd, freelist, listener, clients, thread, met>>
    BY DEF AcceptWait, Loop
  <1>2. /\ runq \in Seq(Coroutine) /\ IsInjective(runq) /\ Main \notin ToSet(runq) /\ Accepting \notin ToSet(runq)
        /\ running # Main
    BY <1>0, <1>1 DEF TypeOK, Turns, AcceptorAssumption
  <1>3. thread' \in [Conn -> {"none", "new", "ready", "blocked", "ended"}]
    BY <1>0, <1>1 DEF TypeOK
  <1>4. /\ \A c \in Conn : thread'[c] # "none" => c \in met \ ToSet(queue)
        /\ \A c \in Conn : c \in ToSet(runq) => thread'[c] \in {"new", "ready"}
        /\ \A c \in Conn : thread'[c] = "new" => c \in ToSet(runq)
    BY <1>0, <1>1 DEF Met, Turns, BegunFirst
  <1> QED  BY <1>1, <1>2, <1>3, <1>4, SwitchIInv

\* A client's coroutine has its turn.
LEMMA TurnIInv ==
    ASSUME AcceptorAssumption, IInv, ClientTurn
    PROVE  IInv'
  <1>0. TypeOK /\ Turns /\ Met /\ Listening /\ BegunFirst
    BY DEF IInv
  <1>1. /\ running \in Conn /\ Switch(runq)
        /\ thread' \in {[thread EXCEPT ![running] = "blocked"], [thread EXCEPT ![running] = "ended"]}
        /\ UNCHANGED <<acc, queue, open, netfd, freelist, listener, clients, met>>
    BY DEF ClientTurn
  <1>2. /\ runq \in Seq(Coroutine) /\ IsInjective(runq) /\ Main \notin ToSet(runq)
        /\ running \notin {Main, Accepting} /\ running \notin ToSet(runq)
    BY <1>0, <1>1 DEF TypeOK, Turns, AcceptorAssumption
  <1>3. /\ thread' \in [Conn -> {"none", "new", "ready", "blocked", "ended"}]
        /\ thread'[running] \in {"blocked", "ended"}
        /\ \A c \in Conn \ {running} : thread'[c] = thread[c]
    BY <1>0, <1>1 DEF TypeOK
  <1>4. thread[running] \in {"new", "ready"}
    BY <1>0, <1>1 DEF Turns
  <1>5. /\ \A c \in Conn : thread'[c] # "none" => c \in met \ ToSet(queue)
        /\ \A c \in Conn : c \in ToSet(runq) => thread'[c] \in {"new", "ready"}
        /\ \A c \in Conn : thread'[c] = "new" => c \in ToSet(runq)
    BY <1>0, <1>1, <1>2, <1>3, <1>4 DEF Met, Turns
  <1>6. /\ acc' \in {"none", "accept", "poll", "sleep"}
        /\ acc' = "accept" <=> Accepting \in ToSet(runq)
        /\ acc' = "accept" => \A c \in Conn : thread'[c] # "new"
    BY <1>0, <1>1, <1>2, <1>3 DEF TypeOK, BegunFirst
  <1> QED  BY <1>1, <1>2, <1>3, <1>5, <1>6, SwitchIInv

\* The idle thread makes coroutines runnable, or ends the process.
LEMMA IdleIInv ==
    ASSUME AcceptorAssumption, IInv, IdleTurn \/ IdleExit
    PROVE  IInv'
  <1>0. TypeOK /\ Objects /\ Turns /\ Met /\ Starting /\ Listening /\ BegunFirst /\ Accounted
    BY DEF IInv
  <1>1. /\ running = Idle /\ running # Main /\ runq = <<>> /\ ToSet(runq) = {}
    <2>1. running = Idle
      BY DEF IdleTurn, IdleExit
    <2> QED  BY <1>0, <2>1, EmptyElems DEF Turns, AcceptorAssumption
  <1>2. Idle \notin Conn /\ Accepting \notin Conn /\ Accepting # Idle /\ Main \notin Conn \cup {Accepting}
    BY DEF AcceptorAssumption
  <1>3. \A c \in Conn : thread[c] # "new"
    BY <1>0, <1>1, <1>2 DEF Turns
  <1>4. acc # "accept"
    BY <1>0, <1>1, <1>2 DEF TypeOK
  <1>5. CASE IdleTurn
    <2>1. PICK ready \in SUBSET {c \in Conn : thread[c] = "blocked"} :
              \E q \in SetToSeqs(ready \cup (IF acc = "poll" /\ queue # <<>> THEN {Accepting} ELSE {})) :
                 /\ Switch(q \o (IF acc = "sleep" THEN <<Accepting>> ELSE <<>>))
                 /\ thread' = [c \in Conn |-> IF c \in ready THEN "ready" ELSE thread[c]]
                 /\ acc' = IF acc = "sleep" \/ Accepting \in ready \cup (IF acc = "poll" /\ queue # <<>> THEN {Accepting} ELSE {})
                           THEN "accept" ELSE acc
      BY <1>5 DEF IdleTurn
    <2>2. acc # "none" /\ UNCHANGED <<queue, open, netfd, freelist, listener, clients, met>>
      BY <1>5 DEF IdleTurn
    <2>3. PICK pollers : pollers = ready \cup (IF acc = "poll" /\ queue # <<>> THEN {Accepting} ELSE {})
      OBVIOUS
    <2>4. PICK q \in SetToSeqs(pollers) :
              /\ Switch(q \o (IF acc = "sleep" THEN <<Accepting>> ELSE <<>>))
              /\ thread' = [c \in Conn |-> IF c \in ready THEN "ready" ELSE thread[c]]
              /\ acc' = IF acc = "sleep" \/ Accepting \in pollers THEN "accept" ELSE acc
      BY <2>1, <2>3
    <2>5. PICK s : s = (IF acc = "sleep" THEN <<Accepting>> ELSE <<>>)
      OBVIOUS
    <2>6. /\ s \in Seq(Coroutine) /\ IsInjective(s)
          /\ ToSet(s) = IF acc = "sleep" THEN {Accepting} ELSE {}
      <3>1. <<Accepting>> \in Seq(Coroutine) /\ IsInjective(<<Accepting>>) /\ ToSet(<<Accepting>>) = {Accepting}
        BY DEF IsInjective, ToSet, Coroutine
      <3>2. <<>> \in Seq(Coroutine)
        OBVIOUS
      <3> QED  BY <2>5, <3>1, <3>2, EmptyElems
    <2>7. ready \subseteq Conn /\ \A c \in ready : thread[c] = "blocked"
      BY <2>1
    <2>8. IsFiniteSet(pollers) /\ pollers \subseteq Coroutine
      <3>1. IsFiniteSet(ready) /\ IsFiniteSet(ready \cup {Accepting})
        BY <2>7, FS_Subset, FS_AddElement DEF AcceptorAssumption
      <3>2. pollers = ready \/ pollers = ready \cup {Accepting}
        BY <2>3
      <3> QED  BY <2>7, <3>1, <3>2 DEF Coroutine
    <2>9. q \in Seq(Coroutine) /\ IsInjective(q) /\ ToSet(q) = pollers
      <3>1. q \in Seq(pollers) /\ IsInjective(q) /\ ToSet(q) = pollers
        BY <2>4, <2>8, SetToSeqsElems
      <3> QED  BY <2>8, <3>1
    <2>10. /\ q \o s \in Seq(Coroutine) /\ IsInjective(q \o s) /\ ToSet(q \o s) = pollers \cup ToSet(s)
      <3>1. ToSet(q) \cap ToSet(s) = {}
        BY <1>2, <2>3, <2>6, <2>7, <2>9
      <3> QED  BY <2>6, <2>9, <3>1, ConcatElems
    <2>11. \A c \in Conn : c \in ToSet(q \o s) <=> c \in ready
      BY <1>2, <2>3, <2>6, <2>10
    <2>12. Main \notin ToSet(q \o s)
      BY <1>2, <2>3, <2>6, <2>7, <2>10
    <2>13. /\ acc' \in {"none", "accept", "poll", "sleep"}
           /\ acc' = "accept" <=> Accepting \in ToSet(q \o s)
      BY <1>0, <1>4, <2>4, <2>6, <2>10 DEF TypeOK
    <2>14. /\ thread' \in [Conn -> {"none", "new", "ready", "blocked", "ended"}]
           /\ \A c \in Conn : thread'[c] = IF c \in ready THEN "ready" ELSE thread[c]
      BY <1>0, <2>4 DEF TypeOK
    <2>15. \A c \in Conn : thread'[c] # "none" => c \in met \ ToSet(queue)
      BY <1>0, <2>7, <2>14 DEF Met
    <2>16. /\ \A c \in Conn : c \in ToSet(q \o s) => thread'[c] \in {"new", "ready"}
           /\ \A c \in Conn : thread'[c] # "new"
      BY <1>3, <2>11, <2>14
    <2>17. Switch(q \o s)
      BY <2>4, <2>5
    <2> QED  BY <1>1, <2>2, <2>10, <2>12, <2>13, <2>14, <2>15, <2>16, <2>17, SwitchIInv
  <1>6. CASE IdleExit
    <2>1. /\ running' = "halt" /\ acc = "none"
          /\ UNCHANGED <<runq, acc, queue, open, netfd, freelist, listener, clients, thread, met>>
      BY <1>6 DEF IdleExit
    <2>2. "halt" \notin Conn \cup {Accepting, Main}
      BY DEF AcceptorAssumption
    <2>3. TypeOK'
      BY <1>0, <1>1, <2>1, <2>2 DEF TypeOK
    <2>4. Turns'
      BY <1>0, <1>1, <1>3, <2>1, <2>2 DEF Turns
    <2>5. Met' /\ Starting' /\ Listening' /\ BegunFirst'
      BY <1>0, <2>1, <2>2 DEF Met, Starting, Listening, BegunFirst
    <2>6. Objects' /\ Accounted'
      BY <1>0, <2>1 DEF Objects, Used, Accounted
    <2> QED  BY <2>3, <2>4, <2>5, <2>6 DEF IInv
  <1> QED  BY <1>5, <1>6

LEMMA NextIInv ==
    ASSUME AcceptorAssumption, IInv, [Next]_vars
    PROVE  IInv'
  <1>1. CASE UNCHANGED vars
    <2>1. UNCHANGED <<running, runq, acc, queue, open, netfd, freelist, listener, clients, thread, met>>
      BY <1>1 DEF vars
    <2> QED  BY <2>1 DEF IInv, TypeOK, Objects, Used, Turns, Met, Starting, Listening, BegunFirst, Accounted
  <1>2. CASE AcceptFull
    BY <1>1, <1>2 DEF AcceptFull
  <1> QED  BY <1>1, <1>2, ListenIInv, AcceptIInv, LostIInv, ConnectIInv, WaitIInv, TurnIInv, IdleIInv
           DEF Next, Server

\* However connections arrive and accepts fail (server.cpp, io.c): descriptors,
\* descriptor objects and entries of clients match one to one, and a client has
\* had its first turn before the next connection is accepted.
THEOREM AcceptsAreAccounted ==
    ASSUME AcceptorAssumption
    PROVE  Spec => []AllAccounted
  <1>1. Init => IInv
    BY InitIInv
  <1>2. IInv /\ [Next]_vars => IInv'
    BY NextIInv
  <1>3. IInv => AllAccounted
    BY DEF IInv, AllAccounted, FirstTurn, Loop, BegunFirst
  <1> QED  BY <1>1, <1>2, <1>3, PTL DEF Spec
===============================================================================
