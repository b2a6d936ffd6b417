----------------------------- MODULE RelayProofs -----------------------------
(***************************************************************************)
(* Proofs about Relay for every set of publishers, players and scripts:    *)
(* type correctness together with the placement of the coroutines in the   *)
(* scheduler's queues, the guarantee behind the hand-off slot, and what    *)
(* happens to the media of one publisher.                                  *)
(***************************************************************************)
EXTENDS Relay, QueueLemmas

-----------------------------------------------------------------------------
(* What the scheduler's steps do to its queues.                             *)

\* An ordering of a set of threads is a sequence with exactly those members.
LEMMA OrderingElems ==
    ASSUME NEW S, S \subseteq Thread, NEW s \in Orderings(S)
    PROVE  s \in Seq(Thread) /\ ToSet(s) = S /\ IsInjective(s)
  <1>1. ToSet(s) = S /\ IsInjective(s) /\ s \in [1..Cardinality(S) -> S]
    BY DEF Orderings
  <1>2. Cardinality(S) \in Nat
    BY FS_CardinalityType, FS_Subset, ThreadAssumption
  <1>3. s \in Seq(S)
    BY <1>1, <1>2, SeqDef
  <1> QED  BY <1>1, <1>3

-----------------------------------------------------------------------------
\* _st_vp_schedule takes one thread from the queue it is given.
LEMMA ScheduleStep ==
    ASSUME NEW q \in Seq(Thread), IsInjective(q), Schedule(q)
    PROVE  /\ running' \in Thread \cup {Idle} /\ runq' \in Seq(Thread)
           /\ IsInjective(runq') /\ running' \notin ToSet(runq')
           /\ ToSet(q) = ToSet(runq') \cup ({running'} \ {Idle})
           /\ running' = Idle => runq' = <<>>
  <1>1. CASE q = <<>>
    <2>1. running' = Idle /\ runq' = <<>>
      BY <1>1 DEF Schedule
    <2>2. ToSet(<<>>) = {} /\ IsInjective(<<>>)
      BY DEF ToSet, IsInjective
    <2> QED  BY <1>1, <2>1, <2>2
  <1>2. CASE q # <<>>
    <2>1. running' = Head(q) /\ runq' = Tail(q)
      BY <1>2 DEF Schedule
    <2>2. /\ Head(q) \in Thread /\ Tail(q) \in Seq(Thread)
          /\ ToSet(q) = ToSet(Tail(q)) \cup {Head(q)}
          /\ IsInjective(Tail(q)) /\ Head(q) \notin ToSet(Tail(q))
      BY <1>2, TailElems
    <2> QED  BY <2>1, <2>2, ThreadAssumption
  <1> QED  BY <1>1, <1>2

\* The queue a running thread leaves behind: its run queue, with threads it
\* created appended.
Fresh(q) ==
    /\ q \in Seq(Thread) /\ IsInjective(q)
    /\ ToSet(q) \cap (ToSet(sleepq) \cup ToSet(ioq) \cup {running}) = {}

\* The run queue itself is one, and so is the run queue with a new thread.
LEMMA FreshRunq ==
    ASSUME QueueType, Apart
    PROVE  Fresh(runq)
  BY DEF QueueType, Apart, Fresh

LEMMA FreshAppend ==
    ASSUME QueueType, Apart, NEW c \in Thread \ Known, c # running
    PROVE  Fresh(Append(runq, c)) /\ ToSet(Append(runq, c)) = ToSet(runq) \cup {c}
  <1>1. /\ Append(runq, c) \in Seq(Thread)
        /\ ToSet(Append(runq, c)) = ToSet(runq) \cup {c}
        /\ IsInjective(Append(runq, c))
    BY AppendElems DEF QueueType, Apart, Known
  <1> QED  BY <1>1 DEF Fresh, Apart, Known

\* st_usleep(0) moves the running thread to the end of the sleepers.
LEMMA UsleepStep ==
    ASSUME QueueType, Apart, running \in Thread, NEW q, Fresh(q), Usleep(q)
    PROVE  /\ QueueType' /\ Apart'
           /\ Known' = ToSet(q) \cup ToSet(sleepq) \cup ToSet(ioq) \cup {running}
           /\ sleepq' = Append(sleepq, running)
           /\ ToSet(sleepq') = ToSet(sleepq) \cup {running} /\ ioq' = ioq
  <1>1. /\ sleepq' = Append(sleepq, running) /\ ioq' = ioq /\ Schedule(q)
        /\ q \in Seq(Thread) /\ IsInjective(q)
        /\ ToSet(q) \cap (ToSet(sleepq) \cup ToSet(ioq) \cup {running}) = {}
    BY DEF Usleep, Fresh
  <1>2. /\ running' \in Thread \cup {Idle} /\ runq' \in Seq(Thread)
        /\ IsInjective(runq') /\ running' \notin ToSet(runq')
        /\ ToSet(q) = ToSet(runq') \cup ({running'} \ {Idle})
        /\ running' = Idle => runq' = <<>>
    BY <1>1, ScheduleStep
  <1>3. /\ sleepq' \in Seq(Thread) /\ ToSet(sleepq') = ToSet(sleepq) \cup {running}
        /\ IsInjective(sleepq')
    BY <1>1, AppendElems DEF QueueType, Apart
  <1>4. Idle \notin ToSet(sleepq') \cup ToSet(ioq')
    BY <1>1, <1>3, ThreadAssumption DEF QueueType, ToSet
  <1>5. QueueType'
    BY <1>1, <1>2, <1>3 DEF QueueType
  <1>6. Apart'
    BY <1>1, <1>2, <1>3, <1>4 DEF Apart
  <1>7. Known' = ToSet(q) \cup ToSet(sleepq) \cup ToSet(ioq) \cup {running}
    BY <1>1, <1>2, <1>3 DEF Known
  <1> QED  BY <1>1, <1>3, <1>5, <1>6, <1>7

\* st_poll moves the running thread to the end of the I/O queue.
LEMMA PollWaitStep ==
    ASSUME QueueType, Apart, running \in Thread, NEW q, Fresh(q), PollWait(q)
    PROVE  /\ QueueType' /\ Apart'
           /\ Known' = ToSet(q) \cup ToSet(sleepq) \cup ToSet(ioq) \cup {running}
           /\ ToSet(ioq') = ToSet(ioq) \cup {running} /\ sleepq' = sleepq
  <1>1. /\ ioq' = Append(ioq, running) /\ sleepq' = sleepq /\ Schedule(q)
        /\ q \in Seq(Thread) /\ IsInjective(q)
        /\ ToSet(q) \cap (ToSet(sleepq) \cup ToSet(ioq) \cup {running}) = {}
    BY DEF PollWait, Fresh
  <1>2. /\ running' \in Thread \cup {Idle} /\ runq' \in Seq(Thread)
        /\ IsInjective(runq') /\ running' \notin ToSet(runq')
        /\ ToSet(q) = ToSet(runq') \cup ({running'} \ {Idle})
        /\ running' = Idle => runq' = <<>>
    BY <1>1, ScheduleStep
  <1>3. /\ ioq' \in Seq(Thread) /\ ToSet(ioq') = ToSet(ioq) \cup {running}
        /\ IsInjective(ioq')
    BY <1>1, AppendElems DEF QueueType, Apart
  <1>4. Idle \notin ToSet(sleepq') \cup ToSet(ioq')
    BY <1>1, <1>3, ThreadAssumption DEF QueueType, ToSet
  <1>5. QueueType'
    BY <1>1, <1>2, <1>3 DEF QueueType
  <1>6. Apart'
    BY <1>1, <1>2, <1>3, <1>4 DEF Apart
  <1>7. Known' = ToSet(q) \cup ToSet(sleepq) \cup ToSet(ioq) \cup {running}
    BY <1>1, <1>2, <1>3 DEF Known
  <1> QED  BY <1>1, <1>3, <1>5, <1>6, <1>7

\* A thread that ends is in no queue afterwards.
LEMMA ThreadExitStep ==
    ASSUME QueueType, Apart, running \in Thread, NEW q, Fresh(q), ThreadExit(q)
    PROVE  /\ QueueType' /\ Apart'
           /\ Known' = ToSet(q) \cup ToSet(sleepq) \cup ToSet(ioq)
           /\ sleepq' = sleepq /\ ioq' = ioq
  <1>1. /\ ioq' = ioq /\ sleepq' = sleepq /\ Schedule(q)
        /\ q \in Seq(Thread) /\ IsInjective(q)
        /\ ToSet(q) \cap (ToSet(sleepq) \cup ToSet(ioq) \cup {running}) = {}
    BY DEF ThreadExit, Fresh
  <1>2. /\ running' \in Thread \cup {Idle} /\ runq' \in Seq(Thread)
        /\ IsInjective(runq') /\ running' \notin ToSet(runq')
        /\ ToSet(q) = ToSet(runq') \cup ({running'} \ {Idle})
        /\ running' = Idle => runq' = <<>>
    BY <1>1, ScheduleStep
  <1>4. Idle \notin ToSet(sleepq') \cup ToSet(ioq')
    BY <1>1, ThreadAssumption DEF QueueType, ToSet
  <1>5. QueueType'
    BY <1>1, <1>2 DEF QueueType
  <1>6. Apart'
    BY <1>1, <1>2, <1>4 DEF Apart
  <1>7. Known' = ToSet(q) \cup ToSet(sleepq) \cup ToSet(ioq)
    BY <1>1, <1>2 DEF Known
  <1> QED  BY <1>1, <1>5, <1>6, <1>7

\* A thread that goes on changes no place.
LEMMA ContinueStep ==
    ASSUME QueueType, Apart, Continue(runq)
    PROVE  /\ QueueType' /\ Apart' /\ Known' = Known
           /\ running' = running /\ runq' = runq /\ sleepq' = sleepq /\ ioq' = ioq
  BY DEF QueueType, Apart, Known, Continue

\* A pass of the idle thread moves sleepers and I/O waiters to the run queue.
LEMMA IdlePassStep ==
    ASSUME QueueType, Apart, NEW ready, NEW late, IdlePass(ready, late),
           ready \subseteq ToSet(ioq), late \subseteq ToSet(ioq), ready \cap late = {}
    PROVE  /\ QueueType' /\ Apart' /\ Known' = Known
           /\ sleepq' = <<>> /\ ToSet(ioq') \subseteq ToSet(ioq)
  <1> DEFINE S == ToSet(sleepq)
             R == ToSet(ioq) \ (ready \cup late)
  <1>1. PICK io \in Orderings(ready), sl \in Orderings(S), to \in Orderings(late) :
            Schedule(io \o sl \o to)
    BY DEF IdlePass
  <1>2. running = Idle /\ runq = <<>> /\ sleepq' = <<>> /\ ioq' \in Orderings(R)
    BY DEF IdlePass, Apart
  <1>3. S \subseteq Thread /\ ToSet(ioq) \subseteq Thread /\ S \cap ToSet(ioq) = {} /\ Idle \notin Thread
    BY ThreadAssumption DEF QueueType, ToSet, Apart
  <1>4. /\ io \in Seq(Thread) /\ ToSet(io) = ready /\ IsInjective(io)
        /\ sl \in Seq(Thread) /\ ToSet(sl) = S /\ IsInjective(sl)
        /\ to \in Seq(Thread) /\ ToSet(to) = late /\ IsInjective(to)
        /\ ioq' \in Seq(Thread) /\ ToSet(ioq') = R /\ IsInjective(ioq')
    <2>1. ready \subseteq Thread /\ late \subseteq Thread /\ R \subseteq Thread
      BY <1>3
    <2> HIDE DEF S, R
    <2> QED  BY <1>2, <1>3, <2>1, OrderingElems
  <1> HIDE DEF S, R
  <1>5. io \o sl \in Seq(Thread) /\ ToSet(io \o sl) = ready \cup S /\ IsInjective(io \o sl)
    BY <1>3, <1>4, ConcatElems
  <1>6. /\ io \o sl \o to \in Seq(Thread) /\ ToSet(io \o sl \o to) = ready \cup S \cup late
        /\ IsInjective(io \o sl \o to)
    <2>1. (ready \cup S) \cap late = {}
      BY <1>3
    <2> DEFINE u == io \o sl
    <2>2. u \in Seq(Thread) /\ ToSet(u) = ready \cup S /\ IsInjective(u)
      BY <1>5
    <2> HIDE DEF u
    <2>3. u \o to \in Seq(Thread) /\ ToSet(u \o to) = ToSet(u) \cup ToSet(to) /\ IsInjective(u \o to)
      BY <1>4, <2>1, <2>2, ConcatElems
    <2> QED  BY <1>4, <2>2, <2>3 DEF u
  <1>7. /\ running' \in Thread \cup {Idle} /\ runq' \in Seq(Thread)
        /\ IsInjective(runq') /\ running' \notin ToSet(runq')
        /\ ready \cup S \cup late = ToSet(runq') \cup ({running'} \ {Idle})
        /\ running' = Idle => runq' = <<>>
    BY <1>1, <1>6, ScheduleStep
  <1>8. ToSet(<<>>) = {} /\ IsInjective(<<>>)
    BY DEF ToSet, IsInjective
  <1>9. QueueType'
    BY <1>2, <1>4, <1>7 DEF QueueType
  <1>10. Apart'
    BY <1>2, <1>3, <1>4, <1>7, <1>8 DEF Apart, R
  <1>11. Known' = Known
    BY <1>2, <1>4, <1>7, <1>8 DEF Known, R, S
  <1> QED  BY <1>2, <1>4, <1>9, <1>10, <1>11 DEF R

-----------------------------------------------------------------------------
(* What the steps of the clients do to the types.                           *)

\* Clients are threads, and none of them is the listener or the idle thread.
LEMMA ClientFacts ==
    /\ Client \subseteq Thread /\ Listener \in Thread /\ Listener \notin Client
    /\ Publisher \subseteq Client /\ Player \subseteq Client
    /\ Idle \notin Thread /\ None \notin Thread
  BY RelayAssumption, ThreadAssumption DEF Client

\* A client that moves between two states of its life stays alive.
LEMMA LiveSame ==
    ASSUME NEW c \in Client, pc \in [Client -> ControlState], NEW x,
           pc' = [pc EXCEPT ![c] = x],
           pc[c] \notin {"absent", "done"}, x \notin {"absent", "done"}
    PROVE  Live' = Live
  BY ClientFacts, RelayAssumption DEF Live, Client

\* An unchanged control state leaves the live threads as they are.
LEMMA LiveUnchanged ==
    ASSUME UNCHANGED pc
    PROVE  Live' = Live
  BY DEF Live

\* consumers.insert keeps the map well formed.
LEMMA InsertType ==
    ASSUME SharedType, quiet \in BOOLEAN, NEW q \in Player, Insert(q)
    PROVE  SharedType' /\ quiet' \in BOOLEAN
  <1>1. CASE q \in consumers
    BY <1>1 DEF SharedType, Insert, shared
  <1>2. CASE q \notin consumers
    <2>1. /\ consumers' = consumers \cup {q} /\ begin' \in consumers'
          /\ slot' = [slot EXCEPT ![q] = 0]
      BY <1>2 DEF Insert, NULL
    <2>2. quiet' = (quiet /\ begin' = begin)
      BY <1>2 DEF Insert
    <2>3. SharedType'
      BY <2>1, ClientFacts DEF SharedType
    <2>4. quiet' \in BOOLEAN
      BY <2>2
    <2> QED  BY <2>3, <2>4
  <1> QED  BY <1>1, <1>2

\* The unit a socket delivers is a unit of a message of that publisher.
LEMMA DeliveredType ==
    ASSUME PushType, NEW p \in Publisher, Pending(p)
    PROVE  /\ Delivered(p) \in Content
           /\ Successor(p) \in (Nat \ {0}) \X (0..MaxLen + 1)
  <1>1. PICK n \in Nat \ {0}, k \in 0..MaxLen + 1 : next[p] = <<n, k>>
    BY DEF PushType
  <1>2. Script[p] \in Seq([csid : Csid, len : 1..MaxLen]) /\ MaxLen \in Nat
    BY RelayAssumption
  <1>7. n \in 1..Len(Script[p])
    <2>1. Len(Script[p]) \in Nat
      BY <1>2
    <2>2. n <= Len(Script[p])
      BY <1>1 DEF Pending
    <2> QED  BY <2>1, <2>2
  <1>3. Script[p][n].len \in 1..MaxLen
    <2>1. Script[p][n] \in [csid : Csid, len : 1..MaxLen]
      BY <1>2, <1>7, ElementOfSeq
    <2> QED  BY <2>1
  <1>4. <<p, n, k>> \in Units
    BY <1>1, <1>7 DEF Units
  <1>5. Delivered(p) \in Content
    BY <1>1, <1>4 DEF Delivered, Unit, Content
  <1>6. Successor(p) \in (Nat \ {0}) \X (0..MaxLen + 1)
    <2>1. next[p][1] = n /\ next[p][2] = k
      BY <1>1
    <2>2. CASE k < Script[p][n].len + 1
      <3>1. Successor(p) = <<n, k + 1>>
        BY <2>1, <2>2 DEF Successor
      <3>2. k + 1 \in 0..MaxLen + 1
        BY <1>2, <1>3, <2>2
      <3> QED  BY <3>1, <3>2
    <2>3. CASE ~(k < Script[p][n].len + 1)
      <3>1. Successor(p) = <<n + 1, 0>>
        BY <2>1, <2>3 DEF Successor
      <3> QED  BY <3>1, <1>2
    <2> QED  BY <2>2, <2>3
  <1> QED  BY <1>5, <1>6

\* Appending keeps the buffer well formed.
LEMMA AppendType ==
    ASSUME BufferType, NEW u \in Content, AppendUnit(u)
    PROVE  BufferType'
  <1>1. MaxUnits \in Nat /\ NoUnit \in Content
    BY RelayAssumption DEF Content
  <1>2. CASE size + 1 > cap
    BY <1>1, <1>2 DEF BufferType, AppendUnit
  <1>3. CASE ~(size + 1 > cap)
    BY <1>1, <1>3 DEF BufferType, AppendUnit
  <1> QED  BY <1>2, <1>3

\* read_nbytes_cycle_av keeps the buffer and the stream position well formed.
LEMMA ReadType ==
    ASSUME BufferType, PushType, poll \in [Thread -> PollResult],
           NEW p \in Publisher, NEW n, ReadUpTo(p, n)
    PROVE  /\ BufferType' /\ next' \in [Publisher -> (Nat \ {0}) \X (0..MaxLen + 1)]
           /\ poll' \in [Thread -> PollResult]
  <1>1. CASE size >= n /\ poll[p] = "none"
    BY <1>1 DEF ReadUpTo, buffer, BufferType, PushType
  <1>2. CASE ~(size >= n /\ poll[p] = "none")
    <2>1. /\ Pending(p) /\ AppendUnit(Delivered(p))
          /\ next' = [next EXCEPT ![p] = Successor(p)]
          /\ poll' = [poll EXCEPT ![p] = "none"]
      BY <1>2 DEF ReadUpTo
    <2>2. BufferType'
      BY <2>1, DeliveredType, AppendType
    <2>3. next' \in [Publisher -> (Nat \ {0}) \X (0..MaxLen + 1)]
      BY <2>1, DeliveredType DEF PushType
    <2>4. poll' \in [Thread -> PollResult]
      BY <2>1 DEF PollResult
    <2> QED  BY <2>2, <2>3, <2>4
  <1> QED  BY <1>1, <1>2

\* What a message header decodes to has the types of a Message_Header.
LEMMA DecodedHeaderType ==
    ASSUME NEW u, NEW h \in DecodedHeader(u)
    PROVE  h.len \in Int /\ h.msg \in Nat
  <1>1. CASE u \in Units /\ u[3] = 1
    <2>1. PICK p \in Publisher : u \in {p} \X (1..Len(Script[p])) \X (0..MaxLen + 1)
      BY <1>1 DEF Units
    <2>2. Script[p] \in Seq([csid : Csid, len : 1..MaxLen])
      BY RelayAssumption
    <2>3. u[1] = p /\ u[2] \in 1..Len(Script[p]) /\ Len(Script[p]) \in Nat
      BY <2>1, <2>2
    <2>4. Script[u[1]][u[2]] \in [csid : Csid, len : 1..MaxLen]
      BY <2>2, <2>3, ElementOfSeq
    <2>5. h = [len |-> Script[u[1]][u[2]].len, msg |-> u[2]]
      BY <1>1 DEF DecodedHeader
    <2> QED  BY <2>3, <2>4, <2>5, RelayAssumption
  <1>2. CASE ~(u \in Units /\ u[3] = 1)
    BY <1>2, RelayAssumption DEF DecodedHeader
  <1> QED  BY <1>1, <1>2

\* The chunk a pass is about to write is well formed.
LEMMA NextChunkType ==
    ASSUME SharedType, BufferType, HeaderType, PullType, NEW q \in Player
    PROVE  begin \in Player => NextChunk(q) \in PendingChunk
  <1> SUFFICES ASSUME begin \in Player PROVE NextChunk(q) \in PendingChunk
    OBVIOUS
  <1>1. Header.hl \in Int /\ Header.len \in Int /\ Header.msg \in Nat
    BY DEF Header, HeaderType, MessageHeader
  <1>2. slot[begin] \in Nat /\ total[q] \in Nat
    BY DEF SharedType, PullType
  <1>3. ByteAt(slot[begin], Header.hl + total[q]) \in Content
    BY <1>1, <1>2 DEF ByteAt, BufferType, Content
  <1>4. NextChunk(q).body \in Content
    BY <1>3 DEF NextChunk, Content
  <1> QED  BY <1>1, <1>2, <1>3 DEF NextChunk, PendingChunk, Content

\* Writing a chunk extends the record of the pass.
LEMMA WrittenType ==
    ASSUME PullType, NEW q \in Player, NEW h \in Nat, NEW b \in Content, Written(q, h, b)
    PROVE  sent' \in [Player -> Seq(WireChunk)]
  <1>1. [head |-> h, body |-> b] \in WireChunk
    BY DEF WireChunk
  <1>2. Append(sent[q], [head |-> h, body |-> b]) \in Seq(WireChunk)
    BY <1>1 DEF PullType
  <1> QED  BY <1>2 DEF Written, PullType

-----------------------------------------------------------------------------
(* Every step keeps the types and the placement of the coroutines.          *)

\* A player past IdentifyClient has its node in the consumers map.
Registered ==
    \A q \in Player :
        pc[q] \in {"setup", "meta", "metaWrite", "poll", "send", "write"} => q \in consumers

LEMMA SafetyStep ==
    ASSUME TypeOK, InOnePlace, Registered, Next
    PROVE  TypeOK' /\ InOnePlace'
  <1> DEFINE Goal == TypeOK' /\ InOnePlace'
  <1>1. /\ QueueType /\ Apart /\ Live = Known
        /\ poll \in [Thread -> PollResult] /\ pc \in [Client -> ControlState]
        /\ SharedType /\ BufferType /\ HeaderType /\ PushType /\ PullType /\ HistType
        /\ Fresh(runq)
    BY FreshRunq DEF TypeOK, TypeOKSched, InOnePlace
  <1>2. ASSUME QueueType', Apart', Live' = Known',
               poll' \in [Thread -> PollResult], pc' \in [Client -> ControlState],
               SharedType', BufferType', HeaderType', PushType', PullType', HistType'
        PROVE  Goal
    BY <1>2 DEF TypeOK, TypeOKSched, InOnePlace
  <1>3. ASSUME NEW c \in Client, Accept(c) PROVE Goal
    <2>1. running = Listener /\ Usleep(Append(runq, c)) /\ pc[c] = "absent"
      BY <1>3 DEF Accept
    <2>2. c \in Thread \ Known /\ c # running
      BY <1>1, <2>1, ClientFacts DEF Live
    <2>3. Fresh(Append(runq, c)) /\ ToSet(Append(runq, c)) = ToSet(runq) \cup {c}
      BY <1>1, <2>2, FreshAppend
    <2>4. QueueType' /\ Apart' /\ Known' = Known \cup {c}
      <3>1. running \in Thread /\ running # Idle
        BY <2>1, ClientFacts
      <3> QED  BY <1>1, <2>1, <2>3, <3>1, UsleepStep DEF Known
    <2>5. Live' = Known'
      <3>1. pc' = [pc EXCEPT ![c] = "session"]
        BY <1>3 DEF Accept
      <3>2. Live' = Live \cup {c}
        BY <1>1, <3>1, ClientFacts DEF Live, Client
      <3> QED  BY <1>1, <2>4, <3>2
    <2>6. poll' \in [Thread -> PollResult] /\ pc' \in [Client -> ControlState]
      BY <1>1, <1>3 DEF Accept, PollResult, ControlState
    <2>7. SharedType' /\ BufferType' /\ HeaderType' /\ PushType' /\ PullType' /\ HistType'
      BY <1>1, <1>3 DEF Accept, SharedType, BufferType, HeaderType, PushType, PullType, HistType,
                     shared, buffer, header, push, pull, hist
    <2> QED  BY <2>4, <2>5, <2>6, <2>7, <1>2
  <1>4. ASSUME AcceptWait PROVE Goal
    <2>1. QueueType' /\ Apart' /\ Known' = Known
      <3>1. running \in Thread /\ running # Idle /\ PollWait(runq)
        BY <1>4, ClientFacts DEF AcceptWait
      <3> QED  BY <1>1, <3>1, PollWaitStep DEF Known
    <2>2. Live' = Known'
      BY <1>1, <1>4, <2>1, LiveUnchanged DEF AcceptWait
    <2>3. poll' \in [Thread -> PollResult]
      BY <1>1, <1>4 DEF AcceptWait, PollWait, PollResult
    <2>4. pc' \in [Client -> ControlState]
      BY <1>1, <1>4, ClientFacts DEF AcceptWait, ControlState
    <2>5. SharedType' /\ BufferType' /\ HeaderType' /\ PushType' /\ PullType' /\ HistType'
      BY <1>1, <1>4 DEF AcceptWait, SharedType, BufferType, HeaderType, PushType, PullType, HistType, shared, buffer, header, push, pull, hist
    <2> QED  BY <2>1, <2>2, <2>3, <2>4, <2>5, <1>2
  <1>5. ASSUME NEW c \in Client, CommandWait(c) PROVE Goal
    <2>1. QueueType' /\ Apart' /\ Known' = Known
      <3>1. running \in Thread /\ running # Idle /\ PollWait(runq)
        BY <1>5, ClientFacts DEF CommandWait
      <3> QED  BY <1>1, <3>1, PollWaitStep DEF Known
    <2>2. Live' = Known'
      BY <1>1, <1>5, <2>1, LiveUnchanged DEF CommandWait
    <2>3. poll' \in [Thread -> PollResult]
      BY <1>1, <1>5 DEF CommandWait, PollWait, PollResult
    <2>4. pc' \in [Client -> ControlState]
      BY <1>1, <1>5, ClientFacts DEF CommandWait, ControlState
    <2>5. SharedType' /\ BufferType' /\ HeaderType' /\ PushType' /\ PullType' /\ HistType'
      BY <1>1, <1>5 DEF CommandWait, SharedType, BufferType, HeaderType, PushType, PullType, HistType, shared, buffer, header, push, pull, hist
    <2> QED  BY <2>1, <2>2, <2>3, <2>4, <2>5, <1>2
  <1>6. ASSUME NEW c \in Client, SessionFail(c) PROVE Goal
    <2>1. QueueType' /\ Apart' /\ Known' = Known \ {c}
      <3>1. running = c /\ running \in Thread /\ running # Idle /\ ThreadExit(runq)
        BY <1>6, ClientFacts DEF SessionFail
      <3> QED  BY <1>1, <3>1, ThreadExitStep DEF Known, Apart
    <2>2. Live' = Known'
      <3>1. pc' = [pc EXCEPT ![c] = "done"]
        BY <1>6 DEF SessionFail
      <3>2. Live' = Live \ {c}
        BY <1>1, <3>1, ClientFacts DEF Live, Client
      <3> QED  BY <1>1, <2>1, <3>2
    <2>3. poll' \in [Thread -> PollResult]
      BY <1>1, <1>6 DEF SessionFail, ThreadExit, PollResult
    <2>4. pc' \in [Client -> ControlState]
      BY <1>1, <1>6, ClientFacts DEF SessionFail, ControlState
    <2>5. SharedType' /\ BufferType' /\ HeaderType' /\ PushType' /\ PullType' /\ HistType'
      BY <1>1, <1>6 DEF SessionFail, SharedType, BufferType, HeaderType, PushType, PullType, HistType, shared, buffer, header, push, pull, hist
    <2> QED  BY <2>1, <2>2, <2>3, <2>4, <2>5, <1>2
  <1>7. ASSUME NEW p \in Publisher, Identify(p) PROVE Goal
    <2>1. QueueType' /\ Apart' /\ Known' = Known
      BY <1>1, <1>7, ContinueStep DEF Identify
    <2>2. Live' = Known'
      <3>1. \E x \in ControlState \ {"absent", "done"} : pc' = [pc EXCEPT ![p] = x]
        BY <1>7 DEF Identify, ControlState
      <3>2. pc[p] \notin {"absent", "done"}
        BY <1>7 DEF Identify
      <3> QED  BY <1>1, <2>1, <3>1, <3>2, LiveSame, ClientFacts
    <2>3. poll' \in [Thread -> PollResult]
      BY <1>1, <1>7 DEF Identify, PollResult
    <2>4. pc' \in [Client -> ControlState]
      BY <1>1, <1>7, ClientFacts DEF Identify, ControlState
    <2>5. SharedType' /\ BufferType' /\ HeaderType' /\ PushType' /\ PullType' /\ HistType'
      BY <1>1, <1>7 DEF Identify, SharedType, BufferType, HeaderType, PushType, PullType, HistType, shared, buffer, header, push, pull, hist
    <2> QED  BY <2>1, <2>2, <2>3, <2>4, <2>5, <1>2
  <1>8. ASSUME NEW q \in Player, IdentifyPull(q) PROVE Goal
    <2>1. QueueType' /\ Apart' /\ Known' = Known
      BY <1>1, <1>8, ContinueStep DEF IdentifyPull
    <2>2. Live' = Known'
      <3>1. \E x \in ControlState \ {"absent", "done"} : pc' = [pc EXCEPT ![q] = x]
        BY <1>8 DEF IdentifyPull, ControlState
      <3>2. pc[q] \notin {"absent", "done"}
        BY <1>8 DEF IdentifyPull
      <3> QED  BY <1>1, <2>1, <3>1, <3>2, LiveSame, ClientFacts
    <2>3. poll' \in [Thread -> PollResult]
      BY <1>1, <1>8 DEF IdentifyPull, PollResult
    <2>4. pc' \in [Client -> ControlState]
      BY <1>1, <1>8, ClientFacts DEF IdentifyPull, ControlState
    <2>5. BufferType' /\ HeaderType' /\ PushType' /\ PullType'
      BY <1>1, <1>8 DEF IdentifyPull, BufferType, HeaderType, PushType, PullType, buffer, header, push, pull
    <2>6. SharedType'
      BY <1>1, <1>8, InsertType DEF IdentifyPull, HistType
    <2>7. HistType'
      <3>1. quiet' \in BOOLEAN
        BY <1>1, <1>8, InsertType DEF IdentifyPull, HistType
      <3> QED  BY <1>1, <1>8, <3>1 DEF IdentifyPull, HistType
    <2> QED  BY <2>1, <2>2, <2>3, <2>4, <2>5, <2>6, <2>7, <1>2
  <1>9. ASSUME NEW p \in Publisher, SetDataFrame(p) PROVE Goal
    <2>1. QueueType' /\ Apart' /\ Known' = Known
      BY <1>1, <1>9, ContinueStep DEF SetDataFrame
    <2>2. Live' = Known'
      <3>1. \E x \in ControlState \ {"absent", "done"} : pc' = [pc EXCEPT ![p] = x]
        BY <1>9 DEF SetDataFrame, ControlState
      <3>2. pc[p] \notin {"absent", "done"}
        BY <1>9 DEF SetDataFrame
      <3> QED  BY <1>1, <2>1, <3>1, <3>2, LiveSame, ClientFacts
    <2>3. poll' \in [Thread -> PollResult]
      BY <1>1, <1>9 DEF SetDataFrame, PollResult
    <2>4. pc' \in [Client -> ControlState]
      BY <1>1, <1>9, ClientFacts DEF SetDataFrame, ControlState
    <2>5. SharedType' /\ BufferType' /\ PushType' /\ PullType' /\ HistType'
      BY <1>1, <1>9 DEF SetDataFrame, SharedType, BufferType, PushType, PullType, HistType, shared, buffer, push, pull, hist
    <2>6. HeaderType'
      <3>1. currCsid' = currCsid /\ csidHeader' \in [Csid -> MessageHeader]
        <4> DEFINE h == [csidHeader[MetaCsid] EXCEPT !.len = MetaLen, !.msg = 0]
        <4>1. h \in MessageHeader
          <5>1. csidHeader[MetaCsid] \in MessageHeader
            BY <1>1, RelayAssumption DEF HeaderType
          <5>2. MetaLen \in Int
            BY RelayAssumption
          <5> QED  BY <5>1, <5>2 DEF MessageHeader
        <4>2. csidHeader' \in {csidHeader, [csidHeader EXCEPT ![MetaCsid] = h]} /\ currCsid' = currCsid
          BY <1>9 DEF SetDataFrame, MetaHeader
        <4> QED  BY <1>1, <4>1, <4>2, RelayAssumption DEF HeaderType
      <3>2. setDataFrame' \in BOOLEAN
        BY <1>1, <1>9 DEF SetDataFrame, HeaderType
      <3> QED  BY <1>1, <3>1, <3>2 DEF HeaderType
    <2> QED  BY <2>1, <2>2, <2>3, <2>4, <2>5, <2>6, <1>2
  <1>10. ASSUME NEW q \in Player, PlaySetup(q) PROVE Goal
    <2>1. QueueType' /\ Apart' /\ Known' = Known
      BY <1>1, <1>10, ContinueStep DEF PlaySetup
    <2>2. Live' = Known'
      <3>1. \E x \in ControlState \ {"absent", "done"} : pc' = [pc EXCEPT ![q] = x]
        BY <1>10 DEF PlaySetup, ControlState
      <3>2. pc[q] \notin {"absent", "done"}
        BY <1>10 DEF PlaySetup
      <3> QED  BY <1>1, <2>1, <3>1, <3>2, LiveSame, ClientFacts
    <2>3. poll' \in [Thread -> PollResult]
      BY <1>1, <1>10 DEF PlaySetup, PollResult
    <2>4. pc' \in [Client -> ControlState]
      BY <1>1, <1>10, ClientFacts DEF PlaySetup, ControlState
    <2>5. SharedType' /\ BufferType' /\ HeaderType' /\ PushType' /\ PullType' /\ HistType'
      BY <1>1, <1>10 DEF PlaySetup, SharedType, BufferType, HeaderType, PushType, PullType, HistType, shared, buffer, header, push, pull, hist
    <2> QED  BY <2>1, <2>2, <2>3, <2>4, <2>5, <1>2
  <1>11. ASSUME NEW q \in Player, AwaitMetaData(q) PROVE Goal
    <2>1. QueueType' /\ Apart' /\ Known' = Known
      <3>1. running \in Thread /\ running # Idle /\ Usleep(runq)
        BY <1>11, ClientFacts DEF AwaitMetaData
      <3> QED  BY <1>1, <3>1, UsleepStep DEF Known
    <2>2. Live' = Known'
      BY <1>1, <1>11, <2>1, LiveUnchanged DEF AwaitMetaData
    <2>3. poll' \in [Thread -> PollResult]
      BY <1>1, <1>11 DEF AwaitMetaData, PollResult
    <2>4. pc' \in [Client -> ControlState]
      BY <1>1, <1>11, ClientFacts DEF AwaitMetaData, ControlState
    <2>5. SharedType' /\ BufferType' /\ HeaderType' /\ PushType' /\ PullType' /\ HistType'
      BY <1>1, <1>11 DEF AwaitMetaData, SharedType, BufferType, HeaderType, PushType, PullType, HistType, shared, buffer, header, push, pull, hist
    <2> QED  BY <2>1, <2>2, <2>3, <2>4, <2>5, <1>2
  <1>12. ASSUME NEW q \in Player, OnMetaDataBlock(q) PROVE Goal
    <2>1. QueueType' /\ Apart' /\ Known' = Known
      <3>1. running \in Thread /\ running # Idle /\ PollWait(runq)
        BY <1>12, ClientFacts DEF OnMetaDataBlock
      <3> QED  BY <1>1, <3>1, PollWaitStep DEF Known
    <2>2. Live' = Known'
      <3>1. \E x \in ControlState \ {"absent", "done"} : pc' = [pc EXCEPT ![q] = x]
        BY <1>12 DEF OnMetaDataBlock, ControlState
      <3>2. pc[q] \notin {"absent", "done"}
        BY <1>12 DEF OnMetaDataBlock
      <3> QED  BY <1>1, <2>1, <3>1, <3>2, LiveSame, ClientFacts
    <2>3. poll' \in [Thread -> PollResult]
      BY <1>1, <1>12 DEF OnMetaDataBlock, PollWait, PollResult
    <2>4. pc' \in [Client -> ControlState]
      BY <1>1, <1>12, ClientFacts DEF OnMetaDataBlock, ControlState
    <2>5. SharedType' /\ BufferType' /\ HeaderType' /\ PushType' /\ PullType' /\ HistType'
      BY <1>1, <1>12 DEF OnMetaDataBlock, SharedType, BufferType, HeaderType, PushType, PullType, HistType, shared, buffer, header, push, pull, hist
    <2> QED  BY <2>1, <2>2, <2>3, <2>4, <2>5, <1>2
  <1>13. ASSUME NEW q \in Player, OnMetaData(q) PROVE Goal
    <2>1. QueueType' /\ Apart' /\ Known' = Known
      BY <1>1, <1>13, ContinueStep DEF OnMetaData
    <2>2. Live' = Known'
      <3>1. \E x \in ControlState \ {"absent", "done"} : pc' = [pc EXCEPT ![q] = x]
        BY <1>13 DEF OnMetaData, ControlState
      <3>2. pc[q] \notin {"absent", "done"}
        BY <1>13 DEF OnMetaData
      <3> QED  BY <1>1, <2>1, <3>1, <3>2, LiveSame, ClientFacts
    <2>3. poll' \in [Thread -> PollResult]
      BY <1>1, <1>13 DEF OnMetaData, PollResult
    <2>4. pc' \in [Client -> ControlState]
      BY <1>1, <1>13, ClientFacts DEF OnMetaData, ControlState
    <2>5. BufferType' /\ HeaderType' /\ PushType' /\ PullType'
      BY <1>1, <1>13 DEF OnMetaData, BufferType, HeaderType, PushType, PullType, buffer, header, push, pull
    <2>6. SharedType'
      BY <1>1, <1>13, InsertType DEF OnMetaData, HistType
    <2>7. HistType'
      <3>1. quiet' \in BOOLEAN
        BY <1>1, <1>13, InsertType DEF OnMetaData, HistType
      <3> QED  BY <1>1, <1>13, <3>1 DEF OnMetaData, HistType
    <2> QED  BY <2>1, <2>2, <2>3, <2>4, <2>5, <2>6, <2>7, <1>2
  <1>14. ASSUME NEW p \in Publisher, ReadBasicHeader(p) PROVE Goal
    <2>1. QueueType' /\ Apart' /\ Known' = Known
      BY <1>1, <1>14, ContinueStep DEF ReadBasicHeader
    <2>2. Live' = Known'
      <3>1. \E x \in ControlState \ {"absent", "done"} : pc' = [pc EXCEPT ![p] = x]
        BY <1>14 DEF ReadBasicHeader, ControlState
      <3>2. pc[p] \notin {"absent", "done"}
        BY <1>14 DEF ReadBasicHeader
      <3> QED  BY <1>1, <2>1, <3>1, <3>2, LiveSame, ClientFacts
    <2>3. poll' \in [Thread -> PollResult]
      BY <1>1, <1>14, ReadType DEF ReadBasicHeader
    <2>4. pc' \in [Client -> ControlState]
      BY <1>1, <1>14, ClientFacts DEF ReadBasicHeader, ControlState
    <2>5. SharedType' /\ PullType' /\ HistType'
      BY <1>1, <1>14 DEF ReadBasicHeader, SharedType, PullType, HistType, shared, pull, hist
    <2>6. BufferType'
      BY <1>1, <1>14, ReadType DEF ReadBasicHeader
    <2>7. HeaderType'
      BY <1>1, <1>14 DEF ReadBasicHeader, DecodedCsid, HeaderType
    <2>8. PushType'
      <3>1. next' \in [Publisher -> (Nat \ {0}) \X (0..MaxLen + 1)]
        BY <1>1, <1>14, ReadType DEF ReadBasicHeader
      <3>2. csid' \in [Publisher -> Csid]
        BY <1>1, <1>14 DEF ReadBasicHeader, DecodedCsid, PushType
      <3> QED  BY <1>1, <1>14, <3>1, <3>2 DEF ReadBasicHeader, PushType
    <2> QED  BY <2>1, <2>2, <2>3, <2>4, <2>5, <2>6, <2>7, <2>8, <1>2
  <1>15. ASSUME NEW p \in Publisher, ReadMessageHeader(p) PROVE Goal
    <2>1. QueueType' /\ Apart' /\ Known' = Known
      BY <1>1, <1>15, ContinueStep DEF ReadMessageHeader
    <2>2. Live' = Known'
      <3>1. \E x \in ControlState \ {"absent", "done"} : pc' = [pc EXCEPT ![p] = x]
        BY <1>15 DEF ReadMessageHeader, ControlState
      <3>2. pc[p] \notin {"absent", "done"}
        BY <1>15 DEF ReadMessageHeader
      <3> QED  BY <1>1, <2>1, <3>1, <3>2, LiveSame, ClientFacts
    <2>3. poll' \in [Thread -> PollResult]
      BY <1>1, <1>15, ReadType DEF ReadMessageHeader
    <2>4. pc' \in [Client -> ControlState]
      BY <1>1, <1>15, ClientFacts DEF ReadMessageHeader, ControlState
    <2>5. SharedType' /\ PullType' /\ HistType'
      BY <1>1, <1>15 DEF ReadMessageHeader, SharedType, PullType, HistType, shared, pull, hist
    <2>6. BufferType'
      BY <1>1, <1>15, ReadType DEF ReadMessageHeader
    <2>7. HeaderType'
      <3>1. PICK h \in DecodedHeader(mem'[2]) :
               csidHeader' = [csidHeader EXCEPT ![csid[p]] = [@ EXCEPT !.len = h.len, !.msg = h.msg]]
        BY <1>15 DEF ReadMessageHeader
      <3>2. h.len \in Int /\ h.msg \in Nat
        BY DecodedHeaderType
      <3>3. csid[p] \in Csid /\ csidHeader[csid[p]] \in MessageHeader
        BY <1>1 DEF PushType, HeaderType
      <3>4. [csidHeader[csid[p]] EXCEPT !.len = h.len, !.msg = h.msg] \in MessageHeader
        BY <3>2, <3>3 DEF MessageHeader
      <3>5. csidHeader' \in [Csid -> MessageHeader]
        BY <1>1, <3>1, <3>4 DEF HeaderType
      <3> QED  BY <1>1, <1>15, <3>5 DEF ReadMessageHeader, HeaderType
    <2>8. PushType'
      <3>1. next' \in [Publisher -> (Nat \ {0}) \X (0..MaxLen + 1)]
        BY <1>1, <1>15, ReadType DEF ReadMessageHeader
      <3> QED  BY <1>1, <1>15, <3>1 DEF ReadMessageHeader, PushType, HeaderType
    <2> QED  BY <2>1, <2>2, <2>3, <2>4, <2>5, <2>6, <2>7, <2>8, <1>2
  <1>16. ASSUME NEW p \in Publisher, ReadChunk(p) PROVE Goal
    <2>1. QueueType' /\ Apart' /\ Known' = Known
      BY <1>1, <1>16, ContinueStep DEF ReadChunk
    <2>2. Live' = Known'
      BY <1>1, <1>16, <2>1, LiveUnchanged DEF ReadChunk
    <2>3. poll' \in [Thread -> PollResult]
      BY <1>1, <1>16, ReadType DEF ReadChunk
    <2>4. pc' \in [Client -> ControlState]
      BY <1>1, <1>16, ClientFacts DEF ReadChunk, ControlState
    <2>5. SharedType' /\ HeaderType' /\ PullType' /\ HistType'
      BY <1>1, <1>16 DEF ReadChunk, SharedType, HeaderType, PullType, HistType, shared, header, pull, hist
    <2>6. BufferType'
      BY <1>1, <1>16, ReadType DEF ReadChunk
    <2>7. PushType'
      <3>1. next' \in [Publisher -> (Nat \ {0}) \X (0..MaxLen + 1)]
        BY <1>1, <1>16, ReadType DEF ReadChunk
      <3>2. got' \in [Publisher -> Nat] /\ aligned' = aligned /\ csid' = csid
        BY <1>1, <1>16 DEF ReadChunk, PushType
      <3> QED  BY <1>1, <3>1, <3>2 DEF PushType
    <2> QED  BY <2>1, <2>2, <2>3, <2>4, <2>5, <2>6, <2>7, <1>2
  <1>17. ASSUME NEW p \in Publisher, ReadWait(p) PROVE Goal
    <2>1. QueueType' /\ Apart' /\ Known' = Known
      <3>1. running \in Thread /\ running # Idle /\ PollWait(runq)
        BY <1>17, ClientFacts DEF ReadWait
      <3> QED  BY <1>1, <3>1, PollWaitStep DEF Known
    <2>2. Live' = Known'
      BY <1>1, <1>17, <2>1, LiveUnchanged DEF ReadWait
    <2>3. poll' \in [Thread -> PollResult]
      BY <1>1, <1>17 DEF ReadWait, PollWait, PollResult
    <2>4. pc' \in [Client -> ControlState]
      BY <1>1, <1>17, ClientFacts DEF ReadWait, ControlState
    <2>5. SharedType' /\ BufferType' /\ HeaderType' /\ PushType' /\ PullType' /\ HistType'
      BY <1>1, <1>17 DEF ReadWait, SharedType, BufferType, HeaderType, PushType, PullType, HistType, shared, buffer, header, push, pull, hist
    <2> QED  BY <2>1, <2>2, <2>3, <2>4, <2>5, <1>2
  <1>18. ASSUME NEW p \in Publisher, ReadEof(p) PROVE Goal
    <2>1. QueueType' /\ Apart' /\ Known' = Known
      BY <1>1, <1>18, ContinueStep DEF ReadEof, NeedsRead
    <2>2. Live' = Known'
      <3>1. \E x \in ControlState \ {"absent", "done"} : pc' = [pc EXCEPT ![p] = x]
        BY <1>18 DEF ReadEof, ControlState
      <3>2. pc[p] \notin {"absent", "done"}
        BY <1>18 DEF ReadEof, NeedsRead
      <3> QED  BY <1>1, <2>1, <3>1, <3>2, LiveSame, ClientFacts
    <2>3. poll' \in [Thread -> PollResult]
      BY <1>1, <1>18 DEF ReadEof, NeedsRead, PollResult
    <2>4. pc' \in [Client -> ControlState]
      BY <1>1, <1>18, ClientFacts DEF ReadEof, NeedsRead, ControlState
    <2>5. SharedType' /\ BufferType' /\ HeaderType' /\ PushType' /\ PullType' /\ HistType'
      BY <1>1, <1>18 DEF ReadEof, NeedsRead, SharedType, BufferType, HeaderType, PushType, PullType, HistType, shared, buffer, header, push, pull, hist
    <2> QED  BY <2>1, <2>2, <2>3, <2>4, <2>5, <1>2
  <1>19. ASSUME NEW c \in Client, Spin(c) PROVE Goal
    <2>1. QueueType' /\ Apart' /\ Known' = Known
      BY <1>1, <1>19 DEF Spin, vars, sched, QueueType, Apart, Known
    <2>2. Live' = Known'
      BY <1>1, <1>19, <2>1, LiveUnchanged DEF Spin, vars
    <2>3. poll' \in [Thread -> PollResult]
      BY <1>1, <1>19 DEF Spin, PollResult, vars, sched
    <2>4. pc' \in [Client -> ControlState]
      BY <1>1, <1>19, ClientFacts DEF Spin, ControlState, vars, sched
    <2>5. SharedType' /\ BufferType' /\ HeaderType' /\ PushType' /\ PullType' /\ HistType'
      BY <1>1, <1>19 DEF Spin, SharedType, BufferType, HeaderType, PushType, PullType, HistType, shared, buffer, header, push, pull, hist, vars
    <2> QED  BY <2>1, <2>2, <2>3, <2>4, <2>5, <1>2
  <1>20. ASSUME NEW p \in Publisher, ReceiveDone(p) PROVE Goal
    <2>1. QueueType' /\ Apart' /\ Known' = Known
      <3>1. running \in Thread /\ running # Idle /\ Usleep(runq)
        BY <1>20, ClientFacts DEF ReceiveDone, HandOff
      <3> QED  BY <1>1, <3>1, UsleepStep DEF Known
    <2>2. Live' = Known'
      <3>1. \E x \in ControlState \ {"absent", "done"} : pc' = [pc EXCEPT ![p] = x]
        BY <1>20 DEF ReceiveDone, ControlState, HandOff
      <3>2. pc[p] \notin {"absent", "done"}
        BY <1>20 DEF ReceiveDone
      <3> QED  BY <1>1, <2>1, <3>1, <3>2, LiveSame, ClientFacts
    <2>3. poll' \in [Thread -> PollResult]
      BY <1>1, <1>20 DEF ReceiveDone, HandOff, PollResult
    <2>4. pc' \in [Client -> ControlState]
      BY <1>1, <1>20, ClientFacts DEF ReceiveDone, HandOff, ControlState
    <2>5. BufferType' /\ PullType'
      BY <1>1, <1>20 DEF ReceiveDone, HandOff, BufferType, PullType, buffer, pull
    <2>6. SharedType'
      BY <1>1, <1>20, ClientFacts DEF ReceiveDone, HandOff, SharedType, BufferType
    <2>7. HeaderType'
      <3>1. PICK hl \in Int : HandOff(p, hl)
        BY <1>20 DEF ReceiveDone, HeaderLength
      <3> QED  BY <1>1, <3>1 DEF HandOff, HeaderType, MessageHeader
    <2>8. PushType'
      BY <1>1, <1>20 DEF ReceiveDone, HandOff, PushType
    <2>9. HistType'
      <3>1. PICK hl \in Int : HandOff(p, hl)
        BY <1>20 DEF ReceiveDone, HeaderLength
      <3>2. waiting' \subseteq Player /\ taken' \subseteq Player /\ quiet' \in BOOLEAN
        BY <3>1 DEF HandOff
      <3>5. handed' \in Player \cup {None}
        BY <1>1, <3>1 DEF HandOff, SharedType
      <3>3. intact' \in [Publisher -> BOOLEAN]
        BY <1>1, <1>20 DEF ReceiveDone, HistType
      <3>4. timeouts' \in Nat
        BY <1>1, <1>20 DEF ReceiveDone, HistType
      <3> QED  BY <1>1, <3>1, <3>2, <3>3, <3>4, <3>5 DEF HandOff, HistType
    <2> QED  BY <2>1, <2>2, <2>3, <2>4, <2>5, <2>6, <2>7, <2>8, <2>9, <1>2
  <1>21. ASSUME NEW p \in Publisher, ReceiveFail(p) PROVE Goal
    <2>1. QueueType' /\ Apart' /\ Known' = Known
      <3>1. running \in Thread /\ running # Idle /\ Usleep(runq)
        BY <1>21, ClientFacts DEF ReceiveFail, HandOff, NeedsRead
      <3> QED  BY <1>1, <3>1, UsleepStep DEF Known
    <2>2. Live' = Known'
      <3>1. \E x \in ControlState \ {"absent", "done"} : pc' = [pc EXCEPT ![p] = x]
        BY <1>21 DEF ReceiveFail, ControlState, HandOff
      <3>2. pc[p] \notin {"absent", "done"}
        BY <1>21 DEF ReceiveFail, NeedsRead
      <3> QED  BY <1>1, <2>1, <3>1, <3>2, LiveSame, ClientFacts
    <2>3. poll' \in [Thread -> PollResult]
      BY <1>1, <1>21 DEF ReceiveFail, HandOff, NeedsRead, PollResult
    <2>4. pc' \in [Client -> ControlState]
      BY <1>1, <1>21, ClientFacts DEF ReceiveFail, HandOff, NeedsRead, ControlState
    <2>5. BufferType' /\ PullType'
      BY <1>1, <1>21 DEF ReceiveFail, HandOff, NeedsRead, BufferType, PullType, buffer, pull
    <2>6. SharedType'
      BY <1>1, <1>21, ClientFacts DEF ReceiveFail, HandOff, SharedType, BufferType
    <2>7. HeaderType'
      <3>1. PICK hl \in Int : HandOff(p, hl)
        BY <1>21 DEF ReceiveFail, HeaderLength
      <3> QED  BY <1>1, <3>1 DEF HandOff, HeaderType, MessageHeader
    <2>8. PushType'
      BY <1>1, <1>21 DEF ReceiveFail, HandOff, PushType
    <2>9. HistType'
      <3>1. PICK hl \in Int : HandOff(p, hl)
        BY <1>21 DEF ReceiveFail, HeaderLength
      <3>2. waiting' \subseteq Player /\ taken' \subseteq Player /\ quiet' \in BOOLEAN
        BY <3>1 DEF HandOff
      <3>5. handed' \in Player \cup {None}
        BY <1>1, <3>1 DEF HandOff, SharedType
      <3>3. intact' \in [Publisher -> BOOLEAN]
        BY <1>1, <1>21 DEF ReceiveFail, HistType
      <3>4. timeouts' \in Nat
        BY <1>1, <1>21 DEF ReceiveFail, ReadFails, HistType
      <3> QED  BY <1>1, <3>1, <3>2, <3>3, <3>4, <3>5 DEF HandOff, HistType
    <2> QED  BY <2>1, <2>2, <2>3, <2>4, <2>5, <2>6, <2>7, <2>8, <2>9, <1>2
  <1>22. ASSUME NEW p \in Publisher, Clear(p) PROVE Goal
    <2>1. QueueType' /\ Apart' /\ Known' = Known
      BY <1>1, <1>22, ContinueStep DEF Clear
    <2>2. Live' = Known'
      <3>1. \E x \in ControlState \ {"absent", "done"} : pc' = [pc EXCEPT ![p] = x]
        BY <1>22 DEF Clear, ControlState
      <3>2. pc[p] \notin {"absent", "done"}
        BY <1>22 DEF Clear
      <3> QED  BY <1>1, <2>1, <3>1, <3>2, LiveSame, ClientFacts
    <2>3. poll' \in [Thread -> PollResult]
      BY <1>1, <1>22 DEF Clear, PollResult
    <2>4. pc' \in [Client -> ControlState]
      BY <1>1, <1>22, ClientFacts DEF Clear, ControlState
    <2>5. SharedType' /\ HeaderType' /\ PushType' /\ PullType' /\ HistType'
      BY <1>1, <1>22 DEF Clear, SharedType, HeaderType, PushType, PullType, HistType, shared, header, push, pull, hist
    <2>6. BufferType'
      BY <1>1, <1>22, RelayAssumption DEF Clear, BufferType, Content
    <2> QED  BY <2>1, <2>2, <2>3, <2>4, <2>5, <2>6, <1>2
  <1>23. ASSUME NEW q \in Player, PollSlot(q) PROVE Goal
    <2>1. QueueType' /\ Apart' /\ Known' = Known
      <3>1. running \in Thread /\ running # Idle /\ Usleep(runq)
        BY <1>23, ClientFacts DEF PollSlot
      <3> QED  BY <1>1, <3>1, UsleepStep DEF Known
    <2>2. Live' = Known'
      BY <1>1, <1>23, <2>1, LiveUnchanged DEF PollSlot
    <2>3. poll' \in [Thread -> PollResult]
      BY <1>1, <1>23 DEF PollSlot, PollResult
    <2>4. pc' \in [Client -> ControlState]
      BY <1>1, <1>23, ClientFacts DEF PollSlot, ControlState
    <2>5. SharedType' /\ BufferType' /\ HeaderType' /\ PushType' /\ PullType' /\ HistType'
      BY <1>1, <1>23 DEF PollSlot, SharedType, BufferType, HeaderType, PushType, PullType, HistType, shared, buffer, header, push, pull, hist
    <2> QED  BY <2>1, <2>2, <2>3, <2>4, <2>5, <1>2
  <1>24. ASSUME NEW q \in Player, TakeSlot(q) PROVE Goal
    <2>1. QueueType' /\ Apart' /\ Known' = Known
      BY <1>1, <1>24, ContinueStep DEF TakeSlot
    <2>2. Live' = Known'
      <3>1. \E x \in ControlState \ {"absent", "done"} : pc' = [pc EXCEPT ![q] = x]
        BY <1>24 DEF TakeSlot, ControlState
      <3>2. pc[q] \notin {"absent", "done"}
        BY <1>24 DEF TakeSlot
      <3> QED  BY <1>1, <2>1, <3>1, <3>2, LiveSame, ClientFacts
    <2>3. poll' \in [Thread -> PollResult]
      BY <1>1, <1>24 DEF TakeSlot, PollResult
    <2>4. pc' \in [Client -> ControlState]
      BY <1>1, <1>24, ClientFacts DEF TakeSlot, ControlState
    <2>5. SharedType' /\ BufferType' /\ HeaderType' /\ PushType'
      BY <1>1, <1>24 DEF TakeSlot, SharedType, BufferType, HeaderType, PushType, shared, buffer, header, push
    <2>6. PullType'
      BY <1>1, <1>24 DEF TakeSlot, PullType
    <2>7. HistType'
      BY <1>1, <1>24 DEF TakeSlot, HistType
    <2> QED  BY <2>1, <2>2, <2>3, <2>4, <2>5, <2>6, <2>7, <1>2
  <1>25. ASSUME NEW q \in Player, WriteChunk(q) PROVE Goal
    <2>1. QueueType' /\ Apart' /\ Known' = Known
      BY <1>1, <1>25, ContinueStep DEF WriteChunk
    <2>2. Live' = Known'
      BY <1>1, <1>25, <2>1, LiveUnchanged DEF WriteChunk
    <2>3. poll' \in [Thread -> PollResult]
      BY <1>1, <1>25 DEF WriteChunk, PollResult
    <2>4. pc' \in [Client -> ControlState]
      BY <1>1, <1>25, ClientFacts DEF WriteChunk, ControlState
    <2>5. SharedType' /\ BufferType' /\ HeaderType' /\ PushType' /\ HistType'
      BY <1>1, <1>25 DEF WriteChunk, SharedType, BufferType, HeaderType, PushType, HistType, shared, buffer, header, push, hist
    <2>6. PullType'
      <3>1. NextChunk(q).head \in Nat /\ NextChunk(q).body \in Content
        <4>1. begin \in Player
          BY <1>1, <1>25 DEF WriteChunk, Registered, SharedType
        <4> QED  BY <1>1, <4>1, NextChunkType DEF PendingChunk
      <3> QED  BY <1>1, <1>25, <3>1, WrittenType DEF WriteChunk, PullType
    <2> QED  BY <2>1, <2>2, <2>3, <2>4, <2>5, <2>6, <1>2
  <1>26. ASSUME NEW q \in Player, WriteNothing(q) PROVE Goal
    <2>1. QueueType' /\ Apart' /\ Known' = Known
      BY <1>1, <1>26 DEF WriteNothing, WritesNothing, vars, sched, QueueType, Apart, Known
    <2>2. Live' = Known'
      BY <1>1, <1>26, <2>1, LiveUnchanged DEF WriteNothing, WritesNothing, vars
    <2>3. poll' \in [Thread -> PollResult]
      BY <1>1, <1>26 DEF WriteNothing, WritesNothing, PollResult, vars, sched
    <2>4. pc' \in [Client -> ControlState]
      BY <1>1, <1>26, ClientFacts DEF WriteNothing, WritesNothing, ControlState, vars, sched
    <2>5. SharedType' /\ BufferType' /\ HeaderType' /\ PushType' /\ PullType' /\ HistType'
      BY <1>1, <1>26 DEF WriteNothing, WritesNothing, SharedType, BufferType, HeaderType, PushType, PullType, HistType, shared, buffer, header, push, pull, hist, vars
    <2> QED  BY <2>1, <2>2, <2>3, <2>4, <2>5, <1>2
  <1>27. ASSUME NEW q \in Player, WriteBlock(q) PROVE Goal
    <2>1. QueueType' /\ Apart' /\ Known' = Known
      <3>1. running \in Thread /\ running # Idle /\ PollWait(runq)
        BY <1>27, ClientFacts DEF WriteBlock
      <3> QED  BY <1>1, <3>1, PollWaitStep DEF Known
    <2>2. Live' = Known'
      <3>1. \E x \in ControlState \ {"absent", "done"} : pc' = [pc EXCEPT ![q] = x]
        BY <1>27 DEF WriteBlock, ControlState
      <3>2. pc[q] \notin {"absent", "done"}
        BY <1>27 DEF WriteBlock
      <3> QED  BY <1>1, <2>1, <3>1, <3>2, LiveSame, ClientFacts
    <2>3. poll' \in [Thread -> PollResult]
      BY <1>1, <1>27 DEF WriteBlock, PollWait, PollResult
    <2>4. pc' \in [Client -> ControlState]
      BY <1>1, <1>27, ClientFacts DEF WriteBlock, ControlState
    <2>5. SharedType' /\ BufferType' /\ HeaderType' /\ PushType'
      BY <1>1, <1>27 DEF WriteBlock, SharedType, BufferType, HeaderType, PushType, shared, buffer, header, push
    <2>6. PullType'
      <3>1. begin \in Player
        BY <1>1, <1>27 DEF WriteBlock, Registered, SharedType
      <3>2. NextChunk(q) \in PendingChunk
        BY <1>1, <3>1, NextChunkType
      <3> QED  BY <1>1, <1>27, <3>2 DEF WriteBlock, PullType
    <2>7. HistType'
      BY <1>1, <1>27 DEF WriteBlock, HistType
    <2> QED  BY <2>1, <2>2, <2>3, <2>4, <2>5, <2>6, <2>7, <1>2
  <1>28. ASSUME NEW q \in Player, WriteResume(q) PROVE Goal
    <2>1. QueueType' /\ Apart' /\ Known' = Known
      BY <1>1, <1>28, ContinueStep DEF WriteResume
    <2>2. Live' = Known'
      <3>1. \E x \in ControlState \ {"absent", "done"} : pc' = [pc EXCEPT ![q] = x]
        BY <1>28 DEF WriteResume, ControlState
      <3>2. pc[q] \notin {"absent", "done"}
        BY <1>28 DEF WriteResume
      <3> QED  BY <1>1, <2>1, <3>1, <3>2, LiveSame, ClientFacts
    <2>3. poll' \in [Thread -> PollResult]
      BY <1>1, <1>28 DEF WriteResume, PollResult
    <2>4. pc' \in [Client -> ControlState]
      BY <1>1, <1>28, ClientFacts DEF WriteResume, ControlState
    <2>5. SharedType' /\ BufferType' /\ HeaderType' /\ PushType' /\ HistType'
      BY <1>1, <1>28 DEF WriteResume, SharedType, BufferType, HeaderType, PushType, HistType, shared, buffer, header, push, hist
    <2>6. PullType'
      <3>1. pend[q] \in PendingChunk
        BY <1>1 DEF PullType
      <3>2. pend[q].len \in 0..1 /\ pend[q].head \in Nat /\ pend[q].body \in Content
        BY <3>1 DEF PendingChunk
      <3>3. \E b \in Content : sent' = sent \/ Written(q, pend[q].head, b)
        BY <1>28, <3>2 DEF WriteResume, Content
      <3>4. sent' \in [Player -> Seq(WireChunk)]
        BY <1>1, <3>2, <3>3, WrittenType DEF PullType
      <3>5. skew' \in [Player -> BOOLEAN]
        BY <1>1, <1>28 DEF WriteResume, PullType
      <3>6. total' \in [Player -> Nat]
        BY <1>1, <1>28, <3>2 DEF WriteResume, PullType
      <3>7. pend' \in [Player -> PendingChunk]
        BY <1>1, <1>28 DEF WriteResume, PullType, NoPend, PendingChunk, Content, NULL
      <3> QED  BY <3>4, <3>5, <3>6, <3>7 DEF PullType
    <2> QED  BY <2>1, <2>2, <2>3, <2>4, <2>5, <2>6, <1>2
  <1>29. ASSUME NEW q \in Player, WriteFail(q) PROVE Goal
    <2>1. QueueType' /\ Apart' /\ Known' = Known \ {q}
      <3>1. running = q /\ running \in Thread /\ running # Idle /\ ThreadExit(runq)
        BY <1>29, ClientFacts DEF WriteFail
      <3> QED  BY <1>1, <3>1, ThreadExitStep DEF Known, Apart
    <2>2. Live' = Known'
      <3>1. pc' = [pc EXCEPT ![q] = "done"]
        BY <1>29 DEF WriteFail
      <3>2. Live' = Live \ {q}
        BY <1>1, <3>1, ClientFacts DEF Live, Client
      <3> QED  BY <1>1, <2>1, <3>2
    <2>3. poll' \in [Thread -> PollResult]
      BY <1>1, <1>29 DEF WriteFail, ThreadExit, PollResult
    <2>4. pc' \in [Client -> ControlState]
      BY <1>1, <1>29, ClientFacts DEF WriteFail, ControlState
    <2>5. SharedType' /\ BufferType' /\ HeaderType' /\ PushType'
      BY <1>1, <1>29 DEF WriteFail, SharedType, BufferType, HeaderType, PushType, shared, buffer, header, push
    <2>6. PullType'
      BY <1>1, <1>29 DEF WriteFail, PullType, NoPend, PendingChunk, Content, NULL
    <2>7. HistType'
      BY <1>1, <1>29 DEF WriteFail, HistType
    <2> QED  BY <2>1, <2>2, <2>3, <2>4, <2>5, <2>6, <2>7, <1>2
  <1>30. ASSUME NEW q \in Player, PassDone(q) PROVE Goal
    <2>1. QueueType' /\ Apart' /\ Known' = Known
      <3>1. running \in Thread /\ running # Idle /\ Usleep(runq)
        BY <1>30, ClientFacts DEF PassDone
      <3> QED  BY <1>1, <3>1, UsleepStep DEF Known
    <2>2. Live' = Known'
      <3>1. \E x \in ControlState \ {"absent", "done"} : pc' = [pc EXCEPT ![q] = x]
        BY <1>30 DEF PassDone, ControlState
      <3>2. pc[q] \notin {"absent", "done"}
        BY <1>30 DEF PassDone
      <3> QED  BY <1>1, <2>1, <3>1, <3>2, LiveSame, ClientFacts
    <2>3. poll' \in [Thread -> PollResult]
      BY <1>1, <1>30 DEF PassDone, PollResult
    <2>4. pc' \in [Client -> ControlState]
      BY <1>1, <1>30, ClientFacts DEF PassDone, ControlState
    <2>5. BufferType' /\ HeaderType' /\ PushType' /\ PullType'
      BY <1>1, <1>30 DEF PassDone, BufferType, HeaderType, PushType, PullType, buffer, header, push, pull
    <2>6. SharedType'
      BY <1>1, <1>30 DEF PassDone, SharedType, NULL
    <2>7. HistType'
      <3>1. sent[q] \in Seq(WireChunk)
        BY <1>1 DEF PullType
      <3>2. sent[q] # <<>> => sent[q][1].head \in Nat
        <4>1. sent[q] # <<>> => sent[q][1] \in WireChunk
          BY <3>1
        <4> QED  BY <4>1 DEF WireChunk
      <3>3. played' \in Seq(Nat)
        BY <1>1, <1>30, <3>2 DEF PassDone, HistType
      <3> QED  BY <1>1, <1>30, <3>3 DEF PassDone, HistType
    <2> QED  BY <2>1, <2>2, <2>3, <2>4, <2>5, <2>6, <2>7, <1>2
  <1>31. ASSUME IdleThread PROVE Goal
    <2>1. PICK ready \in SUBSET ToSet(ioq), late \in SUBSET ToSet(ioq) :
              /\ ready \cap late = {} /\ IdlePass(ready, late)
              /\ timeouts' = timeouts + Cardinality(late)
      BY <1>31 DEF IdleThread
    <2>2. QueueType' /\ Apart' /\ Known' = Known
      BY <1>1, <2>1, IdlePassStep
    <2>3. Live' = Known'
      BY <1>1, <1>31, <2>2, LiveUnchanged DEF IdleThread
    <2>4. poll' \in [Thread -> PollResult]
      BY <1>1, <2>1 DEF IdlePass, PollResult
    <2>5. Cardinality(late) \in Nat
      <3>1. late \subseteq Thread
        BY <1>1, <2>1 DEF QueueType, ToSet
      <3> QED  BY <3>1, FS_CardinalityType, FS_Subset, ThreadAssumption
    <2>6. HistType'
      BY <1>1, <1>31, <2>1, <2>5 DEF IdleThread, HistType
    <2>7. pc' \in [Client -> ControlState] /\ SharedType' /\ BufferType' /\ HeaderType' /\ PushType' /\ PullType'
      BY <1>1, <1>31 DEF IdleThread, SharedType, BufferType, HeaderType, PushType, PullType,
                     shared, buffer, header, push, pull
    <2> QED  BY <2>2, <2>3, <2>4, <2>6, <2>7, <1>2
  <1>32. ASSUME IdleBlock PROVE Goal
    <2>1. QueueType' /\ Apart' /\ Known' = Known
      BY <1>1, <1>32 DEF IdleBlock, vars, sched, QueueType, Apart, Known
    <2>2. Live' = Known'
      BY <1>1, <1>32, <2>1, LiveUnchanged DEF IdleBlock, vars
    <2>3. poll' \in [Thread -> PollResult]
      BY <1>1, <1>32 DEF IdleBlock, PollResult, vars, sched
    <2>4. pc' \in [Client -> ControlState]
      BY <1>1, <1>32, ClientFacts DEF IdleBlock, ControlState, vars, sched
    <2>5. SharedType' /\ BufferType' /\ HeaderType' /\ PushType' /\ PullType' /\ HistType'
      BY <1>1, <1>32 DEF IdleBlock, SharedType, BufferType, HeaderType, PushType, PullType, HistType, shared, buffer, header, push, pull, hist, vars
    <2> QED  BY <2>1, <2>2, <2>3, <2>4, <2>5, <1>2
  <1>33. ASSUME NEW c \in Client, CommandEof(c) PROVE Goal
    <2>1. QueueType' /\ Apart' /\ Known' = Known
      BY <1>1, <1>33, ContinueStep DEF CommandEof
    <2>2. Live' = Known'
      <3>1. \E x \in ControlState \ {"absent", "done"} : pc' = [pc EXCEPT ![c] = x]
        BY <1>33 DEF CommandEof, ControlState
      <3>2. pc[c] \notin {"absent", "done"}
        BY <1>33 DEF CommandEof
      <3> QED  BY <1>1, <2>1, <3>1, <3>2, LiveSame, ClientFacts
    <2>3. poll' \in [Thread -> PollResult]
      BY <1>1, <1>33 DEF CommandEof, PollResult
    <2>4. pc' \in [Client -> ControlState]
      BY <1>1, <1>33, ClientFacts DEF CommandEof, ControlState
    <2>5. SharedType' /\ BufferType' /\ HeaderType' /\ PushType' /\ PullType' /\ HistType'
      BY <1>1, <1>33 DEF CommandEof, SharedType, BufferType, HeaderType, PushType, PullType, HistType, shared, buffer, header, push, pull, hist
    <2> QED  BY <2>1, <2>2, <2>3, <2>4, <2>5, <1>2
  <1>34. ASSUME NEW p \in Publisher, SetDataFrameFail(p) PROVE Goal
    <2>1. QueueType' /\ Apart' /\ Known' = Known
      BY <1>1, <1>34, ContinueStep DEF SetDataFrameFail
    <2>2. Live' = Known'
      <3>1. \E x \in ControlState \ {"absent", "done"} : pc' = [pc EXCEPT ![p] = x]
        BY <1>34 DEF SetDataFrameFail, ControlState
      <3>2. pc[p] \notin {"absent", "done"}
        BY <1>34 DEF SetDataFrameFail
      <3> QED  BY <1>1, <2>1, <3>1, <3>2, LiveSame, ClientFacts
    <2>3. poll' \in [Thread -> PollResult]
      BY <1>1, <1>34 DEF SetDataFrameFail, PollResult
    <2>4. pc' \in [Client -> ControlState]
      BY <1>1, <1>34, ClientFacts DEF SetDataFrameFail, ControlState
    <2>5. SharedType' /\ BufferType' /\ PullType'
      BY <1>1, <1>34 DEF SetDataFrameFail, SharedType, BufferType, PullType, shared, buffer, pull
    <2>6. HeaderType'
      <3>1. currCsid' = currCsid /\ csidHeader' \in [Csid -> MessageHeader]
        <4> DEFINE h == [csidHeader[MetaCsid] EXCEPT !.len = MetaLen, !.msg = 0]
        <4>1. h \in MessageHeader
          <5>1. csidHeader[MetaCsid] \in MessageHeader
            BY <1>1, RelayAssumption DEF HeaderType
          <5>2. MetaLen \in Int
            BY RelayAssumption
          <5> QED  BY <5>1, <5>2 DEF MessageHeader
        <4>2. csidHeader' \in {csidHeader, [csidHeader EXCEPT ![MetaCsid] = h]} /\ currCsid' = currCsid
          BY <1>34 DEF SetDataFrameFail, MetaHeader
        <4> QED  BY <1>1, <4>1, <4>2, RelayAssumption DEF HeaderType
      <3>2. setDataFrame' \in BOOLEAN
        BY <1>1, <1>34 DEF SetDataFrameFail, HeaderType
      <3> QED  BY <1>1, <3>1, <3>2 DEF HeaderType
    <2>7. PushType'
      BY <1>1, <1>34 DEF SetDataFrameFail, PushType
    <2>8. HistType'
      <3>1. timeouts' \in Nat
        BY <1>1, <1>34 DEF SetDataFrameFail, ReadFails, HistType
      <3>2. intact' \in [Publisher -> BOOLEAN]
        BY <1>1, <1>34 DEF SetDataFrameFail, HistType
      <3> QED  BY <1>1, <1>34, <3>1, <3>2 DEF SetDataFrameFail, HistType
    <2> QED  BY <2>1, <2>2, <2>3, <2>4, <2>5, <2>6, <2>7, <2>8, <1>2
  <1> QED  BY <1>3, <1>4, <1>5, <1>6, <1>7, <1>8, <1>9, <1>10, <1>11, <1>12, <1>13, <1>14, <1>15, <1>16, <1>17, <1>18, <1>19, <1>20, <1>21, <1>22, <1>23, <1>24, <1>25, <1>26, <1>27, <1>28, <1>29, <1>30, <1>31, <1>32, <1>33, <1>34 DEF Next, Publish, Play
\* Only the running player is inside its send loop.
Sending == \A q \in Player : pc[q] = "send" => running = q

\* A polling player is never inside st_poll.
PollAwake == \A q \in Player : pc[q] = "poll" => q \notin ToSet(ioq)

\* A hand-off of p that began in a quiet round, with players polling, and that
\* nobody has taken yet.
Window(p) == pc[p] = "handoff" /\ quiet /\ waiting # {} /\ taken = {}

\* A player of waiting gets its turn before p does: while p sleeps, one runs, is
\* queued or is the oldest sleeper; once p is queued, one runs or is before it.
Ahead(p) ==
    \/ /\ p \in ToSet(sleepq)
       /\ running \in waiting \/ ToSet(runq) \cap waiting # {} \/ Head(sleepq) \in waiting
    \/ \E i \in DOMAIN runq :
          /\ runq[i] = p
          /\ running \in waiting \/ \E j \in DOMAIN runq : j < i /\ runq[j] \in waiting

\* The strengthening of HandoffTaken that is inductive.
HandoffInv ==
    \A p \in Publisher : Publisher = {p} /\ Window(p) =>
        /\ begin \in consumers /\ slot[begin] # NULL
        /\ \A q \in Player : pc[q] \notin {"send", "write"}
        /\ \A w \in waiting : pc[w] = "poll"
        /\ Ahead(p)


-----------------------------------------------------------------------------
(* The three auxiliary facts.                                               *)

\* What it takes for a client's step to keep them: the client is running, its
\* new state is not "send" if it gives up the processor, and not "poll" if it
\* joins the I/O queue.
LEMMA AuxByClient ==
    ASSUME TypeOK, InOnePlace, Registered, Sending, PollAwake,
           NEW c \in Client, running = c, consumers \subseteq consumers',
           \/ pc' = pc
           \/ \E x \in ControlState : pc' = [pc EXCEPT ![c] = x],
           c \in Player /\ pc'[c] \in {"setup", "meta", "metaWrite", "poll", "send", "write"}
              => c \in consumers',
           c \in Player /\ pc'[c] = "send" => running' = running,
           \/ ToSet(ioq') \subseteq ToSet(ioq)
           \/ /\ ToSet(ioq') = ToSet(ioq) \cup {running}
              /\ c \in Player => pc'[c] # "poll"
    PROVE  Registered' /\ Sending' /\ PollAwake'
  <1>1. pc \in [Client -> ControlState] /\ running \notin ToSet(ioq)
    BY DEF TypeOK, InOnePlace, Apart
  <1>2. \A q \in Player : q # c => pc'[q] = pc[q]
    BY <1>1, ClientFacts
  <1>3. Registered'
    BY <1>2 DEF Registered
  <1>4. Sending'
    BY <1>2 DEF Sending
  <1>5. PollAwake'
    BY <1>1, <1>2 DEF PollAwake
  <1> QED  BY <1>3, <1>4, <1>5

\* The listener and the idle thread change no client's state.
LEMMA AuxByOther ==
    ASSUME TypeOK, Registered, Sending, PollAwake, running \notin Client,
           consumers' = consumers,
           \/ pc' = pc
           \/ \E c \in Client : pc' = [pc EXCEPT ![c] = "session"],
           ToSet(ioq') \subseteq ToSet(ioq) \cup {running}
    PROVE  Registered' /\ Sending' /\ PollAwake'
  <1>1. pc \in [Client -> ControlState]
    BY DEF TypeOK
  <1>2. \A q \in Player : pc'[q] = pc[q] \/ pc'[q] = "session"
    BY <1>1, ClientFacts
  <1>3. Registered'
    BY <1>2 DEF Registered
  <1>4. Sending'
    BY <1>2, ClientFacts DEF Sending
  <1>5. PollAwake'
    BY <1>2, ClientFacts DEF PollAwake
  <1> QED  BY <1>3, <1>4, <1>5

LEMMA AuxStep ==
    ASSUME TypeOK, InOnePlace, Registered, Sending, PollAwake, Next
    PROVE  Registered' /\ Sending' /\ PollAwake'
  <1> DEFINE Goal == Registered' /\ Sending' /\ PollAwake'
  <1>1. /\ QueueType /\ Apart /\ Fresh(runq) /\ SharedType
        /\ pc \in [Client -> ControlState]
    BY FreshRunq DEF TypeOK, TypeOKSched, InOnePlace
  <1> USE ClientFacts
  <1>2. ASSUME NEW c \in Client, Accept(c) PROVE Goal
    BY <1>2, AuxByOther DEF Accept, Usleep, shared
  <1>3. ASSUME AcceptWait PROVE Goal
    <2>1. running = Listener /\ PollWait(runq) /\ pc' = pc /\ consumers' = consumers
      BY <1>3 DEF AcceptWait, shared
    <2>2. ToSet(ioq') = ToSet(ioq) \cup {running}
      BY <1>1, <2>1, PollWaitStep
    <2> QED  BY <2>1, <2>2, AuxByOther
  <1>4. ASSUME IdleThread PROVE Goal
    <2>1. running = Idle /\ pc' = pc /\ consumers' = consumers
      BY <1>4 DEF IdleThread, shared
    <2>2. PICK ready \in SUBSET ToSet(ioq), late \in SUBSET ToSet(ioq) :
              ready \cap late = {} /\ IdlePass(ready, late)
      BY <1>4 DEF IdleThread
    <2>3. ToSet(ioq') \subseteq ToSet(ioq)
      BY <1>1, <2>2, IdlePassStep
    <2> QED  BY <2>1, <2>3, AuxByOther
  <1>5. ASSUME IdleBlock PROVE Goal
    BY <1>5 DEF IdleBlock, vars, sched, shared, Registered, Sending, PollAwake
  <1>6. ASSUME NEW c \in Client, CommandWait(c) PROVE Goal
    <2>1. running = c /\ consumers \subseteq consumers'
      BY <1>1, <1>6 DEF CommandWait, shared, Insert, SharedType
    <2>2. ToSet(ioq') = ToSet(ioq) \cup {running}
      <3>1. running \in Thread /\ PollWait(runq)
        BY <1>6, <2>1 DEF CommandWait
      <3> QED  BY <1>1, <3>1, PollWaitStep
    <2>3. \/ pc' = pc
          \/ \E x \in ControlState : pc' = [pc EXCEPT ![c] = x]
      BY <1>6 DEF CommandWait, ControlState
    <2>4. c \in Player /\ pc'[c] \in {"setup", "meta", "metaWrite", "poll", "send", "write"}
              => c \in consumers'
      BY <1>1, <1>6, <2>1, <2>3 DEF CommandWait, Registered, Insert, shared
    <2>5. c \in Player /\ pc'[c] = "send" => running' = running
      BY <1>1, <1>6, <2>3 DEF CommandWait, PollWait
    <2>6. c \in Player => pc'[c] # "poll"
      BY <1>1, <1>6, <2>3 DEF CommandWait
    <2> QED  BY <2>1, <2>2, <2>3, <2>4, <2>5, <2>6, AuxByClient
  <1>7. ASSUME NEW c \in Client, SessionFail(c) PROVE Goal
    <2>1. running = c /\ consumers \subseteq consumers'
      BY <1>1, <1>7 DEF SessionFail, shared, Insert, SharedType
    <2>2. ToSet(ioq') \subseteq ToSet(ioq)
      BY <1>7 DEF SessionFail, ThreadExit
    <2>3. \/ pc' = pc
          \/ \E x \in ControlState : pc' = [pc EXCEPT ![c] = x]
      BY <1>7 DEF SessionFail, ControlState
    <2>4. c \in Player /\ pc'[c] \in {"setup", "meta", "metaWrite", "poll", "send", "write"}
              => c \in consumers'
      BY <1>1, <1>7, <2>1, <2>3 DEF SessionFail, Registered, Insert, shared
    <2>5. c \in Player /\ pc'[c] = "send" => running' = running
      BY <1>1, <1>7, <2>3 DEF SessionFail, ThreadExit
    <2> QED  BY <2>1, <2>2, <2>3, <2>4, <2>5, AuxByClient
  <1>8. ASSUME NEW p \in Publisher, Identify(p) PROVE Goal
    <2>1. running = p /\ consumers \subseteq consumers'
      BY <1>1, <1>8 DEF Identify, shared, Insert, SharedType
    <2>2. ToSet(ioq') \subseteq ToSet(ioq)
      BY <1>8 DEF Identify, Continue
    <2>3. \/ pc' = pc
          \/ \E x \in ControlState : pc' = [pc EXCEPT ![p] = x]
      BY <1>8 DEF Identify, ControlState
    <2>4. p \in Player /\ pc'[p] \in {"setup", "meta", "metaWrite", "poll", "send", "write"}
              => p \in consumers'
      BY RelayAssumption
    <2>5. p \in Player /\ pc'[p] = "send" => running' = running
      BY RelayAssumption
    <2> QED  BY <2>1, <2>2, <2>3, <2>4, <2>5, AuxByClient
  <1>9. ASSUME NEW p \in Publisher, SetDataFrame(p) PROVE Goal
    <2>1. running = p /\ consumers \subseteq consumers'
      BY <1>1, <1>9 DEF SetDataFrame, shared, Insert, SharedType
    <2>2. ToSet(ioq') \subseteq ToSet(ioq)
      BY <1>9 DEF SetDataFrame, Continue
    <2>3. \/ pc' = pc
          \/ \E x \in ControlState : pc' = [pc EXCEPT ![p] = x]
      BY <1>9 DEF SetDataFrame, ControlState
    <2>4. p \in Player /\ pc'[p] \in {"setup", "meta", "metaWrite", "poll", "send", "write"}
              => p \in consumers'
      BY RelayAssumption
    <2>5. p \in Player /\ pc'[p] = "send" => running' = running
      BY RelayAssumption
    <2> QED  BY <2>1, <2>2, <2>3, <2>4, <2>5, AuxByClient
  <1>10. ASSUME NEW p \in Publisher, ReadBasicHeader(p) PROVE Goal
    <2>1. running = p /\ consumers \subseteq consumers'
      BY <1>1, <1>10 DEF ReadBasicHeader, shared, Insert, SharedType
    <2>2. ToSet(ioq') \subseteq ToSet(ioq)
      BY <1>10 DEF ReadBasicHeader, Continue
    <2>3. \/ pc' = pc
          \/ \E x \in ControlState : pc' = [pc EXCEPT ![p] = x]
      BY <1>10 DEF ReadBasicHeader, ControlState
    <2>4. p \in Player /\ pc'[p] \in {"setup", "meta", "metaWrite", "poll", "send", "write"}
              => p \in consumers'
      BY RelayAssumption
    <2>5. p \in Player /\ pc'[p] = "send" => running' = running
      BY RelayAssumption
    <2> QED  BY <2>1, <2>2, <2>3, <2>4, <2>5, AuxByClient
  <1>11. ASSUME NEW p \in Publisher, ReadMessageHeader(p) PROVE Goal
    <2>1. running = p /\ consumers \subseteq consumers'
      BY <1>1, <1>11 DEF ReadMessageHeader, shared, Insert, SharedType
    <2>2. ToSet(ioq') \subseteq ToSet(ioq)
      BY <1>11 DEF ReadMessageHeader, Continue
    <2>3. \/ pc' = pc
          \/ \E x \in ControlState : pc' = [pc EXCEPT ![p] = x]
      BY <1>11 DEF ReadMessageHeader, ControlState
    <2>4. p \in Player /\ pc'[p] \in {"setup", "meta", "metaWrite", "poll", "send", "write"}
              => p \in consumers'
      BY RelayAssumption
    <2>5. p \in Player /\ pc'[p] = "send" => running' = running
      BY RelayAssumption
    <2> QED  BY <2>1, <2>2, <2>3, <2>4, <2>5, AuxByClient
  <1>12. ASSUME NEW p \in Publisher, ReadChunk(p) PROVE Goal
    <2>1. running = p /\ consumers \subseteq consumers'
      BY <1>1, <1>12 DEF ReadChunk, shared, Insert, SharedType
    <2>2. ToSet(ioq') \subseteq ToSet(ioq)
      BY <1>12 DEF ReadChunk, Continue
    <2>3. \/ pc' = pc
          \/ \E x \in ControlState : pc' = [pc EXCEPT ![p] = x]
      BY <1>12 DEF ReadChunk, ControlState
    <2>4. p \in Player /\ pc'[p] \in {"setup", "meta", "metaWrite", "poll", "send", "write"}
              => p \in consumers'
      BY RelayAssumption
    <2>5. p \in Player /\ pc'[p] = "send" => running' = running
      BY RelayAssumption
    <2> QED  BY <2>1, <2>2, <2>3, <2>4, <2>5, AuxByClient
  <1>13. ASSUME NEW p \in Publisher, ReadWait(p) PROVE Goal
    <2>1. running = p /\ consumers \subseteq consumers'
      BY <1>1, <1>13 DEF ReadWait, shared, Insert, SharedType
    <2>2. ToSet(ioq') = ToSet(ioq) \cup {running}
      <3>1. running \in Thread /\ PollWait(runq)
        BY <1>13, <2>1 DEF ReadWait
      <3> QED  BY <1>1, <3>1, PollWaitStep
    <2>3. \/ pc' = pc
          \/ \E x \in ControlState : pc' = [pc EXCEPT ![p] = x]
      BY <1>13 DEF ReadWait, ControlState
    <2>4. p \in Player /\ pc'[p] \in {"setup", "meta", "metaWrite", "poll", "send", "write"}
              => p \in consumers'
      BY RelayAssumption
    <2>5. p \in Player /\ pc'[p] = "send" => running' = running
      BY RelayAssumption
    <2>6. p \in Player => pc'[p] # "poll"
      BY RelayAssumption
    <2> QED  BY <2>1, <2>2, <2>3, <2>4, <2>5, <2>6, AuxByClient
  <1>14. ASSUME NEW p \in Publisher, ReadEof(p) PROVE Goal
    <2>1. running = p /\ consumers \subseteq consumers'
      BY <1>1, <1>14 DEF ReadEof, shared, Insert, SharedType
    <2>2. ToSet(ioq') \subseteq ToSet(ioq)
      BY <1>14 DEF ReadEof, Continue
    <2>3. \/ pc' = pc
          \/ \E x \in ControlState : pc' = [pc EXCEPT ![p] = x]
      BY <1>14 DEF ReadEof, ControlState
    <2>4. p \in Player /\ pc'[p] \in {"setup", "meta", "metaWrite", "poll", "send", "write"}
              => p \in consumers'
      BY RelayAssumption
    <2>5. p \in Player /\ pc'[p] = "send" => running' = running
      BY RelayAssumption
    <2> QED  BY <2>1, <2>2, <2>3, <2>4, <2>5, AuxByClient
  <1>15. ASSUME NEW c \in Client, Spin(c) PROVE Goal
    BY <1>15 DEF Spin, vars, sched, shared, Registered, Sending, PollAwake
  <1>16. ASSUME NEW p \in Publisher, ReceiveDone(p) PROVE Goal
    <2>1. running = p /\ consumers \subseteq consumers'
      BY <1>1, <1>16 DEF ReceiveDone, HandOff, shared, Insert, SharedType
    <2>2. ToSet(ioq') \subseteq ToSet(ioq)
      BY <1>16 DEF ReceiveDone, HandOff, Usleep
    <2>3. \/ pc' = pc
          \/ \E x \in ControlState : pc' = [pc EXCEPT ![p] = x]
      BY <1>16 DEF ReceiveDone, HandOff, ControlState
    <2>4. p \in Player /\ pc'[p] \in {"setup", "meta", "metaWrite", "poll", "send", "write"}
              => p \in consumers'
      BY RelayAssumption
    <2>5. p \in Player /\ pc'[p] = "send" => running' = running
      BY RelayAssumption
    <2> QED  BY <2>1, <2>2, <2>3, <2>4, <2>5, AuxByClient
  <1>17. ASSUME NEW p \in Publisher, ReceiveFail(p) PROVE Goal
    <2>1. running = p /\ consumers \subseteq consumers'
      BY <1>1, <1>17 DEF ReceiveFail, HandOff, shared, Insert, SharedType
    <2>2. ToSet(ioq') \subseteq ToSet(ioq)
      BY <1>17 DEF ReceiveFail, HandOff, Usleep
    <2>3. \/ pc' = pc
          \/ \E x \in ControlState : pc' = [pc EXCEPT ![p] = x]
      BY <1>17 DEF ReceiveFail, HandOff, ControlState
    <2>4. p \in Player /\ pc'[p] \in {"setup", "meta", "metaWrite", "poll", "send", "write"}
              => p \in consumers'
      BY RelayAssumption
    <2>5. p \in Player /\ pc'[p] = "send" => running' = running
      BY RelayAssumption
    <2> QED  BY <2>1, <2>2, <2>3, <2>4, <2>5, AuxByClient
  <1>18. ASSUME NEW p \in Publisher, Clear(p) PROVE Goal
    <2>1. running = p /\ consumers \subseteq consumers'
      BY <1>1, <1>18 DEF Clear, shared, Insert, SharedType
    <2>2. ToSet(ioq') \subseteq ToSet(ioq)
      BY <1>18 DEF Clear, Continue
    <2>3. \/ pc' = pc
          \/ \E x \in ControlState : pc' = [pc EXCEPT ![p] = x]
      BY <1>18 DEF Clear, ControlState
    <2>4. p \in Player /\ pc'[p] \in {"setup", "meta", "metaWrite", "poll", "send", "write"}
              => p \in consumers'
      BY RelayAssumption
    <2>5. p \in Player /\ pc'[p] = "send" => running' = running
      BY RelayAssumption
    <2> QED  BY <2>1, <2>2, <2>3, <2>4, <2>5, AuxByClient
  <1>19. ASSUME NEW q \in Player, IdentifyPull(q) PROVE Goal
    <2>1. running = q /\ consumers \subseteq consumers'
      BY <1>1, <1>19 DEF IdentifyPull, shared, Insert, SharedType
    <2>2. ToSet(ioq') \subseteq ToSet(ioq)
      BY <1>19 DEF IdentifyPull, Continue
    <2>3. \/ pc' = pc
          \/ \E x \in ControlState : pc' = [pc EXCEPT ![q] = x]
      BY <1>19 DEF IdentifyPull, ControlState
    <2>4. q \in Player /\ pc'[q] \in {"setup", "meta", "metaWrite", "poll", "send", "write"}
              => q \in consumers'
      BY <1>1, <1>19, <2>1, <2>3 DEF IdentifyPull, Registered, Insert, shared
    <2>5. q \in Player /\ pc'[q] = "send" => running' = running
      BY <1>1, <1>19, <2>3 DEF IdentifyPull, Continue
    <2> QED  BY <2>1, <2>2, <2>3, <2>4, <2>5, AuxByClient
  <1>20. ASSUME NEW q \in Player, PlaySetup(q) PROVE Goal
    <2>1. running = q /\ consumers \subseteq consumers'
      BY <1>1, <1>20 DEF PlaySetup, shared, Insert, SharedType
    <2>2. ToSet(ioq') \subseteq ToSet(ioq)
      BY <1>20 DEF PlaySetup, Continue
    <2>3. \/ pc' = pc
          \/ \E x \in ControlState : pc' = [pc EXCEPT ![q] = x]
      BY <1>20 DEF PlaySetup, ControlState
    <2>4. q \in Player /\ pc'[q] \in {"setup", "meta", "metaWrite", "poll", "send", "write"}
              => q \in consumers'
      BY <1>1, <1>20, <2>1, <2>3 DEF PlaySetup, Registered, Insert, shared
    <2>5. q \in Player /\ pc'[q] = "send" => running' = running
      BY <1>1, <1>20, <2>3 DEF PlaySetup, Continue
    <2> QED  BY <2>1, <2>2, <2>3, <2>4, <2>5, AuxByClient
  <1>21. ASSUME NEW q \in Player, AwaitMetaData(q) PROVE Goal
    <2>1. running = q /\ consumers \subseteq consumers'
      BY <1>1, <1>21 DEF AwaitMetaData, shared, Insert, SharedType
    <2>2. ToSet(ioq') \subseteq ToSet(ioq)
      BY <1>21 DEF AwaitMetaData, Usleep
    <2>3. \/ pc' = pc
          \/ \E x \in ControlState : pc' = [pc EXCEPT ![q] = x]
      BY <1>21 DEF AwaitMetaData, ControlState
    <2>4. q \in Player /\ pc'[q] \in {"setup", "meta", "metaWrite", "poll", "send", "write"}
              => q \in consumers'
      BY <1>1, <1>21, <2>1, <2>3 DEF AwaitMetaData, Registered, Insert, shared
    <2>5. q \in Player /\ pc'[q] = "send" => running' = running
      BY <1>1, <1>21, <2>3 DEF AwaitMetaData, Usleep
    <2> QED  BY <2>1, <2>2, <2>3, <2>4, <2>5, AuxByClient
  <1>22. ASSUME NEW q \in Player, OnMetaDataBlock(q) PROVE Goal
    <2>1. running = q /\ consumers \subseteq consumers'
      BY <1>1, <1>22 DEF OnMetaDataBlock, shared, Insert, SharedType
    <2>2. ToSet(ioq') = ToSet(ioq) \cup {running}
      <3>1. running \in Thread /\ PollWait(runq)
        BY <1>22, <2>1 DEF OnMetaDataBlock
      <3> QED  BY <1>1, <3>1, PollWaitStep
    <2>3. \/ pc' = pc
          \/ \E x \in ControlState : pc' = [pc EXCEPT ![q] = x]
      BY <1>22 DEF OnMetaDataBlock, ControlState
    <2>4. q \in Player /\ pc'[q] \in {"setup", "meta", "metaWrite", "poll", "send", "write"}
              => q \in consumers'
      BY <1>1, <1>22, <2>1, <2>3 DEF OnMetaDataBlock, Registered, Insert, shared
    <2>5. q \in Player /\ pc'[q] = "send" => running' = running
      BY <1>1, <1>22, <2>3 DEF OnMetaDataBlock, PollWait
    <2>6. q \in Player => pc'[q] # "poll"
      BY <1>1, <1>22, <2>3 DEF OnMetaDataBlock
    <2> QED  BY <2>1, <2>2, <2>3, <2>4, <2>5, <2>6, AuxByClient
  <1>23. ASSUME NEW q \in Player, OnMetaData(q) PROVE Goal
    <2>1. running = q /\ consumers \subseteq consumers'
      BY <1>1, <1>23 DEF OnMetaData, shared, Insert, SharedType
    <2>2. ToSet(ioq') \subseteq ToSet(ioq)
      BY <1>23 DEF OnMetaData, Continue
    <2>3. \/ pc' = pc
          \/ \E x \in ControlState : pc' = [pc EXCEPT ![q] = x]
      BY <1>23 DEF OnMetaData, ControlState
    <2>4. q \in Player /\ pc'[q] \in {"setup", "meta", "metaWrite", "poll", "send", "write"}
              => q \in consumers'
      BY <1>1, <1>23, <2>1, <2>3 DEF OnMetaData, Registered, Insert, shared
    <2>5. q \in Player /\ pc'[q] = "send" => running' = running
      BY <1>1, <1>23, <2>3 DEF OnMetaData, Continue
    <2> QED  BY <2>1, <2>2, <2>3, <2>4, <2>5, AuxByClient
  <1>24. ASSUME NEW q \in Player, PollSlot(q) PROVE Goal
    <2>1. running = q /\ consumers \subseteq consumers'
      BY <1>1, <1>24 DEF PollSlot, shared, Insert, SharedType
    <2>2. ToSet(ioq') \subseteq ToSet(ioq)
      BY <1>24 DEF PollSlot, Usleep
    <2>3. \/ pc' = pc
          \/ \E x \in ControlState : pc' = [pc EXCEPT ![q] = x]
      BY <1>24 DEF PollSlot, ControlState
    <2>4. q \in Player /\ pc'[q] \in {"setup", "meta", "metaWrite", "poll", "send", "write"}
              => q \in consumers'
      BY <1>1, <1>24, <2>1, <2>3 DEF PollSlot, Registered, Insert, shared
    <2>5. q \in Player /\ pc'[q] = "send" => running' = running
      BY <1>1, <1>24, <2>3 DEF PollSlot, Usleep
    <2> QED  BY <2>1, <2>2, <2>3, <2>4, <2>5, AuxByClient
  <1>25. ASSUME NEW q \in Player, TakeSlot(q) PROVE Goal
    <2>1. running = q /\ consumers \subseteq consumers'
      BY <1>1, <1>25 DEF TakeSlot, shared, Insert, SharedType
    <2>2. ToSet(ioq') \subseteq ToSet(ioq)
      BY <1>25 DEF TakeSlot, Continue
    <2>3. \/ pc' = pc
          \/ \E x \in ControlState : pc' = [pc EXCEPT ![q] = x]
      BY <1>25 DEF TakeSlot, ControlState
    <2>4. q \in Player /\ pc'[q] \in {"setup", "meta", "metaWrite", "poll", "send", "write"}
              => q \in consumers'
      BY <1>1, <1>25, <2>1, <2>3 DEF TakeSlot, Registered, Insert, shared
    <2>5. q \in Player /\ pc'[q] = "send" => running' = running
      BY <1>1, <1>25, <2>3 DEF TakeSlot, Continue
    <2> QED  BY <2>1, <2>2, <2>3, <2>4, <2>5, AuxByClient
  <1>26. ASSUME NEW q \in Player, WriteChunk(q) PROVE Goal
    <2>1. running = q /\ consumers \subseteq consumers'
      BY <1>1, <1>26 DEF WriteChunk, shared, Insert, SharedType
    <2>2. ToSet(ioq') \subseteq ToSet(ioq)
      BY <1>26 DEF WriteChunk, Continue
    <2>3. \/ pc' = pc
          \/ \E x \in ControlState : pc' = [pc EXCEPT ![q] = x]
      BY <1>26 DEF WriteChunk, ControlState
    <2>4. q \in Player /\ pc'[q] \in {"setup", "meta", "metaWrite", "poll", "send", "write"}
              => q \in consumers'
      BY <1>1, <1>26, <2>1, <2>3 DEF WriteChunk, Registered, Insert, shared
    <2>5. q \in Player /\ pc'[q] = "send" => running' = running
      BY <1>1, <1>26, <2>3 DEF WriteChunk, Continue
    <2> QED  BY <2>1, <2>2, <2>3, <2>4, <2>5, AuxByClient
  <1>27. ASSUME NEW q \in Player, WriteNothing(q) PROVE Goal
    <2>1. running = q /\ consumers \subseteq consumers'
      BY <1>1, <1>27 DEF WriteNothing, WritesNothing, shared, Insert, SharedType, vars
    <2>2. ToSet(ioq') \subseteq ToSet(ioq)
      BY <1>27 DEF WriteNothing, WritesNothing, vars, sched
    <2>3. \/ pc' = pc
          \/ \E x \in ControlState : pc' = [pc EXCEPT ![q] = x]
      BY <1>27 DEF WriteNothing, WritesNothing, ControlState, vars
    <2>4. q \in Player /\ pc'[q] \in {"setup", "meta", "metaWrite", "poll", "send", "write"}
              => q \in consumers'
      BY <1>1, <1>27, <2>1, <2>3 DEF WriteNothing, WritesNothing, Registered, Insert, shared, vars
    <2>5. q \in Player /\ pc'[q] = "send" => running' = running
      BY <1>1, <1>27, <2>3 DEF WriteNothing, WritesNothing, vars, sched
    <2> QED  BY <2>1, <2>2, <2>3, <2>4, <2>5, AuxByClient
  <1>28. ASSUME NEW q \in Player, WriteBlock(q) PROVE Goal
    <2>1. running = q /\ consumers \subseteq consumers'
      BY <1>1, <1>28 DEF WriteBlock, shared, Insert, SharedType
    <2>2. ToSet(ioq') = ToSet(ioq) \cup {running}
      <3>1. running \in Thread /\ PollWait(runq)
        BY <1>28, <2>1 DEF WriteBlock
      <3> QED  BY <1>1, <3>1, PollWaitStep
    <2>3. \/ pc' = pc
          \/ \E x \in ControlState : pc' = [pc EXCEPT ![q] = x]
      BY <1>28 DEF WriteBlock, ControlState
    <2>4. q \in Player /\ pc'[q] \in {"setup", "meta", "metaWrite", "poll", "send", "write"}
              => q \in consumers'
      BY <1>1, <1>28, <2>1, <2>3 DEF WriteBlock, Registered, Insert, shared
    <2>5. q \in Player /\ pc'[q] = "send" => running' = running
      BY <1>1, <1>28, <2>3 DEF WriteBlock, PollWait
    <2>6. q \in Player => pc'[q] # "poll"
      BY <1>1, <1>28, <2>3 DEF WriteBlock
    <2> QED  BY <2>1, <2>2, <2>3, <2>4, <2>5, <2>6, AuxByClient
  <1>29. ASSUME NEW q \in Player, WriteResume(q) PROVE Goal
    <2>1. running = q /\ consumers \subseteq consumers'
      BY <1>1, <1>29 DEF WriteResume, shared, Insert, SharedType
    <2>2. ToSet(ioq') \subseteq ToSet(ioq)
      BY <1>29 DEF WriteResume, Continue
    <2>3. \/ pc' = pc
          \/ \E x \in ControlState : pc' = [pc EXCEPT ![q] = x]
      BY <1>29 DEF WriteResume, ControlState
    <2>4. q \in Player /\ pc'[q] \in {"setup", "meta", "metaWrite", "poll", "send", "write"}
              => q \in consumers'
      BY <1>1, <1>29, <2>1, <2>3 DEF WriteResume, Registered, Insert, shared
    <2>5. q \in Player /\ pc'[q] = "send" => running' = running
      BY <1>1, <1>29, <2>3 DEF WriteResume, Continue
    <2> QED  BY <2>1, <2>2, <2>3, <2>4, <2>5, AuxByClient
  <1>30. ASSUME NEW q \in Player, WriteFail(q) PROVE Goal
    <2>1. running = q /\ consumers \subseteq consumers'
      BY <1>1, <1>30 DEF WriteFail, shared, Insert, SharedType
    <2>2. ToSet(ioq') \subseteq ToSet(ioq)
      BY <1>30 DEF WriteFail, ThreadExit
    <2>3. \/ pc' = pc
          \/ \E x \in ControlState : pc' = [pc EXCEPT ![q] = x]
      BY <1>30 DEF WriteFail, ControlState
    <2>4. q \in Player /\ pc'[q] \in {"setup", "meta", "metaWrite", "poll", "send", "write"}
              => q \in consumers'
      BY <1>1, <1>30, <2>1, <2>3 DEF WriteFail, Registered, Insert, shared
    <2>5. q \in Player /\ pc'[q] = "send" => running' = running
      BY <1>1, <1>30, <2>3 DEF WriteFail, ThreadExit
    <2> QED  BY <2>1, <2>2, <2>3, <2>4, <2>5, AuxByClient
  <1>31. ASSUME NEW q \in Player, PassDone(q) PROVE Goal
    <2>1. running = q /\ consumers \subseteq consumers'
      BY <1>1, <1>31 DEF PassDone, shared, Insert, SharedType
    <2>2. ToSet(ioq') \subseteq ToSet(ioq)
      BY <1>31 DEF PassDone, Usleep
    <2>3. \/ pc' = pc
          \/ \E x \in ControlState : pc' = [pc EXCEPT ![q] = x]
      BY <1>31 DEF PassDone, ControlState
    <2>4. q \in Player /\ pc'[q] \in {"setup", "meta", "metaWrite", "poll", "send", "write"}
              => q \in consumers'
      BY <1>1, <1>31, <2>1, <2>3 DEF PassDone, Registered, Insert, shared
    <2>5. q \in Player /\ pc'[q] = "send" => running' = running
      BY <1>1, <1>31, <2>3 DEF PassDone, Usleep
    <2> QED  BY <2>1, <2>2, <2>3, <2>4, <2>5, AuxByClient
  <1>32. ASSUME NEW c \in Client, CommandEof(c) PROVE Goal
    <2>1. running = c /\ consumers \subseteq consumers'
      BY <1>32 DEF CommandEof, shared
    <2>2. ToSet(ioq') \subseteq ToSet(ioq)
      BY <1>32 DEF CommandEof, Continue
    <2>3. \E x \in ControlState : pc' = [pc EXCEPT ![c] = x]
      BY <1>32 DEF CommandEof, ControlState
    <2>4. pc'[c] = "spin"
      BY <1>1, <1>32 DEF CommandEof
    <2> QED  BY <2>1, <2>2, <2>3, <2>4, AuxByClient
  <1>33. ASSUME NEW p \in Publisher, SetDataFrameFail(p) PROVE Goal
    <2>1. running = p /\ consumers \subseteq consumers'
      BY <1>33 DEF SetDataFrameFail, shared
    <2>2. ToSet(ioq') \subseteq ToSet(ioq)
      BY <1>33 DEF SetDataFrameFail, Continue
    <2>3. \E x \in ControlState : pc' = [pc EXCEPT ![p] = x]
      BY <1>33 DEF SetDataFrameFail, ControlState
    <2>4. p \notin Player
      BY RelayAssumption
    <2> QED  BY <2>1, <2>2, <2>3, <2>4, AuxByClient
  <1> QED  BY <1>2, <1>3, <1>4, <1>5, <1>6, <1>7, <1>8, <1>9, <1>10, <1>11, <1>12, <1>13, <1>14, <1>15, <1>16, <1>17, <1>18, <1>19, <1>20, <1>21, <1>22, <1>23, <1>24, <1>25, <1>26, <1>27, <1>28, <1>29, <1>30, <1>31, <1>32, <1>33 DEF Next, Publish, Play

-----------------------------------------------------------------------------
(* The hand-off reaches a polling player before the publisher clears it.    *)

\* Popping a run queue in which a waiting player is before p.
LEMMA AheadPop ==
    ASSUME NEW p, NEW q \in Seq(Thread), NEW i \in DOMAIN q, NEW j \in DOMAIN q,
           j < i, q[i] = p, q[j] \in waiting, Schedule(q), waiting' = waiting
    PROVE  Ahead(p)'
  <1>1. q # <<>> /\ DOMAIN q = 1..Len(q) /\ Len(q) \in Nat
    OBVIOUS
  <1>2. running' = q[1] /\ runq' = Tail(q)
    BY <1>1 DEF Schedule
  <1>3. DOMAIN Tail(q) = 1..(Len(q) - 1) /\ \A k \in 1..(Len(q) - 1) : Tail(q)[k] = q[k + 1]
    BY <1>1
  <1>4. i - 1 \in DOMAIN runq' /\ runq'[i - 1] = p
    BY <1>1, <1>2, <1>3
  <1>5. CASE j = 1
    BY <1>2, <1>4, <1>5 DEF Ahead
  <1>6. CASE j # 1
    <2>1. j - 1 \in DOMAIN runq' /\ j - 1 < i - 1 /\ runq'[j - 1] \in waiting'
      BY <1>1, <1>2, <1>3, <1>6
    <2> QED  BY <1>4, <2>1 DEF Ahead
  <1> QED  BY <1>5, <1>6

\* A thread that is neither p nor waiting gives up the processor.
LEMMA AheadSwitch ==
    ASSUME QueueType, Apart, NEW p, Ahead(p), running \notin waiting, waiting' = waiting,
           NEW q \in Seq(Thread),
           q = runq \/ \E c \in Thread : q = Append(runq, c),
           Schedule(q),
           running \in Thread, sleepq' = sleepq \/ sleepq' = Append(sleepq, running)
    PROVE  Ahead(p)'
  <1>1. runq \in Seq(Thread) /\ sleepq \in Seq(Thread)
    BY DEF QueueType
  <1>2. \A i \in DOMAIN runq : i \in DOMAIN q /\ q[i] = runq[i]
    BY <1>1
  <1>3. CASE p \in ToSet(sleepq) /\ (ToSet(runq) \cap waiting # {} \/ Head(sleepq) \in waiting)
    <2>1. sleepq # <<>>
      BY <1>3 DEF ToSet
    <2>2. p \in ToSet(sleepq') /\ Head(sleepq') = Head(sleepq)
      <3>1. CASE sleepq' = sleepq
        BY <1>3, <3>1
      <3>2. CASE sleepq' = Append(sleepq, running)
        BY <1>1, <1>3, <2>1, <3>2, AppendElems
      <3> QED  BY <3>1, <3>2
    <2>3. CASE ToSet(runq) \cap waiting # {}
      <3>1. PICK i \in DOMAIN runq : runq[i] \in waiting
        BY <2>3 DEF ToSet
      <3>2. q # <<>> /\ i \in DOMAIN q /\ q[i] \in waiting
        BY <1>2, <3>1
      <3>3. q[i] \in ToSet(q)
        BY <3>2 DEF ToSet
      <3>4. ToSet(q) = ToSet(runq') \cup {running'}
        BY <3>2, TailElems DEF Schedule
      <3>5. running' \in waiting' \/ ToSet(runq') \cap waiting' # {}
        BY <3>2, <3>3, <3>4
      <3> QED  BY <2>2, <3>5 DEF Ahead
    <2>4. CASE Head(sleepq) \in waiting
      BY <2>2, <2>4 DEF Ahead
    <2> QED  BY <1>3, <2>3, <2>4
  <1>4. CASE \E i \in DOMAIN runq : runq[i] = p /\ \E j \in DOMAIN runq : j < i /\ runq[j] \in waiting
    BY <1>2, <1>4, AheadPop
  <1> QED  BY <1>3, <1>4 DEF Ahead

\* A pass of the idle thread wakes the oldest sleeper before p.
LEMMA AheadIdle ==
    ASSUME QueueType, Apart, NEW p \in Thread, Ahead(p), p \notin waiting, Idle \notin waiting,
           waiting' = waiting, NEW ready, NEW late, IdlePass(ready, late),
           ready \subseteq ToSet(ioq), late \subseteq ToSet(ioq)
    PROVE  Ahead(p)'
  <1>1. running = Idle /\ runq = <<>> /\ sleepq \in Seq(Thread)
    BY DEF IdlePass, Apart, QueueType
  <1>2. p \in ToSet(sleepq) /\ Head(sleepq) \in waiting
    BY <1>1 DEF Ahead, ToSet
  <1>3. PICK io \in Orderings(ready), sl \in Orderings(ToSet(sleepq)), to \in Orderings(late) :
            (sleepq # <<>> => Head(sl) = Head(sleepq)) /\ Schedule(io \o sl \o to)
    BY DEF IdlePass
  <1>4. sleepq # <<>>
    BY <1>2 DEF ToSet
  <1>5. /\ io \in Seq(Thread) /\ to \in Seq(Thread)
        /\ sl \in Seq(Thread) /\ ToSet(sl) = ToSet(sleepq)
    <2>1. ready \subseteq Thread /\ late \subseteq Thread /\ ToSet(sleepq) \subseteq Thread
      BY DEF QueueType, ToSet
    <2> QED  BY <2>1, OrderingElems
  <1>6. PICK k \in DOMAIN sl : sl[k] = p
    BY <1>2, <1>5 DEF ToSet
  <1>7. sl # <<>> /\ sl[1] \in waiting /\ k # 1
    BY <1>2, <1>3, <1>4, <1>5, <1>6
  <1> DEFINE u == io \o sl
             q == u \o to
             a == Len(io) + 1
             b == Len(io) + k
  <1>8. /\ u \in Seq(Thread) /\ Len(u) = Len(io) + Len(sl)
        /\ a \in 1..Len(u) /\ b \in 1..Len(u) /\ a < b
        /\ u[a] = sl[1] /\ u[b] = sl[k]
    BY <1>5, <1>6, <1>7
  <1> HIDE DEF u, a, b
  <1>9. q \in Seq(Thread) /\ a \in DOMAIN q /\ b \in DOMAIN q /\ q[a] = u[a] /\ q[b] = u[b]
    BY <1>5, <1>8
  <1>10. Schedule(q)
    BY <1>3 DEF u
  <1> HIDE DEF q
  <1> QED  BY <1>6, <1>7, <1>8, <1>9, <1>10, AheadPop

\* The hand-off itself opens the window as HandoffInv describes it.
LEMMA HandOffOpens ==
    ASSUME TypeOK, InOnePlace, Registered, Sending, PollAwake,
           NEW p \in Publisher, running = p, NEW hl, HandOff(p, hl), Window(p)'
    PROVE  /\ (begin \in consumers)' /\ (slot[begin] # NULL)'
           /\ (\A q \in Player : pc[q] \notin {"send", "write"})'
           /\ (\A w \in waiting : pc[w] = "poll")'
           /\ Ahead(p)'
  <1> USE ClientFacts
  <1>1. /\ QueueType /\ Apart /\ Fresh(runq) /\ SharedType /\ alloc \in Nat \ {0}
        /\ pc \in [Client -> ControlState] /\ Live = Known
    BY FreshRunq DEF TypeOK, TypeOKSched, InOnePlace, BufferType
  <1>2. /\ pc' = [pc EXCEPT ![p] = "handoff"]
        /\ waiting' = {q \in Player : pc[q] = "poll"} /\ waiting' # {}
        /\ ToSet(sleepq) \subseteq waiting'
        /\ \A q \in Player : pc[q] # "write"
        /\ consumers' = consumers /\ begin' = begin
        /\ slot' = IF consumers # {} THEN [slot EXCEPT ![begin] = alloc] ELSE slot
        /\ Usleep(runq)
    BY DEF HandOff, Window
  <1>3. PICK w \in Player : w \in waiting' /\ pc[w] = "poll"
    BY <1>2
  <1>4. p \notin Player
    BY RelayAssumption
  <1>5. \A q \in Player : pc'[q] = pc[q] /\ pc[q] # "send"
    BY <1>1, <1>2, <1>4 DEF Sending
  <1>6. begin' \in consumers' /\ slot'[begin'] # NULL
    BY <1>1, <1>2, <1>3 DEF Registered, SharedType, NULL
  <1>7. w \in ToSet(runq) \cup ToSet(sleepq)
    <2>1. w \in Live
      BY <1>3 DEF Live
    <2> QED  BY <1>1, <1>3, <1>4, <2>1 DEF Known, PollAwake
  <1>8. sleepq' = Append(sleepq, running) /\ ToSet(sleepq') = ToSet(sleepq) \cup {running}
    BY <1>1, <1>2, UsleepStep
  <1>9. Ahead(p)'
    <2>1. CASE w \in ToSet(runq)
      <3>1. runq # <<>> /\ runq \in Seq(Thread)
        BY <1>1, <2>1 DEF ToSet, QueueType
      <3>2. ToSet(runq) = ToSet(runq') \cup {running'}
        BY <1>2, <3>1, TailElems DEF Usleep, Schedule
      <3> QED  BY <1>3, <1>8, <2>1, <3>2 DEF Ahead
    <2>2. CASE w \in ToSet(sleepq)
      <3>1. sleepq # <<>> /\ sleepq \in Seq(Thread)
        BY <1>1, <2>2 DEF ToSet, QueueType
      <3>2. Head(sleepq') = Head(sleepq) /\ Head(sleepq) \in ToSet(sleepq)
        BY <1>8, <3>1, AppendElems, TailElems
      <3> QED  BY <1>2, <1>8, <3>2 DEF Ahead
    <2> QED  BY <1>7, <2>1, <2>2
  <1> QED  BY <1>2, <1>5, <1>6, <1>9

\* Every step keeps HandoffInv.
LEMMA HandoffStep ==
    ASSUME TypeOK, InOnePlace, Registered, Sending, PollAwake, HandoffInv, Next
    PROVE  HandoffInv'
  <1> USE ClientFacts
  <1> SUFFICES ASSUME NEW p \in Publisher, Publisher = {p}, Window(p)'
               PROVE  /\ (begin \in consumers)' /\ (slot[begin] # NULL)'
                      /\ (\A q \in Player : pc[q] \notin {"send", "write"})'
                      /\ (\A w \in waiting : pc[w] = "poll")'
                      /\ Ahead(p)'
    BY DEF HandoffInv
  <1> DEFINE Goal == /\ (begin \in consumers)' /\ (slot[begin] # NULL)'
                     /\ (\A q \in Player : pc[q] \notin {"send", "write"})'
                     /\ (\A w \in waiting : pc[w] = "poll")'
                     /\ Ahead(p)'
  <1>1. /\ QueueType /\ Apart /\ Fresh(runq) /\ SharedType /\ runq \in Seq(Thread)
        /\ pc \in [Client -> ControlState] /\ p \notin Player /\ p \in Client
    BY FreshRunq, RelayAssumption DEF TypeOK, TypeOKSched, InOnePlace, QueueType
  <1>2. CASE ReceiveDone(p)
    BY <1>2, HandOffOpens DEF ReceiveDone
  <1>3. CASE ReceiveFail(p)
    BY <1>3, HandOffOpens DEF ReceiveFail
  \* p's other steps either leave the hand-off or do not begin one.
  <1>4. CASE \/ Identify(p) \/ SetDataFrame(p) \/ SetDataFrameFail(p)
             \/ ReadBasicHeader(p) \/ ReadMessageHeader(p) \/ Clear(p) \/ ReadEof(p)
    <2>1. pc'[p] # "handoff"
      BY <1>1, <1>4 DEF Identify, SetDataFrame, SetDataFrameFail, ReadBasicHeader, ReadMessageHeader, Clear, ReadEof
    <2> QED  BY <2>1 DEF Window
  <1>5. CASE ReadChunk(p) \/ ReadWait(p)
    <2>1. pc'[p] # "handoff"
      BY <1>5 DEF ReadChunk, ReadWait, NeedsRead
    <2> QED  BY <2>1 DEF Window
  \* The others act inside the window.
  <1>6. ASSUME Window(p)
        PROVE  /\ begin \in consumers /\ slot[begin] # NULL
               /\ \A q \in Player : pc[q] \notin {"send", "write"}
               /\ \A w \in waiting : pc[w] = "poll"
               /\ Ahead(p) /\ waiting \subseteq Player
    BY <1>6 DEF HandoffInv, TypeOK, HistType
  \* A step that is no hand-off, no pass and no new consumer in front: the
  \* slot and the states of the waiting players stay.
  <1>7. ASSUME Window(p), UNCHANGED <<slot, begin, consumers, waiting>>, Ahead(p)',
               \/ pc' = pc
               \/ \E c \in Client, x \in ControlState \ {"send", "write"} :
                      pc[c] # "poll" /\ pc' = [pc EXCEPT ![c] = x]
        PROVE  Goal
    <2>1. \A q \in Player : pc'[q] = pc[q] \/ pc'[q] \notin {"send", "write"}
      BY <1>1, <1>7
    <2>2. \A q \in Player : pc[q] = "poll" => pc'[q] = "poll"
      BY <1>1, <1>7
    <2> QED  BY <1>6, <1>7, <2>1, <2>2
  <1>8. ASSUME NEW c \in Client, Accept(c) PROVE Goal
    <2>1. Window(p)
      BY <1>1, <1>8 DEF Window, Accept, hist
    <2>2. /\ running = Listener /\ running \notin waiting /\ waiting' = waiting
          /\ Append(runq, c) \in Seq(Thread) /\ Schedule(Append(runq, c))
          /\ sleepq' = Append(sleepq, running)
      BY <1>1, <1>6, <1>8, <2>1 DEF Accept, Usleep, hist
    <2>3. Ahead(p)'
      BY <1>1, <1>6, <2>1, <2>2, AheadSwitch
    <2> QED  BY <1>7, <1>8, <2>1, <2>3 DEF Accept, shared, hist, ControlState
  <1>9. ASSUME AcceptWait PROVE Goal
    <2>1. Window(p) /\ waiting' = waiting
      BY <1>9 DEF Window, AcceptWait, hist
    <2>2. /\ running = Listener /\ running \notin waiting
          /\ Schedule(runq) /\ sleepq' = sleepq
      BY <1>6, <1>9, <2>1 DEF AcceptWait, PollWait
    <2>3. Ahead(p)'
      BY <1>1, <1>6, <2>1, <2>2, AheadSwitch
    <2> QED  BY <1>7, <1>9, <2>1, <2>3 DEF AcceptWait, shared
  <1>10. ASSUME NEW c \in Client, CommandWait(c) PROVE Goal
    <2>1. Window(p) /\ waiting' = waiting
      BY <1>10 DEF Window, CommandWait, hist
    <2>2. /\ running = c /\ pc[c] # "poll" /\ running \notin waiting
          /\ Schedule(runq) /\ sleepq' = sleepq
      BY <1>6, <1>10, <2>1 DEF CommandWait, PollWait
    <2>3. Ahead(p)'
      BY <1>1, <1>6, <2>1, <2>2, AheadSwitch
    <2> QED  BY <1>7, <1>10, <2>1, <2>3 DEF CommandWait, shared
  <1>11. ASSUME NEW c \in Client, SessionFail(c) PROVE Goal
    <2>1. pc[c] \in {"session", "setup"} /\ pc' = [pc EXCEPT ![c] = "done"] /\ waiting' = waiting
      BY <1>11 DEF SessionFail, hist
    <2>2. Window(p)
      BY <1>1, <1>11, <2>1 DEF Window, SessionFail, hist
    <2>3. running = c /\ running \notin waiting /\ Schedule(runq) /\ sleepq' = sleepq
      BY <1>6, <1>11, <2>1, <2>2 DEF SessionFail, ThreadExit
    <2>4. Ahead(p)'
      BY <1>1, <1>6, <2>1, <2>2, <2>3, AheadSwitch
    <2> QED  BY <1>7, <1>11, <2>1, <2>2, <2>4 DEF SessionFail, shared, ControlState
  \* A new consumer: quiet' says that it did not become the first.
  <1>12. ASSUME NEW q \in Player, IdentifyPull(q) \/ OnMetaData(q) PROVE Goal
    <2>1. /\ running = q /\ pc[q] \in {"session", "meta", "metaWrite"} /\ Insert(q) /\ Continue(runq)
          /\ \E x \in {"setup", "poll"} : pc' = [pc EXCEPT ![q] = x]
          /\ waiting' = waiting /\ taken' = taken
      BY <1>12 DEF IdentifyPull, OnMetaData
    <2>2. quiet /\ begin' = begin
      <3>1. quiet'
        BY DEF Window
      <3>2. CASE q \in consumers
        BY <2>1, <3>1, <3>2 DEF Insert, shared
      <3>3. CASE q \notin consumers
        BY <2>1, <3>1, <3>3 DEF Insert
      <3> QED  BY <3>2, <3>3
    <2>3. Window(p)
      BY <1>1, <2>1, <2>2 DEF Window
    <2>4. begin' \in consumers' /\ slot'[begin'] # NULL
      BY <1>1, <1>6, <2>1, <2>2, <2>3 DEF Insert, shared, SharedType
    <2>5. Ahead(p)'
      <3>1. runq' = runq /\ sleepq' = sleepq /\ running' = running
        BY <2>1 DEF Continue
      <3> QED  BY <1>6, <2>1, <2>3, <3>1 DEF Ahead
    <2>6. /\ \A r \in Player : pc'[r] \notin {"send", "write"}
          /\ \A w \in waiting : pc'[w] = "poll"
      BY <1>1, <1>6, <2>1, <2>3
    <2> QED  BY <2>1, <2>4, <2>5, <2>6
  <1>13. ASSUME NEW q \in Player, PlaySetup(q) PROVE Goal
    <2>1. pc[q] = "setup" /\ pc' = [pc EXCEPT ![q] = "meta"] /\ Continue(runq) /\ UNCHANGED hist
      BY <1>13 DEF PlaySetup
    <2>2. Window(p)
      BY <1>1, <2>1 DEF Window, hist
    <2>3. Ahead(p)'
      BY <1>6, <2>1, <2>2 DEF Ahead, Continue, hist
    <2> QED  BY <1>7, <1>13, <2>1, <2>2, <2>3 DEF PlaySetup, shared, hist, ControlState
  <1>14. ASSUME NEW q \in Player, AwaitMetaData(q) PROVE Goal
    <2>1. Window(p) /\ waiting' = waiting
      BY <1>14 DEF Window, AwaitMetaData, hist
    <2>2. /\ running = q /\ running \notin waiting
          /\ Schedule(runq) /\ sleepq' = Append(sleepq, running)
      BY <1>6, <1>14, <2>1 DEF AwaitMetaData, Usleep
    <2>3. Ahead(p)'
      BY <1>1, <1>6, <2>1, <2>2, AheadSwitch
    <2> QED  BY <1>7, <1>14, <2>1, <2>3 DEF AwaitMetaData, shared
  <1>15. ASSUME NEW q \in Player, OnMetaDataBlock(q) PROVE Goal
    <2>1. pc[q] = "meta" /\ pc' = [pc EXCEPT ![q] = "metaWrite"] /\ waiting' = waiting
      BY <1>15 DEF OnMetaDataBlock, hist
    <2>2. Window(p)
      BY <1>1, <1>15, <2>1 DEF Window, OnMetaDataBlock, hist
    <2>3. /\ running = q /\ running \notin waiting
          /\ Schedule(runq) /\ sleepq' = sleepq
      BY <1>6, <1>15, <2>1, <2>2 DEF OnMetaDataBlock, PollWait
    <2>4. Ahead(p)'
      BY <1>1, <1>6, <2>1, <2>2, <2>3, AheadSwitch
    <2> QED  BY <1>7, <1>15, <2>1, <2>2, <2>4 DEF OnMetaDataBlock, shared, ControlState
  \* A polling player finds the slot set and takes it.
  <1>16. ASSUME NEW q \in Player, PollSlot(q) PROVE Goal
    <2>1. Window(p)
      BY <1>16 DEF Window, PollSlot, hist
    <2> QED  BY <1>6, <1>16, <2>1 DEF PollSlot
  <1>17. ASSUME NEW q \in Player, TakeSlot(q) PROVE Goal
    <2>1. taken' # {}
      BY <1>17 DEF TakeSlot
    <2> QED  BY <2>1 DEF Window
  \* No pass is under way in the window.
  <1>18. ASSUME NEW q \in Player,
                WriteChunk(q) \/ WriteNothing(q) \/ WriteBlock(q) \/ WriteResume(q) \/ WriteFail(q) \/ PassDone(q)
         PROVE  Goal
    <2>1. pc[q] \in {"send", "write"}
      BY <1>18 DEF WriteChunk, WriteNothing, WritesNothing, WriteBlock, WriteResume, WriteFail, PassDone
    <2>2. pc'[p] = pc[p] /\ quiet' = quiet /\ waiting' = waiting /\ taken' = taken
      BY <1>1, <1>18 DEF WriteChunk, WriteNothing, WriteBlock, WriteResume, WriteFail, PassDone, hist, vars
    <2>3. Window(p)
      BY <2>2 DEF Window
    <2> QED  BY <1>6, <2>1, <2>3
  <1>19. ASSUME IdleThread PROVE Goal
    <2>1. /\ Window(p) /\ waiting' = waiting /\ pc' = pc /\ UNCHANGED shared
      BY <1>19 DEF Window, IdleThread
    <2>2. PICK ready \in SUBSET ToSet(ioq), late \in SUBSET ToSet(ioq) : IdlePass(ready, late)
      BY <1>19 DEF IdleThread
    <2>3. p \notin waiting /\ Idle \notin waiting
      BY <1>1, <1>6, <2>1
    <2>4. Ahead(p)'
      BY <1>1, <1>6, <2>1, <2>2, <2>3, AheadIdle
    <2> QED  BY <1>7, <2>1, <2>4 DEF shared
  <1>20. ASSUME IdleBlock PROVE Goal
    <2>1. Window(p) /\ UNCHANGED <<sched, shared, pc, waiting>>
      BY <1>20 DEF Window, IdleBlock, vars, hist
    <2>2. Ahead(p)'
      BY <1>6, <2>1 DEF Ahead, sched
    <2> QED  BY <1>7, <2>1, <2>2 DEF shared
  <1>21. ASSUME NEW c \in Client, Spin(c) PROVE Goal
    <2>1. Window(p) /\ UNCHANGED <<sched, shared, pc, waiting>>
      BY <1>21 DEF Window, Spin, vars, hist
    <2>2. Ahead(p)'
      BY <1>6, <2>1 DEF Ahead, sched
    <2> QED  BY <1>7, <2>1, <2>2 DEF shared
  <1>22. ASSUME NEW c \in Client, CommandEof(c) PROVE Goal
    <2>1. pc[c] # "poll" /\ pc' = [pc EXCEPT ![c] = "spin"] /\ UNCHANGED hist
      BY <1>22 DEF CommandEof
    <2>2. Window(p) /\ waiting' = waiting /\ UNCHANGED shared
      BY <1>1, <1>22, <2>1 DEF Window, CommandEof, hist
    <2>3. Ahead(p)'
      BY <1>6, <1>22, <2>2 DEF Ahead, CommandEof, Continue
    <2> QED  BY <1>7, <2>1, <2>2, <2>3 DEF shared, ControlState
  <1>23. ASSUME Publish(p) PROVE Goal
    BY <1>2, <1>3, <1>4, <1>5, <1>23 DEF Publish
  <1> QED  BY <1>8, <1>9, <1>10, <1>11, <1>12, <1>13, <1>14, <1>15, <1>16, <1>17, <1>18,
              <1>19, <1>20, <1>21, <1>22, <1>23 DEF Next, Play

-----------------------------------------------------------------------------
(* The theorems.                                                            *)

\* The inductive invariant.
IInv ==
    TypeOK /\ InOnePlace /\ Registered /\ Sending /\ PollAwake /\ HandoffInv

LEMMA InitIInv ==
    ASSUME Init
    PROVE  IInv
  <1> USE ClientFacts
  <1>1. TypeOKSched
    BY DEF Init, TypeOKSched, QueueType, PollResult
  <1>2. /\ pc \in [Client -> ControlState] /\ SharedType /\ BufferType /\ HeaderType
        /\ PushType /\ PullType /\ HistType
    <2>1. pc \in [Client -> ControlState] /\ SharedType
      BY DEF Init, ControlState, SharedType, NULL
    <2>2. BufferType
      BY RelayAssumption DEF Init, BufferType, Content
    <2>3. HeaderType
      <3>1. NoHeader \in MessageHeader
        BY DEF NoHeader, MessageHeader
      <3> QED  BY <3>1, RelayAssumption DEF Init, HeaderType
    <2>4. PushType
      <3>1. <<1, 0>> \in (Nat \ {0}) \X (0..MaxLen + 1)
        BY RelayAssumption
      <3>2. next \in [Publisher -> (Nat \ {0}) \X (0..MaxLen + 1)]
        BY <3>1 DEF Init
      <3> QED  BY <3>2, RelayAssumption DEF Init, PushType
    <2>5. PullType
      <3>1. NoPend \in PendingChunk
        BY DEF NoPend, PendingChunk, Content, NULL
      <3>2. <<>> \in Seq(WireChunk)
        OBVIOUS
      <3>3. pend \in [Player -> PendingChunk] /\ sent \in [Player -> Seq(WireChunk)]
        BY <3>1, <3>2 DEF Init
      <3> QED  BY <3>3 DEF Init, PullType
    <2>6. HistType
      <3>1. played \in Seq(Nat) /\ timeouts \in Nat
        BY DEF Init
      <3>2. quiet \in BOOLEAN
        BY Zenon DEF Init
      <3>3. intact \in [Publisher -> BOOLEAN] /\ clean \in [Player -> BOOLEAN]
        BY DEF Init
      <3>4. waiting \subseteq Player /\ taken \subseteq Player /\ handed \in Player \cup {None}
        BY DEF Init
      <3> QED  BY <3>1, <3>2, <3>3, <3>4 DEF HistType
    <2> QED  BY <2>1, <2>2, <2>3, <2>4, <2>5, <2>6
  <1>3. InOnePlace
    <2>1. ToSet(<<>>) = {} /\ IsInjective(<<>>) /\ ToSet(<<Listener>>) = {Listener} /\ IsInjective(<<Listener>>)
      BY DEF ToSet, IsInjective
    <2>2. Live = {Listener}
      BY RelayAssumption DEF Init, Live, Client
    <2> QED  BY <2>1, <2>2 DEF Init, InOnePlace, Apart, Known
  <1>4. Registered /\ Sending /\ PollAwake /\ HandoffInv
    BY DEF Init, Registered, Sending, PollAwake, HandoffInv, Window
  <1> QED  BY <1>1, <1>2, <1>3, <1>4 DEF IInv, TypeOK

LEMMA StepIInv ==
    ASSUME IInv, [Next]_vars
    PROVE  IInv'
  <1>1. CASE Next
    BY <1>1, SafetyStep, AuxStep, HandoffStep DEF IInv
  <1>2. CASE UNCHANGED vars
    <2>1. TypeOK' /\ InOnePlace'
      BY <1>2 DEF IInv, vars, sched, shared, buffer, header, push, pull, hist, TypeOK, TypeOKSched, QueueType,
         SharedType, BufferType, HeaderType, PushType, PullType, HistType, InOnePlace, Apart, Known, Live
    <2>2. Registered' /\ Sending' /\ PollAwake' /\ HandoffInv'
      BY <1>2 DEF IInv, vars, sched, shared, hist, Registered, Sending, PollAwake, HandoffInv, Window, Ahead
    <2> QED  BY <2>1, <2>2 DEF IInv
  <1> QED  BY <1>1, <1>2

LEMMA SpecIInv == Spec => []IInv
  <1> QED  BY InitIInv, StepIInv, PTL DEF Spec

\* Every behaviour of the relay respects the types of its variables: whatever
\* the network does, a player inside its loop finds consumers.begin() valid.
THEOREM TypeCorrect == Spec => []TypeOK
  <1>1. IInv => TypeOK
    BY DEF IInv
  <1> QED  BY <1>1, SpecIInv, PTL

\* No coroutine is lost or queued twice, on any path of process_thread.
THEOREM ThreadsInOnePlace == Spec => []InOnePlace
  <1>1. IInv => InOnePlace
    BY DEF IInv
  <1> QED  BY <1>1, SpecIInv, PTL

\* With one publisher and any number of players, a quiet hand-off with a player
\* polling is taken before the publisher clears the buffer.
THEOREM HandoffIsTaken == Spec => []HandoffTaken
  <1>1. IInv => HandoffTaken
    <2> SUFFICES ASSUME IInv, NEW p \in Publisher, Publisher = {p}, running = p,
                        pc[p] = "handoff", quiet, waiting # {}, taken = {}
                 PROVE  FALSE
      BY DEF HandoffTaken
    <2>1. Ahead(p) /\ waiting \subseteq Player
      BY DEF IInv, HandoffInv, Window, TypeOK, HistType
    <2>2. p \notin ToSet(sleepq) /\ p \notin ToSet(runq)
      BY DEF IInv, InOnePlace, Apart
    <2> QED  BY <2>1, <2>2 DEF Ahead, ToSet
  <1> QED  BY <1>1, SpecIInv, PTL

-----------------------------------------------------------------------------
(* The media of one publisher, for every number of players: what the buffer  *)
(* holds at each point of recv_audio_video, what a pass over it sends, and   *)
(* in which order messages are played.  First, what has been received.       *)

\* The buffer holds the first n units of message m of p.
Holds(p, m, n) == size = n /\ \A i \in 1..n : mem[i] = Unit(p, m, i - 1)

\* p is inside a read that waits, or has come back from the wait.
Waits(p) == poll[p] # "none" \/ p \in ToSet(ioq)

\* Where p stands in its stream and what the buffer holds of the message being
\* received, while p has read every byte of its stream into the buffer.
ReceiveInv(p) ==
    /\ aligned[p]
    /\ pc[p] \in {"absent", "session", "setup", "basic"} => size = 0 /\ next[p][2] = 0
    /\ pc[p] = "header" =>
          /\ next[p][1] <= Len(Script[p]) /\ next[p][2] = 1
          /\ Holds(p, next[p][1], 1)
          /\ csid[p] = currCsid
    /\ pc[p] = "payload" =>
          \E m \in 1..Len(Script[p]) :
              /\ csid[p] = currCsid
              /\ Header.len = Script[p][m].len /\ Header.msg = m
              /\ got[p] <= Script[p][m].len /\ (Waits(p) => got[p] < Script[p][m].len)
              /\ Holds(p, m, HeaderLength + got[p])
              /\ next[p] = IF got[p] < Script[p][m].len THEN <<m, got[p] + 2>> ELSE <<m + 1, 0>>
    /\ pc[p] = "handoff" =>
          /\ next[p][2] = 0
          /\ size > 0 =>
                \E m \in 1..Len(Script[p]) :
                    /\ next[p] = <<m + 1, 0>>
                    /\ Holds(p, m, HeaderLength + Script[p][m].len)
                    /\ Header = [len |-> Script[p][m].len, hl |-> HeaderLength, msg |-> m]

\* A message of a script has a chunk stream and at least one chunk.
LEMMA ScriptType ==
    ASSUME NEW p \in Publisher
    PROVE  /\ Len(Script[p]) \in Nat
           /\ \A m \in 1..Len(Script[p]) : Script[p][m].len \in 1..MaxLen
  <1>1. Script[p] \in Seq([csid : Csid, len : 1..MaxLen])
    BY RelayAssumption
  <1>2. ASSUME NEW m \in 1..Len(Script[p]) PROVE Script[p][m].len \in 1..MaxLen
    <2>1. Script[p][m] \in [csid : Csid, len : 1..MaxLen]
      BY <1>1, <1>2, ElementOfSeq
    <2> QED  BY <2>1
  <1> QED  BY <1>1, <1>2

\* Reading the next unit of message m appends it to the units already there.
LEMMA ReadUnit ==
    ASSUME BufferType, PushType, NEW p \in Publisher, aligned[p],
           ReadUpTo(p, size + 1), NEW m, next[p] = <<m, size>>, Holds(p, m, size)
    PROVE  /\ m \in 1..Len(Script[p])
           /\ size' = size + 1 /\ Holds(p, m, size)'
           /\ next' = [next EXCEPT ![p] = IF size < Script[p][m].len + 1 THEN <<m, size + 1>>
                                                                        ELSE <<m + 1, 0>>]
           /\ poll' = [poll EXCEPT ![p] = "none"]
  <1>1. size \in Nat /\ MaxUnits \in Nat /\ size <= MaxUnits
    BY RelayAssumption DEF BufferType
  <1>2. /\ Pending(p) /\ AppendUnit(Delivered(p))
        /\ next' = [next EXCEPT ![p] = Successor(p)] /\ poll' = [poll EXCEPT ![p] = "none"]
    BY <1>1 DEF ReadUpTo
  <1>3. next[p][1] = m /\ next[p][2] = size /\ m \in Nat \ {0}
    BY DEF PushType
  <1>4. m \in 1..Len(Script[p])
    BY <1>2, <1>3, ScriptType DEF Pending
  <1>5. Delivered(p) = Unit(p, m, size)
    BY <1>3 DEF Delivered
  <1>6. size' = size + 1 /\ size < MaxUnits
    BY <1>2 DEF AppendUnit
  <1>7. \A i \in 1..(size + 1) : mem'[i] = Unit(p, m, i - 1)
    <2> SUFFICES ASSUME NEW i \in 1..(size + 1) PROVE mem'[i] = Unit(p, m, i - 1)
      OBVIOUS
    <2>1. i \in 1..MaxUnits
      BY <1>1, <1>6
    <2>2. i <= size => mem[i] = Unit(p, m, i - 1)
      BY <1>1 DEF Holds
    <2>3. CASE size + 1 > cap
      <3>1. mem' = [k \in 1..MaxUnits |-> IF k <= size THEN mem[k]
                                          ELSE IF k = size + 1 THEN Delivered(p) ELSE NoUnit]
        BY <1>2, <2>3 DEF AppendUnit
      <3>2. mem'[i] = IF i <= size THEN mem[i] ELSE IF i = size + 1 THEN Delivered(p) ELSE NoUnit
        BY <2>1, <3>1
      <3>3. i = size + 1 => i - 1 = size
        BY <1>1
      <3> QED  BY <1>1, <1>5, <2>2, <3>2, <3>3
    <2>4. CASE ~(size + 1 > cap)
      <3>1. mem' = [mem EXCEPT ![size + 1] = Delivered(p)]
        BY <1>2, <2>4 DEF AppendUnit
      <3>2. mem'[i] = IF i = size + 1 THEN Delivered(p) ELSE mem[i]
        BY <1>1, <2>1, <3>1 DEF BufferType
      <3>3. i = size + 1 => i - 1 = size
        BY <1>1
      <3> QED  BY <1>1, <1>5, <2>2, <3>2, <3>3
    <2> QED  BY <2>3, <2>4
  <1>8. Successor(p) = IF size < Script[p][m].len + 1 THEN <<m, size + 1>> ELSE <<m + 1, 0>>
    BY <1>3 DEF Successor
  <1>9. Holds(p, m, size)'
    BY <1>1, <1>6, <1>7 DEF Holds
  <1> QED  BY <1>2, <1>4, <1>6, <1>8, <1>9

\* A step that leaves the stream and the buffer alone, and p where it is or on
\* its way to the push loop or out of it.
LEMMA ReceiveFrame ==
    ASSUME NEW p \in Publisher, ReceiveInv(p), pc \in [Client -> ControlState],
           UNCHANGED <<buffer, currCsid, csidHeader, push>>,
           \/ pc'[p] = pc[p]
           \/ pc[p] \in {"absent", "session"} /\ pc'[p] \in {"session", "setup"}
           \/ pc'[p] \in {"done", "spin"},
           pc'[p] = "payload" /\ Waits(p)' => Waits(p) \/ got[p] < Header.len
    PROVE  ReceiveInv(p)'
  <1>1. Holds(p, next[p][1], 1)' <=> Holds(p, next[p][1], 1)
    BY DEF buffer, push, Holds
  <1>2. \A m, n : Holds(p, m, n)' <=> Holds(p, m, n)
    BY DEF buffer, Holds
  <1>3. Header' = Header
    BY DEF Header
  <1>4. CASE pc'[p] = pc[p]
    <2>1. CASE pc[p] = "payload"
      <3>1. PICK m \in 1..Len(Script[p]) :
                /\ csid[p] = currCsid
                /\ Header.len = Script[p][m].len /\ Header.msg = m
                /\ got[p] <= Script[p][m].len /\ (Waits(p) => got[p] < Script[p][m].len)
                /\ Holds(p, m, HeaderLength + got[p])
                /\ next[p] = IF got[p] < Script[p][m].len THEN <<m, got[p] + 2>> ELSE <<m + 1, 0>>
        BY <2>1 DEF ReceiveInv
      <3>2. UNCHANGED <<csid, currCsid, got, next, aligned>> /\ aligned[p]
        BY DEF push, ReceiveInv
      <3>3. Waits(p)' => got'[p] < Script[p][m].len
        BY <1>4, <2>1, <3>1, <3>2
      <3> QED  BY <1>2, <1>3, <1>4, <2>1, <3>1, <3>2, <3>3 DEF ReceiveInv
    <2>2. CASE pc[p] # "payload"
      BY <1>1, <1>2, <1>3, <1>4, <2>2 DEF ReceiveInv, buffer, push
    <2> QED  BY <2>1, <2>2
  <1>5. CASE pc'[p] # pc[p]
    BY <1>5 DEF ReceiveInv, buffer, push
  <1> QED  BY <1>4, <1>5

\* Once a receive of p has failed inside a message, intact[p] stays false.
LEMMA IntactStep ==
    ASSUME TypeOK, NEW p \in Publisher, Publisher = {p}, intact'[p], Next
    PROVE  intact[p]
  <1>1. ASSUME NEW x, intact' = [intact EXCEPT ![p] = intact[p] /\ x] PROVE intact[p]
    BY <1>1 DEF TypeOK, HistType
  <1>2. intact' = intact \/ \E x : intact' = [intact EXCEPT ![p] = intact[p] /\ x]
    <2>1. ASSUME Publish(p) PROVE intact' = intact \/ \E x : intact' = [intact EXCEPT ![p] = intact[p] /\ x]
      <3>1. CASE SetDataFrameFail(p)
        BY <3>1 DEF SetDataFrameFail
      <3>2. CASE ReceiveFail(p)
        BY <3>2 DEF ReceiveFail
      <3>3. CASE ~SetDataFrameFail(p) /\ ~ReceiveFail(p)
        BY <2>1, <3>3 DEF Publish, Identify, SetDataFrame, ReadBasicHeader, ReadMessageHeader,
           ReadChunk, ReadWait, ReadEof, ReceiveDone, HandOff, Clear, hist
      <3> QED  BY <3>1, <3>2, <3>3
    <2>2. ASSUME NEW q \in Player, Play(q) PROVE intact' = intact
      BY <2>2 DEF Play, IdentifyPull, PlaySetup, AwaitMetaData, OnMetaDataBlock, OnMetaData,
         PollSlot, TakeSlot, WriteChunk, WriteNothing, WriteBlock, WriteResume, WriteFail, PassDone,
         hist, vars
    <2>3. ASSUME NEW c \in Client, Accept(c) \/ CommandWait(c) \/ CommandEof(c) \/ Spin(c) \/ SessionFail(c)
          PROVE  intact' = intact
      BY <2>3 DEF Accept, CommandWait, CommandEof, Spin, SessionFail, hist, vars
    <2>4. ASSUME IdleThread \/ IdleBlock \/ AcceptWait PROVE intact' = intact
      BY <2>4 DEF IdleThread, IdleBlock, AcceptWait, hist, vars
    <2> QED  BY <2>1, <2>2, <2>3, <2>4 DEF Next
  <1> QED  BY <1>1, <1>2

\* What the others do neither makes p wait nor has it come back from a wait it was
\* not in.
LEMMA OthersWait ==
    ASSUME TypeOK, NEW p \in Publisher, Publisher = {p}, Next, running # p
    PROVE  Waits(p)' => Waits(p)
  <1> USE ClientFacts
  <1> DEFINE Elsewhere == /\ ioq' \in {ioq, Append(ioq, running)} /\ running \in Thread
                          /\ poll' = poll \/ \E x : poll' = [poll EXCEPT ![running] = x]
  <1>1. ioq \in Seq(Thread) /\ poll \in [Thread -> PollResult] /\ p \in Thread
    BY RelayAssumption DEF TypeOK, TypeOKSched, QueueType
  <1>2. ASSUME Elsewhere PROVE Waits(p)' => Waits(p)
    <2>1. p \in ToSet(ioq') => p \in ToSet(ioq)
      <3>1. CASE ioq' = Append(ioq, running)
        <4>1. ToSet(ioq') = ToSet(ioq) \cup {running}
          BY <1>1, <1>2, <3>1, AppendElems
        <4> QED  BY <4>1
      <3> QED  BY <1>2, <3>1
    <2>2. poll'[p] = poll[p]
      BY <1>1, <1>2
    <2> QED  BY <2>1, <2>2 DEF Waits
  <1>3. ASSUME NEW q \in Player, Play(q) PROVE Elsewhere
    <2>1. CASE IdentifyPull(q) \/ PlaySetup(q) \/ AwaitMetaData(q) \/ OnMetaDataBlock(q) \/ OnMetaData(q)
      BY <2>1 DEF IdentifyPull, PlaySetup, AwaitMetaData, OnMetaDataBlock, OnMetaData,
         Continue, Usleep, PollWait
    <2>2. CASE PollSlot(q) \/ TakeSlot(q) \/ WriteChunk(q) \/ WriteNothing(q)
      BY <2>2 DEF PollSlot, TakeSlot, WriteChunk, WriteNothing, WritesNothing, Continue, Usleep, vars, sched
    <2>3. CASE WriteBlock(q) \/ WriteResume(q) \/ WriteFail(q) \/ PassDone(q)
      BY <2>3 DEF WriteBlock, WriteResume, WriteFail, PassDone, Continue, Usleep, PollWait, ThreadExit
    <2> QED  BY <1>3, <2>1, <2>2, <2>3 DEF Play
  <1>4. ASSUME NEW c \in Client, Accept(c) \/ CommandWait(c) \/ CommandEof(c) \/ Spin(c) \/ SessionFail(c)
        PROVE  Elsewhere
    BY <1>4, RelayAssumption DEF Accept, CommandWait, CommandEof, Spin, SessionFail, Continue, Usleep, PollWait,
       ThreadExit, vars, sched
  <1>5. CASE AcceptWait
    <2>1. Elsewhere
      BY <1>5, RelayAssumption DEF AcceptWait, PollWait
    <2> QED  BY <1>2, <2>1
  <1>6. CASE IdleThread
    <2>1. PICK ready \in SUBSET {t \in ToSet(ioq) : CanBeReady(t)} :
          \E late \in SUBSET (ToSet(ioq) \ ({Listener} \cup ready)) : IdlePass(ready, late)
      BY <1>6 DEF IdleThread
    <2>2. PICK late \in SUBSET (ToSet(ioq) \ ({Listener} \cup ready)) : IdlePass(ready, late)
      BY <2>1
    <2>3. /\ ioq' \in Orderings(ToSet(ioq) \ (ready \cup late))
          /\ poll' = [t \in Thread |-> IF t \in ready THEN "ready"
                                       ELSE IF t \in late THEN "timeout" ELSE poll[t]]
      BY <2>2 DEF IdlePass
    <2>4. ToSet(ioq') \subseteq ToSet(ioq)
      BY <2>3 DEF Orderings
    <2>5. poll'[p] # "none" => poll[p] # "none" \/ p \in ToSet(ioq)
      BY <1>1, <2>3
    <2> QED  BY <2>4, <2>5 DEF Waits
  <1>7. CASE IdleBlock
    BY <1>7 DEF IdleBlock, vars, sched, Waits
  <1>8. ~Publish(p)
    BY DEF Publish, Identify, SetDataFrame, SetDataFrameFail, ReadBasicHeader, ReadMessageHeader,
       ReadChunk, ReadWait, ReadEof, ReceiveDone, ReceiveFail, Clear
  <1> QED  BY <1>2, <1>3, <1>4, <1>5, <1>6, <1>7, <1>8 DEF Next

\* Every step keeps ReceiveInv, unless a receive fails inside a message.
LEMMA ReceiveStep ==
    ASSUME TypeOK, InOnePlace, NEW p \in Publisher, Publisher = {p}, intact'[p],
           intact[p] => ReceiveInv(p), Next
    PROVE  ReceiveInv(p)'
  <1> USE ClientFacts
  <1>1. /\ pc \in [Client -> ControlState] /\ p \in Client /\ p \notin Player
        /\ BufferType /\ HeaderType /\ PushType /\ intact \in [Publisher -> BOOLEAN]
        /\ size \in Nat /\ got[p] \in Nat
    BY RelayAssumption DEF TypeOK, HistType, BufferType, PushType
  <1>2. intact[p] /\ ReceiveInv(p)
    BY IntactStep
  <1>3. \A m \in 1..Len(Script[p]) : Script[p][m].len \in 1..MaxLen
    BY ScriptType
  <1>4. CASE Identify(p) \/ ReadWait(p) \/ ReadEof(p)
    <2>1. UNCHANGED <<buffer, header, push>>
      BY <1>4 DEF Identify, ReadWait, ReadEof
    <2>2. \/ pc'[p] = pc[p]
          \/ pc[p] = "session" /\ pc'[p] = "setup"
          \/ pc'[p] = "spin"
      BY <1>1, <1>4 DEF Identify, ReadWait, ReadEof
    <2>3. pc'[p] = "payload" => got[p] < Header.len
      <3>1. ASSUME pc'[p] = "payload" PROVE pc[p] = "payload" /\ ReadWait(p)
        BY <1>1, <1>4, <3>1 DEF Identify, ReadWait, ReadEof
      <3>2. ASSUME pc[p] = "payload", ReadWait(p) PROVE got[p] < csidHeader[csid[p]].len
        BY <3>2 DEF ReadWait, NeedsRead
      <3>3. pc[p] = "payload" => csid[p] = currCsid
        BY <1>2 DEF ReceiveInv
      <3> QED  BY <3>1, <3>2, <3>3 DEF Header
    <2> QED  BY <1>1, <1>2, <2>1, <2>2, <2>3, ReceiveFrame DEF header
  <1>5. CASE SetDataFrame(p) \/ SetDataFrameFail(p)
    <2>1. pc[p] = "setup" /\ pc'[p] = "basic" /\ size' = size /\ next' = next
      BY <1>1, <1>5 DEF SetDataFrame, SetDataFrameFail, buffer, push
    <2>2. aligned'[p]
      <3>1. CASE SetDataFrame(p)
        BY <1>2, <3>1 DEF SetDataFrame, push, ReceiveInv
      <3>2. CASE SetDataFrameFail(p)
        <4>1. PICK lost \in BOOLEAN : /\ aligned' = [aligned EXCEPT ![p] = @ /\ ~lost]
                                      /\ intact' = [intact EXCEPT ![p] = @ /\ ~lost]
          BY <3>2 DEF SetDataFrameFail
        <4>2. ~lost
          BY <1>1, <4>1
        <4> QED  BY <1>1, <1>2, <4>1, <4>2 DEF PushType, ReceiveInv
      <3> QED  BY <1>5, <3>1, <3>2
    <2> QED  BY <1>2, <2>1, <2>2 DEF ReceiveInv
  <1>6. CASE ReadBasicHeader(p)
    <2>1. /\ pc[p] = "basic" /\ pc'[p] = "header" /\ ReadUpTo(p, 1) /\ aligned' = aligned
          /\ csid' = [csid EXCEPT ![p] = currCsid']
      BY <1>1, <1>6 DEF ReadBasicHeader
    <2>2. PICK m : next[p] = <<m, 0>>
      BY <1>1, <1>2, <2>1 DEF ReceiveInv, PushType
    <2>3. size = 0 /\ Holds(p, m, size) /\ ReadUpTo(p, size + 1)
      BY <1>2, <2>1 DEF ReceiveInv, Holds
    <2>4. /\ m \in 1..Len(Script[p]) /\ size' = 1 /\ Holds(p, m, size)'
          /\ next' = [next EXCEPT ![p] = IF size < Script[p][m].len + 1 THEN <<m, size + 1>>
                                                                       ELSE <<m + 1, 0>>]
      BY <1>1, <1>2, <2>2, <2>3, ReadUnit DEF ReceiveInv
    <2>5. next'[p] = <<m, 1>>
      BY <1>1, <1>3, <2>3, <2>4, RelayAssumption DEF PushType
    <2>6. Holds(p, next[p][1], 1)'
      BY <2>4, <2>5 DEF Holds
    <2>7. m <= Len(Script[p])
      BY <2>4, ScriptType
    <2> QED  BY <1>1, <1>2, <2>1, <2>5, <2>6, <2>7 DEF ReceiveInv, PushType
  <1>7. CASE ReadMessageHeader(p)
    <2>1. /\ pc[p] = "header" /\ pc'[p] = "payload" /\ ReadUpTo(p, HeaderLength) /\ aligned' = aligned
          /\ csid' = [csid EXCEPT ![p] = currCsid] /\ got' = [got EXCEPT ![p] = 0]
          /\ currCsid' = currCsid
      BY <1>1, <1>7 DEF ReadMessageHeader
    <2>2. PICK m : next[p] = <<m, 1>>
      BY <1>1, <1>2, <2>1 DEF ReceiveInv, PushType
    <2>3. size = 1 /\ Holds(p, m, size) /\ ReadUpTo(p, size + 1) /\ csid[p] = currCsid
      BY <1>2, <2>1, <2>2 DEF ReceiveInv, Holds, HeaderLength
    <2>4. /\ m \in 1..Len(Script[p]) /\ size' = 2 /\ Holds(p, m, size)'
          /\ next' = [next EXCEPT ![p] = IF size < Script[p][m].len + 1 THEN <<m, size + 1>>
                                                                       ELSE <<m + 1, 0>>]
      BY <1>1, <1>2, <2>2, <2>3, ReadUnit DEF ReceiveInv
    <2>14. ~Waits(p)'
      <3>1. running = p /\ ioq' = ioq
        BY <1>7 DEF ReadMessageHeader, Continue
      <3>2. poll' = [poll EXCEPT ![p] = "none"]
        BY <1>1, <1>2, <2>2, <2>3, ReadUnit DEF ReceiveInv
      <3>3. p \notin ToSet(ioq) /\ poll \in [Thread -> PollResult] /\ p \in Thread
        BY <3>1, RelayAssumption DEF InOnePlace, Apart, TypeOK, TypeOKSched
      <3> QED  BY <3>1, <3>2, <3>3 DEF Waits
    <2>5. next'[p] = <<m, 2>> /\ Script[p][m].len \in Nat /\ 0 < Script[p][m].len
      BY <1>1, <1>3, <2>3, <2>4, RelayAssumption DEF PushType
    <2>6. mem'[2] = Unit(p, m, 1)
      BY <2>4 DEF Holds
    <2>7. mem'[2] \in Units /\ mem'[2][3] = 1 /\ mem'[2][1] = p /\ mem'[2][2] = m
      BY <2>4, <2>6, RelayAssumption DEF Units, Unit
    <2>8. csidHeader' = [csidHeader EXCEPT ![currCsid] =
                            [@ EXCEPT !.len = Script[p][m].len, !.msg = m]]
      <3>1. PICK h \in DecodedHeader(mem'[2]) :
              csidHeader' = [csidHeader EXCEPT ![csid[p]] = [@ EXCEPT !.len = h.len, !.msg = h.msg]]
        BY <1>7 DEF ReadMessageHeader
      <3>2. h = [len |-> Script[p][m].len, msg |-> m]
        BY <2>7 DEF DecodedHeader
      <3> QED  BY <2>3, <3>1, <3>2
    <2>9. Header'.len = Script[p][m].len /\ Header'.msg = m
      BY <1>1, <2>1, <2>8 DEF Header, HeaderType, MessageHeader
    <2>10. csid'[p] = currCsid' /\ got'[p] = 0
      BY <1>1, <2>1 DEF PushType
    <2>11. Holds(p, m, HeaderLength + got[p])'
      BY <2>4, <2>10 DEF Holds, HeaderLength
    <2>12. next'[p] = IF got'[p] < Script[p][m].len THEN <<m, got'[p] + 2>> ELSE <<m + 1, 0>>
      BY <2>5, <2>10
    <2>13. got'[p] <= Script[p][m].len
      BY <2>5, <2>10
    <2> QED  BY <1>2, <2>1, <2>4, <2>9, <2>10, <2>11, <2>12, <2>13, <2>14 DEF ReceiveInv
  <1>8. CASE ReadChunk(p)
    <2>1. /\ pc[p] = "payload" /\ ReadUpTo(p, size + 1)
          /\ poll[p] = "none" => got[p] < csidHeader[csid[p]].len
          /\ got' = [got EXCEPT ![p] = got[p] + 1]
          /\ UNCHANGED <<pc, currCsid, csidHeader, aligned, csid>>
      BY <1>8 DEF ReadChunk, header
    <2>2. PICK m \in 1..Len(Script[p]) :
              /\ csid[p] = currCsid
              /\ Header.len = Script[p][m].len /\ Header.msg = m
              /\ got[p] <= Script[p][m].len /\ (Waits(p) => got[p] < Script[p][m].len)
              /\ Holds(p, m, HeaderLength + got[p])
              /\ next[p] = IF got[p] < Script[p][m].len THEN <<m, got[p] + 2>> ELSE <<m + 1, 0>>
      BY <1>2, <2>1 DEF ReceiveInv
    <2>3. got[p] < Script[p][m].len /\ next[p] = <<m, got[p] + 2>>
      BY <2>1, <2>2 DEF Header, Waits
    <2>4. size = got[p] + 2 /\ Holds(p, m, size)
      BY <1>1, <2>2 DEF Holds, HeaderLength
    <2>5. /\ size' = size + 1 /\ Holds(p, m, size)'
          /\ next' = [next EXCEPT ![p] = IF size < Script[p][m].len + 1 THEN <<m, size + 1>>
                                                                       ELSE <<m + 1, 0>>]
      BY <1>1, <1>2, <2>1, <2>3, <2>4, ReadUnit DEF ReceiveInv
    <2>6. got'[p] = got[p] + 1 /\ Script[p][m].len \in Nat
      BY <1>1, <1>3, <2>1, <2>2, RelayAssumption DEF PushType
    <2>7. next'[p] = IF got'[p] < Script[p][m].len THEN <<m, got'[p] + 2>> ELSE <<m + 1, 0>>
      <3>1. next'[p] = IF size < Script[p][m].len + 1 THEN <<m, size + 1>> ELSE <<m + 1, 0>>
        BY <1>1, <2>5 DEF PushType
      <3>2. size < Script[p][m].len + 1 <=> got'[p] < Script[p][m].len
        BY <1>1, <2>4, <2>6
      <3>3. size + 1 = got'[p] + 2
        BY <1>1, <2>4, <2>6
      <3> QED  BY <3>1, <3>2, <3>3
    <2>8. got'[p] <= Script[p][m].len
      BY <1>1, <2>3, <2>6
    <2>9. Holds(p, m, HeaderLength + got[p])'
      <3>1. size' = HeaderLength + got'[p]
        BY <1>1, <2>4, <2>5, <2>6 DEF HeaderLength
      <3> QED  BY <2>5, <3>1
    <2>10. Header' = Header
      BY <2>1 DEF Header
    <2>11. ~Waits(p)'
      <3>1. running = p /\ ioq' = ioq
        BY <1>8 DEF ReadChunk, Continue
      <3>2. poll' = [poll EXCEPT ![p] = "none"]
        BY <1>1, <1>2, <2>1, <2>3, <2>4, ReadUnit DEF ReceiveInv
      <3>3. p \notin ToSet(ioq) /\ poll \in [Thread -> PollResult] /\ p \in Thread
        BY <3>1, RelayAssumption DEF InOnePlace, Apart, TypeOK, TypeOKSched
      <3> QED  BY <3>1, <3>2, <3>3 DEF Waits
    <2> QED  BY <1>2, <2>1, <2>2, <2>7, <2>8, <2>9, <2>10, <2>11 DEF ReceiveInv
  <1>9. CASE ReceiveDone(p)
    <2>1. /\ pc[p] = "payload" /\ got[p] >= csidHeader[csid[p]].len
          /\ csidHeader' = [csidHeader EXCEPT ![currCsid] = [@ EXCEPT !.hl = HeaderLength]]
          /\ pc'[p] = "handoff"
          /\ UNCHANGED <<buffer, currCsid, next, aligned>>
      BY <1>1, <1>9 DEF ReceiveDone, HandOff
    <2>2. PICK m \in 1..Len(Script[p]) :
              /\ csid[p] = currCsid
              /\ Header.len = Script[p][m].len /\ Header.msg = m
              /\ got[p] <= Script[p][m].len
              /\ Holds(p, m, HeaderLength + got[p])
              /\ next[p] = IF got[p] < Script[p][m].len THEN <<m, got[p] + 2>> ELSE <<m + 1, 0>>
      BY <1>2, <2>1 DEF ReceiveInv
    <2>3. got[p] = Script[p][m].len /\ next[p] = <<m + 1, 0>>
      BY <1>1, <1>3, <2>1, <2>2, RelayAssumption DEF Header
    <2>4. Header' = [len |-> Script[p][m].len, hl |-> HeaderLength, msg |-> m]
      BY <1>1, <2>1, <2>2 DEF Header, HeaderType, MessageHeader
    <2>5. Holds(p, m, HeaderLength + Script[p][m].len)'
      BY <2>1, <2>2, <2>3 DEF Holds, buffer
    <2> QED  BY <1>2, <2>1, <2>3, <2>4, <2>5 DEF ReceiveInv
  <1>10. CASE ReceiveFail(p)
    <2>1. PICK dropped \in BOOLEAN :
              /\ aligned' = [aligned EXCEPT ![p] = @ /\ ~dropped]
              /\ intact' = [intact EXCEPT ![p] = @ /\ ~dropped /\ pc[p] = "basic"]
      BY <1>10 DEF ReceiveFail
    <2>2. ~dropped /\ pc[p] = "basic"
      BY <1>1, <2>1
    <2>3. aligned'[p]
      BY <1>1, <1>2, <2>1, <2>2 DEF PushType, ReceiveInv
    <2>4. pc'[p] = "handoff" /\ size' = size /\ next' = next
      BY <1>1, <1>10 DEF ReceiveFail, HandOff, buffer
    <2> QED  BY <1>2, <2>2, <2>3, <2>4 DEF ReceiveInv
  <1>11. CASE Clear(p)
    <2>1. pc[p] = "handoff" /\ pc'[p] = "basic" /\ size' = 0 /\ UNCHANGED push
      BY <1>1, <1>11 DEF Clear
    <2> QED  BY <1>2, <2>1 DEF ReceiveInv, push
  <1>12. ASSUME NEW q \in Player, Play(q) PROVE ReceiveInv(p)'
    <2>1. UNCHANGED <<buffer, header, push>>
      BY <1>12 DEF Play, IdentifyPull, PlaySetup, AwaitMetaData, OnMetaDataBlock, OnMetaData,
         PollSlot, TakeSlot, WriteChunk, WriteNothing, WriteBlock, WriteResume, WriteFail, PassDone, vars
    <2>2. pc'[p] = pc[p]
      BY <1>1, <1>12 DEF Play, IdentifyPull, PlaySetup, AwaitMetaData, OnMetaDataBlock, OnMetaData,
         PollSlot, TakeSlot, WriteChunk, WriteNothing, WriteBlock, WriteResume, WriteFail, PassDone, vars
    <2>3. running # p
      BY <1>1, <1>12 DEF Play, IdentifyPull, PlaySetup, AwaitMetaData, OnMetaDataBlock, OnMetaData,
         PollSlot, TakeSlot, WriteChunk, WriteNothing, WritesNothing, WriteBlock, WriteResume, WriteFail, PassDone
    <2> QED  BY <1>1, <1>2, <2>1, <2>2, <2>3, OthersWait, ReceiveFrame DEF header
  <1>13. ASSUME NEW c \in Client, Accept(c) \/ CommandWait(c) \/ CommandEof(c) \/ Spin(c) \/ SessionFail(c)
         PROVE  ReceiveInv(p)'
    <2>1. UNCHANGED <<buffer, header, push>>
      BY <1>13 DEF Accept, CommandWait, CommandEof, Spin, SessionFail, vars
    <2>2. \/ pc'[p] = pc[p] \/ pc'[p] \in {"done", "spin"}
          \/ pc[p] = "absent" /\ pc'[p] = "session"
      BY <1>1, <1>13 DEF Accept, CommandWait, CommandEof, Spin, SessionFail, vars
    <2>3. pc'[p] = "payload" => running # p
      BY <1>1, <1>13, RelayAssumption DEF Accept, CommandWait, CommandEof, Spin, SessionFail, vars
    <2> QED  BY <1>1, <1>2, <2>1, <2>2, <2>3, OthersWait, ReceiveFrame DEF header
  <1>14. ASSUME IdleThread \/ IdleBlock \/ AcceptWait PROVE ReceiveInv(p)'
    <2>1. UNCHANGED <<pc, buffer, header, push>>
      BY <1>14 DEF IdleThread, IdleBlock, AcceptWait, vars
    <2>2. running # p
      BY <1>1, <1>14, RelayAssumption, ThreadAssumption DEF IdleThread, IdlePass, IdleBlock, AcceptWait
    <2> QED  BY <1>1, <1>2, <2>1, <2>2, OthersWait, ReceiveFrame DEF header
  <1> QED  BY <1>4, <1>5, <1>6, <1>7, <1>8, <1>9, <1>10, <1>11, <1>12, <1>13, <1>14 DEF Next, Publish

-----------------------------------------------------------------------------
(* Passes over the buffer.                                                  *)

\* A clean pass of q: the hand-off is still in progress, the slot it set is
\* the first one and points at the buffer, and the pass has sent the chunks of
\* the message up to the one it is at.
CleanPass(p, q) ==
    /\ pc[p] = "handoff" /\ begin = handed /\ slot[begin] = alloc
    /\ ~skew[q] /\ total[q] = Len(sent[q]) /\ (size = 0 => total[q] = 0)
    /\ intact[p] /\ size > 0 =>
          /\ total[q] <= Header.len
          /\ \A i \in 1..total[q] : sent[q][i] = Chunks(p, next[p][1] - 1)[i]

\* During a hand-off the slot it set is reset or points at the buffer.
PassInv(p) ==
    /\ handed \in consumers \cup {None}
    /\ pc[p] = "handoff" => Header.hl \in Nat
    /\ pc[p] = "handoff" /\ handed # None => slot[handed] \in {NULL, alloc}
    /\ \A q \in Player : pc[q] = "write" => ~clean[q]
    /\ \A q \in Player : pc[q] = "send" /\ clean[q] => CleanPass(p, q)

\* The first chunk of a message is headed by its number, and a pass that has
\* sent the chunks up to total sends the next one.
LEMMA ChunkSent ==
    ASSUME TypeOK, NEW p \in Publisher, NEW q \in Player, ReceiveInv(p), CleanPass(p, q), intact[p],
           size > 0, MoreToSend(q), Header.len > total[q]
    PROVE  /\ total[q] + 1 <= Header.len
           /\ [head |-> NextChunk(q).head, body |-> NextChunk(q).body]
                = Chunks(p, next[p][1] - 1)[total[q] + 1]
  <1>1. /\ total[q] \in Nat /\ size \in 0..MaxUnits /\ MaxUnits \in Nat /\ Header \in MessageHeader
    BY RelayAssumption DEF TypeOK, PullType, BufferType, HeaderType, Header
  <1>2. PICK m \in 1..Len(Script[p]) :
                  /\ next[p] = <<m + 1, 0>>
                  /\ Holds(p, m, HeaderLength + Script[p][m].len)
                  /\ Header = [len |-> Script[p][m].len, hl |-> HeaderLength, msg |-> m]
    BY DEF ReceiveInv, CleanPass
  <1>3. Script[p][m].len \in Nat /\ m \in Nat
    BY <1>2, ScriptType, RelayAssumption
  <1>4. next[p][1] - 1 = m
    BY <1>2, <1>3
  <1>5. Header.len = Script[p][m].len /\ Header.hl = 2 /\ Header.msg = m
    BY <1>2 DEF HeaderLength
  <1>6. size = 2 + Script[p][m].len /\ \A i \in 1..size : mem[i] = Unit(p, m, i - 1)
    BY <1>2 DEF Holds, HeaderLength
  <1>7. PICK k \in 1..size : k = Header.hl + total[q] + 1
    BY <1>1, <1>3, <1>5, <1>6
  <1>8. NextChunk(q).body = Unit(p, m, total[q] + 2)
    <2>1. ByteAt(slot[begin], Header.hl + total[q]) = mem[k]
      BY <1>1, <1>7 DEF ByteAt, CleanPass
    <2>2. mem[k] = Unit(p, m, k - 1)
      BY <1>6
    <2>3. k - 1 = total[q] + 2
      BY <1>1, <1>5, <1>7
    <2>4. ~skew[q]
      BY DEF CleanPass
    <2> QED  BY <2>1, <2>2, <2>3, <2>4 DEF NextChunk
  <1>9. NextChunk(q).head = IF total[q] = 0 THEN m ELSE 0
    BY <1>5 DEF NextChunk
  <1>10. total[q] + 1 \in 1..Script[p][m].len
    BY <1>1, <1>3, <1>5
  <1>11. Chunks(p, m)[total[q] + 1] =
            [head |-> IF total[q] + 1 = 1 THEN m ELSE 0, body |-> Unit(p, m, total[q] + 1 + 1)]
    BY <1>10 DEF Chunks
  <1>12. total[q] + 1 + 1 = total[q] + 2 /\ (total[q] + 1 = 1 <=> total[q] = 0)
    BY <1>1
  <1>13. total[q] + 1 <= Header.len
    BY <1>1, <1>3, <1>5
  <1> QED  BY <1>4, <1>8, <1>9, <1>11, <1>12, <1>13

\* A step of another thread, or one that only moves a player outside its pass.
LEMMA PassFrame ==
    ASSUME NEW p \in Publisher, PassInv(p),
           UNCHANGED <<shared, buffer, currCsid, csidHeader, next, total, skew, sent, handed, clean, intact>>,
           pc'[p] = "handoff" <=> pc[p] = "handoff",
           \A q \in Player : pc'[q] \in {"send", "write"} => pc'[q] = pc[q]
    PROVE  PassInv(p)'
  <1>1. Header' = Header
    BY DEF Header
  <1>2. \A q \in Player : CleanPass(p, q)' <=> CleanPass(p, q)
    BY <1>1 DEF CleanPass, shared, buffer
  <1> QED  BY <1>1, <1>2 DEF PassInv, shared, buffer

\* Every step keeps PassInv.
LEMMA PassStep ==
    ASSUME TypeOK, Registered, Sending, NEW p \in Publisher, Publisher = {p},
           intact[p] => ReceiveInv(p), PassInv(p), Next
    PROVE  PassInv(p)'
  <1> USE ClientFacts
  <1>1. /\ pc \in [Client -> ControlState] /\ p \in Client /\ p \notin Player
        /\ SharedType /\ PullType /\ HistType /\ HeaderType /\ None \notin Player
    BY RelayAssumption DEF TypeOK
  <1>2. \A q \in Player : pc[q] = "send" => running = q
    BY DEF Sending
  \* While p runs no pass is under way.
  <1>3. ASSUME running = p, UNCHANGED <<consumers, clean>>,
               \A q \in Player : pc'[q] = pc[q],
               handed' \in consumers \cup {None}, pc'[p] = "handoff" => Header'.hl \in Nat,
               pc'[p] = "handoff" /\ handed' # None => slot'[handed'] \in {NULL, alloc'}
        PROVE  PassInv(p)'
    <2>1. \A q \in Player : pc'[q] # "send"
      BY <1>1, <1>2, <1>3
    <2> QED  BY <1>3, <2>1 DEF PassInv
  <1>4. CASE ReceiveDone(p) \/ ReceiveFail(p)
    <2>1. PICK hl \in {1, HeaderLength} : HandOff(p, hl) /\ running = p
      BY <1>4 DEF ReceiveDone, ReceiveFail
    <2>2. /\ slot' = IF consumers # {} THEN [slot EXCEPT ![begin] = alloc] ELSE slot
          /\ pc' = [pc EXCEPT ![p] = "handoff"] /\ handed' = begin
          /\ csidHeader' = [csidHeader EXCEPT ![currCsid] = [@ EXCEPT !.hl = hl]]
          /\ UNCHANGED <<consumers, alloc, clean, currCsid>>
      BY <2>1 DEF HandOff, buffer
    <2>3. handed' # None => consumers # {} /\ handed' \in Player
      BY <1>1, <2>2 DEF SharedType
    <2>4. handed' # None => slot'[handed'] = alloc'
      BY <1>1, <2>2, <2>3 DEF SharedType
    <2>5. handed' \in consumers \cup {None}
      BY <1>1, <2>2 DEF SharedType
    <2>6. Header'.hl \in Nat
      BY <1>1, <2>1, <2>2 DEF Header, HeaderType, MessageHeader, HeaderLength
    <2> QED  BY <1>1, <1>3, <2>1, <2>2, <2>4, <2>5, <2>6
  <1>5. CASE \/ Identify(p) \/ SetDataFrame(p) \/ SetDataFrameFail(p) \/ ReadBasicHeader(p)
             \/ ReadMessageHeader(p) \/ ReadChunk(p) \/ ReadWait(p) \/ ReadEof(p) \/ Clear(p)
    <2>1. running = p /\ UNCHANGED <<consumers, clean, handed>>
      BY <1>5 DEF Identify, SetDataFrame, SetDataFrameFail, ReadBasicHeader, ReadMessageHeader,
                  ReadChunk, ReadWait, ReadEof, Clear, shared, hist
    <2>2. pc'[p] # "handoff" /\ \A q \in Player : pc'[q] = pc[q]
      BY <1>1, <1>5 DEF Identify, SetDataFrame, SetDataFrameFail, ReadBasicHeader, ReadMessageHeader,
                  ReadChunk, ReadWait, ReadEof, NeedsRead, Clear
    <2> QED  BY <1>3, <2>1, <2>2 DEF PassInv
  <1>6. ASSUME NEW q \in Player, IdentifyPull(q) \/ OnMetaData(q) PROVE PassInv(p)'
    <2>1. /\ running = q /\ pc[q] \notin {"send", "write"} /\ Insert(q)
          /\ \E x \in {"setup", "poll"} : pc' = [pc EXCEPT ![q] = x]
          /\ UNCHANGED <<alloc, handed, clean, header>>
      BY <1>6 DEF IdentifyPull, OnMetaData, buffer
    <2>2. \A r \in Player : pc'[r] # "send" /\ (pc'[r] = "write" => pc[r] = "write")
      BY <1>1, <1>2, <2>1
    <2>3. pc'[p] = pc[p]
      BY <1>1, <2>1
    <2>4. consumers \subseteq consumers' /\ \A r \in consumers : slot'[r] = slot[r]
      <3>1. CASE q \in consumers
        BY <2>1, <3>1 DEF Insert, shared
      <3>2. CASE q \notin consumers
        BY <1>1, <2>1, <3>2 DEF Insert, SharedType
      <3> QED  BY <3>1, <3>2
    <2> QED  BY <2>1, <2>2, <2>3, <2>4 DEF PassInv, Header, header
  <1>7. ASSUME NEW q \in Player,
               PlaySetup(q) \/ AwaitMetaData(q) \/ OnMetaDataBlock(q) \/ PollSlot(q) \/ WriteNothing(q)
        PROVE  PassInv(p)'
    <2>1. UNCHANGED <<shared, buffer, header, push, pull, hist>>
      BY <1>7 DEF PlaySetup, AwaitMetaData, OnMetaDataBlock, PollSlot, WriteNothing, vars
    <2>2. pc' = pc \/ \E x \in {"meta", "metaWrite"} : pc' = [pc EXCEPT ![q] = x]
      BY <1>7 DEF PlaySetup, AwaitMetaData, OnMetaDataBlock, PollSlot, WriteNothing, vars
    <2>3. pc'[p] = pc[p] /\ \A r \in Player : pc'[r] \in {"send", "write"} => pc'[r] = pc[r]
      BY <1>1, <2>2
    <2> QED  BY <2>1, <2>3, PassFrame DEF header, push, pull, hist
  <1>8. ASSUME NEW q \in Player, TakeSlot(q) PROVE PassInv(p)'
    <2>1. /\ running = q /\ pc[q] = "poll" /\ slot[begin] # NULL
          /\ pc' = [pc EXCEPT ![q] = "send"] /\ total' = [total EXCEPT ![q] = 0]
          /\ skew' = [skew EXCEPT ![q] = FALSE] /\ sent' = [sent EXCEPT ![q] = <<>>]
          /\ clean' = [clean EXCEPT ![q] = (begin = handed) /\ \E r \in Publisher : pc[r] = "handoff"]
          /\ UNCHANGED <<shared, buffer, currCsid, csidHeader, next, handed, intact>>
      BY <1>8 DEF TakeSlot, header, push
    <2>2. \A r \in Player : r # q => pc'[r] = pc[r] /\ pc'[r] # "send" /\ clean'[r] = clean[r]
      BY <1>1, <1>2, <2>1 DEF HistType
    <2>3. pc'[p] = pc[p] /\ pc'[q] = "send"
      BY <1>1, <2>1
    <2>4. clean'[q] => pc[p] = "handoff" /\ begin = handed
      BY <1>1, <2>1 DEF HistType
    <2>5. begin \in consumers
      BY <1>1, <2>1 DEF Registered, SharedType
    <2>6. ASSUME clean'[q] PROVE CleanPass(p, q)'
      <3>1. slot[begin] = alloc
        BY <1>1, <2>1, <2>4, <2>5, <2>6 DEF PassInv, SharedType
      <3>2. ~skew'[q] /\ total'[q] = 0 /\ sent'[q] = <<>>
        BY <1>1, <2>1 DEF PullType
      <3>3. Header' = Header
        BY <2>1 DEF Header
      <3>4. intact[p] /\ size > 0 => 0 <= Header.len
        <4> SUFFICES ASSUME intact[p], size > 0 PROVE 0 <= Header.len
          OBVIOUS
        <4>1. PICK m \in 1..Len(Script[p]) : Header.len = Script[p][m].len
          BY <2>4, <2>6 DEF ReceiveInv
        <4> QED  BY <4>1, ScriptType, RelayAssumption
      <3> QED  BY <2>1, <2>3, <2>4, <2>6, <3>1, <3>2, <3>3, <3>4 DEF CleanPass, shared, buffer
    <2> QED  BY <2>1, <2>2, <2>3, <2>6 DEF PassInv, Header, shared, buffer
  <1>9. ASSUME NEW q \in Player, WriteChunk(q) PROVE PassInv(p)'
    <2>1. /\ running = q /\ pc[q] = "send" /\ MoreToSend(q) /\ Header.len > total[q]
          /\ sent' = [sent EXCEPT ![q] =
                Append(@, [head |-> NextChunk(q).head, body |-> NextChunk(q).body])]
          /\ total' = [total EXCEPT ![q] = @ + 1]
          /\ UNCHANGED <<pc, shared, buffer, currCsid, csidHeader, next, skew, handed, clean, intact>>
      BY <1>9 DEF WriteChunk, Written, header, push, hist
    <2>2. \A r \in Player : r # q => pc[r] # "send"
      BY <1>2, <2>1
    <2>3. ASSUME clean[q] PROVE CleanPass(p, q)'
      <3> DEFINE c == [head |-> NextChunk(q).head, body |-> NextChunk(q).body]
      <3>1. CleanPass(p, q)
        BY <2>1, <2>3 DEF PassInv
      <3>2. sent[q] \in Seq(WireChunk) /\ total[q] \in Nat /\ total[q] = Len(sent[q])
        BY <1>1, <3>1 DEF PullType, CleanPass
      <3>3. sent'[q] = Append(sent[q], c) /\ total'[q] = total[q] + 1
        BY <1>1, <2>1 DEF PullType
      <3> HIDE DEF c
      <3>4. Len(sent'[q]) = total'[q]
        BY <3>2, <3>3
      <3>5. /\ \A i \in 1..total[q] : sent'[q][i] = sent[q][i]
            /\ sent'[q][total[q] + 1] = c
        BY <3>2, <3>3
      <3>6. Header' = Header
        BY <2>1 DEF Header
      <3>7. ASSUME intact[p], size > 0
            PROVE  /\ total'[q] <= Header.len
                   /\ \A i \in 1..total'[q] : sent'[q][i] = Chunks(p, next[p][1] - 1)[i]
        <4>1. total[q] + 1 <= Header.len /\ c = Chunks(p, next[p][1] - 1)[total[q] + 1]
          BY <2>1, <3>1, <3>7, ChunkSent DEF c
        <4>2. ASSUME NEW i \in 1..total'[q] PROVE sent'[q][i] = Chunks(p, next[p][1] - 1)[i]
          <5>1. i \in 1..total[q] \/ i = total[q] + 1
            BY <3>2, <3>3
          <5> QED  BY <3>1, <3>5, <3>7, <4>1, <5>1 DEF CleanPass
        <4> QED  BY <3>3, <4>1, <4>2
      <3>8. Chunks(p, next[p][1] - 1)' = Chunks(p, next[p][1] - 1)
        BY <2>1 DEF Chunks
      <3>9. size # 0
        <4>1. Header.hl \in Nat
          BY <3>1 DEF CleanPass, PassInv
        <4> QED  BY <2>1, <3>2, <4>1 DEF MoreToSend
      <3> QED  BY <2>1, <3>1, <3>4, <3>6, <3>7, <3>8, <3>9 DEF CleanPass, shared, buffer
    <2> QED  BY <2>1, <2>2, <2>3 DEF PassInv, Header, shared, buffer
  <1>10. ASSUME NEW q \in Player, WriteBlock(q) \/ WriteFail(q) PROVE PassInv(p)'
    <2>1. /\ running = q /\ \E x \in {"write", "done"} : pc' = [pc EXCEPT ![q] = x]
          /\ clean' = [clean EXCEPT ![q] = FALSE]
          /\ UNCHANGED <<shared, buffer, header, handed>>
      BY <1>10 DEF WriteBlock, WriteFail
    <2>2. \A r \in Player : r # q => pc'[r] = pc[r] /\ pc'[r] # "send" /\ clean'[r] = clean[r]
      BY <1>1, <1>2, <2>1 DEF HistType
    <2>3. pc'[p] = pc[p] /\ ~clean'[q]
      BY <1>1, <2>1 DEF HistType
    <2> QED  BY <2>1, <2>2, <2>3 DEF PassInv, Header, header, shared, buffer
  <1>11. ASSUME NEW q \in Player, WriteResume(q) PROVE PassInv(p)'
    <2>1. /\ running = q /\ pc[q] = "write" /\ pc' = [pc EXCEPT ![q] = "send"]
          /\ UNCHANGED <<shared, buffer, header, handed, clean>>
      BY <1>11 DEF WriteResume, hist
    <2>2. \A r \in Player : r # q => pc'[r] = pc[r] /\ pc'[r] # "send"
      BY <1>1, <1>2, <2>1
    <2>3. pc'[p] = pc[p] /\ ~clean[q]
      BY <1>1, <2>1 DEF PassInv
    <2> QED  BY <2>1, <2>2, <2>3 DEF PassInv, Header, header, shared, buffer
  <1>12. ASSUME NEW q \in Player, PassDone(q) PROVE PassInv(p)'
    <2>1. /\ running = q /\ pc' = [pc EXCEPT ![q] = "poll"]
          /\ slot' = [slot EXCEPT ![begin] = NULL]
          /\ UNCHANGED <<consumers, buffer, header, handed, clean>>
      BY <1>12 DEF PassDone
    <2>2. \A r \in Player : pc'[r] # "send" /\ (pc'[r] = "write" => pc[r] = "write")
      BY <1>1, <1>2, <2>1
    <2>3. pc'[p] = pc[p]
      BY <1>1, <2>1
    <2>4. handed # None => slot'[handed] \in {slot[handed], NULL}
      BY <1>1, <2>1 DEF SharedType, HistType
    <2> QED  BY <2>1, <2>2, <2>3, <2>4 DEF PassInv, Header, header, buffer
  <1>13. ASSUME NEW c \in Client, Accept(c) \/ CommandWait(c) \/ CommandEof(c) \/ Spin(c) \/ SessionFail(c)
         PROVE  PassInv(p)'
    <2>1. UNCHANGED <<shared, buffer, header, push, pull, hist>>
      BY <1>13 DEF Accept, CommandWait, CommandEof, Spin, SessionFail, vars
    <2>2. \/ pc' = pc
          \/ /\ pc[c] \in {"absent", "session", "setup"}
             /\ \E x \in {"session", "spin", "done"} : pc' = [pc EXCEPT ![c] = x]
      BY <1>13 DEF Accept, CommandWait, CommandEof, Spin, SessionFail, vars
    <2>3. /\ pc'[p] = "handoff" <=> pc[p] = "handoff"
          /\ \A r \in Player : pc'[r] \in {"send", "write"} => pc'[r] = pc[r]
      BY <1>1, <2>2
    <2> QED  BY <2>1, <2>3, PassFrame DEF header, push, pull, hist
  <1>14. ASSUME IdleThread \/ IdleBlock \/ AcceptWait PROVE PassInv(p)'
    <2>1. UNCHANGED <<pc, shared, buffer, header, push, pull, handed, clean, intact>>
      BY <1>14 DEF IdleThread, IdleBlock, AcceptWait, vars, hist
    <2> QED  BY <2>1, PassFrame DEF header, push, pull
  <1> QED  BY <1>4, <1>5, <1>6, <1>7, <1>8, <1>9, <1>10, <1>11, <1>12, <1>13, <1>14
           DEF Next, Publish, Play

-----------------------------------------------------------------------------
(* The order in which messages are played.                                  *)

\* The messages played so far are in order and older than the one p's socket
\* delivers next; older than the one in the buffer, too, until a pass over it
\* has reset the slot.
PlayedInv(p) ==
    /\ \A i, j \in DOMAIN played : i < j => played[i] < played[j]
    /\ \A i \in DOMAIN played : played[i] < next[p][1]
    /\ \/ pc[p] = "payload"
       \/ pc[p] = "handoff" /\ size > 0 /\ handed # None /\ slot[handed] # NULL
       => \A i \in DOMAIN played : played[i] < Header.msg

\* A socket delivers its messages in order.
LEMMA NextForward ==
    ASSUME TypeOK, NEW p \in Publisher, Publisher = {p}, Next
    PROVE  next[p][1] \in Nat /\ next'[p][1] \in Nat /\ next[p][1] <= next'[p][1]
  <1>1. next \in [Publisher -> (Nat \ {0}) \X (0..MaxLen + 1)] /\ PushType
    BY DEF TypeOK, PushType
  <1>2. next[p][1] \in Nat
    BY <1>1
  <1>3. ASSUME NEW n, ReadUpTo(p, n) PROVE next'[p][1] = next[p][1] \/ next'[p][1] = next[p][1] + 1
    <2>1. CASE size >= n /\ poll[p] = "none"
      BY <1>3, <2>1 DEF ReadUpTo
    <2>2. CASE ~(size >= n /\ poll[p] = "none")
      BY <1>1, <1>3, <2>2 DEF ReadUpTo, Successor
    <2> QED  BY <2>1, <2>2
  <1>4. CASE ReadBasicHeader(p) \/ ReadMessageHeader(p) \/ ReadChunk(p)
    <2>1. \E n : ReadUpTo(p, n)
      BY <1>4 DEF ReadBasicHeader, ReadMessageHeader, ReadChunk
    <2>2. next'[p][1] = next[p][1] \/ next'[p][1] = next[p][1] + 1
      BY <1>3, <2>1
    <2> QED  BY <1>2, <2>2
  <1>5. CASE ~(ReadBasicHeader(p) \/ ReadMessageHeader(p) \/ ReadChunk(p))
    <2>1. ASSUME Publish(p) PROVE UNCHANGED next
      BY <1>5, <2>1 DEF Publish, Identify, SetDataFrame, SetDataFrameFail, ReadWait, ReadEof,
         ReceiveDone, ReceiveFail, HandOff, Clear, push
    <2>2. ASSUME NEW q \in Player, Play(q) PROVE UNCHANGED next
      BY <2>2 DEF Play, IdentifyPull, PlaySetup, AwaitMetaData, OnMetaDataBlock, OnMetaData,
         PollSlot, TakeSlot, WriteChunk, WriteNothing, WriteBlock, WriteResume, WriteFail, PassDone,
         push, vars
    <2>3. ASSUME NEW c \in Client, Accept(c) \/ CommandWait(c) \/ CommandEof(c) \/ Spin(c) \/ SessionFail(c)
          PROVE  UNCHANGED next
      BY <2>3 DEF Accept, CommandWait, CommandEof, Spin, SessionFail, push, vars
    <2>4. ASSUME IdleThread \/ IdleBlock \/ AcceptWait PROVE UNCHANGED next
      BY <2>4 DEF IdleThread, IdleBlock, AcceptWait, push, vars
    <2>5. UNCHANGED next
      BY <2>1, <2>2, <2>3, <2>4 DEF Next
    <2> QED  BY <1>2, <2>5
  <1> QED  BY <1>4, <1>5

\* Every step keeps PlayedInv, unless a receive fails inside a message.
LEMMA PlayedStep ==
    ASSUME TypeOK, Sending, Registered, NEW p \in Publisher, Publisher = {p}, intact[p], intact'[p],
           ReceiveInv(p), ReceiveInv(p)', PassInv(p), PlayedInv(p), Next
    PROVE  PlayedInv(p)'
  <1> USE ClientFacts
  <1>1. /\ pc \in [Client -> ControlState] /\ p \in Client /\ p \notin Player
        /\ SharedType /\ PullType /\ HistType /\ played \in Seq(Nat) /\ None \notin Player
    BY RelayAssumption DEF TypeOK, HistType
  <1>2. next[p][1] \in Nat /\ next'[p][1] \in Nat /\ next[p][1] <= next'[p][1]
    BY NextForward
  <1>3. \A i \in DOMAIN played : played[i] \in Nat
    BY <1>1
  \* It suffices to look at the third part as long as nothing is played.
  <1>4. ASSUME played' = played,
               \/ (pc[p] = "payload")'
               \/ (pc[p] = "handoff" /\ size > 0 /\ handed # None /\ slot[handed] # NULL)'
               => \A i \in DOMAIN played : played[i] < Header'.msg
        PROVE  PlayedInv(p)'
    <2>1. \A i \in DOMAIN played : played[i] < next'[p][1]
      BY <1>2, <1>3 DEF PlayedInv
    <2> QED  BY <1>4, <2>1 DEF PlayedInv
  <1>5. ASSUME played' = played, UNCHANGED <<buffer, currCsid, csidHeader, handed>>,
               \/ pc'[p] = pc[p] /\ \A r \in consumers : slot'[r] \in {slot[r], NULL}
               \/ pc'[p] \notin {"payload", "handoff"}
        PROVE  PlayedInv(p)'
    <2>1. Header' = Header
      BY <1>5 DEF Header
    <2>2. handed # None => handed \in consumers
      BY DEF PassInv
    <2> QED  BY <1>4, <1>5, <2>1, <2>2 DEF PlayedInv, buffer
  <1>6. CASE \/ Identify(p) \/ SetDataFrame(p) \/ SetDataFrameFail(p) \/ ReadBasicHeader(p)
             \/ ReadEof(p) \/ Clear(p)
    <2>1. pc'[p] \notin {"payload", "handoff"} /\ played' = played
      BY <1>1, <1>6 DEF Identify, SetDataFrame, SetDataFrameFail, ReadBasicHeader, ReadEof, Clear, hist
    <2> QED  BY <1>4, <2>1
  <1>7. CASE ReadMessageHeader(p)
    <2>1. pc'[p] = "payload" /\ played' = played /\ got'[p] = 0
      BY <1>1, <1>7 DEF ReadMessageHeader, hist, TypeOK, PushType
    <2>2. PICK m \in 1..Len(Script[p]) :
              /\ Header'.msg = m
              /\ next'[p] = IF got'[p] < Script[p][m].len THEN <<m, got'[p] + 2>> ELSE <<m + 1, 0>>
      BY <2>1 DEF ReceiveInv
    <2>3. next'[p][1] = Header'.msg
      BY <2>1, <2>2, ScriptType, RelayAssumption
    <2>4. \A i \in DOMAIN played : played[i] < Header'.msg
      BY <1>2, <1>3, <2>3 DEF PlayedInv
    <2> QED  BY <1>4, <2>1, <2>4
  <1>8. CASE ReadChunk(p) \/ ReadWait(p)
    <2>1. /\ pc' = pc /\ pc[p] # "handoff" /\ played' = played
          /\ UNCHANGED <<currCsid, csidHeader>>
      BY <1>8 DEF ReadChunk, ReadWait, NeedsRead, header, hist
    <2>2. Header' = Header
      BY <2>1 DEF Header
    <2> QED  BY <1>4, <2>1, <2>2 DEF PlayedInv
  <1>9. CASE ReceiveDone(p)
    <2>1. /\ pc[p] = "payload" /\ played' = played /\ currCsid' = currCsid
          /\ csidHeader' = [csidHeader EXCEPT ![currCsid] = [@ EXCEPT !.hl = HeaderLength]]
      BY <1>9 DEF ReceiveDone, HandOff
    <2>2. Header'.msg = Header.msg
      BY <2>1 DEF Header, TypeOK, HeaderType, MessageHeader
    <2> QED  BY <1>4, <2>1, <2>2 DEF PlayedInv
  <1>10. CASE ReceiveFail(p)
    <2>1. pc[p] = "basic"
      <3>1. PICK dropped \in BOOLEAN : intact' = [intact EXCEPT ![p] = @ /\ ~dropped /\ pc[p] = "basic"]
        BY <1>10 DEF ReceiveFail
      <3> QED  BY <1>1, <3>1 DEF HistType
    <2>2. size = 0 /\ size' = size /\ pc'[p] = "handoff" /\ played' = played
      BY <1>1, <1>10, <2>1 DEF ReceiveFail, HandOff, ReceiveInv, buffer
    <2> QED  BY <1>4, <2>2
  <1>11. ASSUME NEW q \in Player, IdentifyPull(q) \/ OnMetaData(q) PROVE PlayedInv(p)'
    <2>1. /\ Insert(q) /\ pc'[p] = pc[p]
          /\ UNCHANGED <<buffer, currCsid, csidHeader, handed, played>>
      BY <1>1, <1>11 DEF IdentifyPull, OnMetaData, header
    <2>2. \A r \in consumers : slot'[r] = slot[r]
      <3>1. CASE q \in consumers
        BY <2>1, <3>1 DEF Insert, shared
      <3>2. CASE q \notin consumers
        BY <1>1, <2>1, <3>2 DEF Insert, SharedType
      <3> QED  BY <3>1, <3>2
    <2> QED  BY <1>5, <2>1, <2>2
  <1>12. ASSUME NEW q \in Player,
                \/ PlaySetup(q) \/ AwaitMetaData(q) \/ OnMetaDataBlock(q) \/ PollSlot(q) \/ TakeSlot(q)
                \/ WriteChunk(q) \/ WriteNothing(q) \/ WriteBlock(q) \/ WriteResume(q) \/ WriteFail(q)
         PROVE  PlayedInv(p)'
    <2>1. UNCHANGED <<shared, buffer, header, handed, played>>
      BY <1>12 DEF PlaySetup, AwaitMetaData, OnMetaDataBlock, PollSlot, TakeSlot, WriteChunk,
         WriteNothing, WriteBlock, WriteResume, WriteFail, hist, vars
    <2>2. pc'[p] = pc[p]
      BY <1>1, <1>12 DEF PlaySetup, AwaitMetaData, OnMetaDataBlock, PollSlot, TakeSlot, WriteChunk,
         WriteNothing, WriteBlock, WriteResume, WriteFail, vars
    <2> QED  BY <1>5, <2>1, <2>2 DEF shared, header
  \* A clean pass is over: the message it played is the one in the buffer, and
  \* the slot of the hand-off is reset.
  <1>13. ASSUME NEW q \in Player, PassDone(q) PROVE PlayedInv(p)'
    <2>1. /\ pc[q] = "send" /\ slot' = [slot EXCEPT ![begin] = NULL] /\ pc'[p] = pc[p]
          /\ played' = IF clean[q] /\ sent[q] # <<>> THEN Append(played, sent[q][1].head) ELSE played
          /\ UNCHANGED <<buffer, header, next, handed>>
      BY <1>1, <1>13 DEF PassDone, push
    <2>2. CASE played' = played
      <3>1. \A r \in consumers : slot'[r] \in {slot[r], NULL}
        BY <1>1, <2>1 DEF SharedType
      <3> QED  BY <1>5, <2>1, <2>2, <3>1 DEF header
    <2>3. CASE clean[q] /\ sent[q] # <<>>
      <3>1. CleanPass(p, q) /\ sent[q] \in Seq(WireChunk) /\ total[q] \in Nat
        BY <1>1, <2>1, <2>3 DEF PassInv, PullType
      <3>2. total[q] \in Nat \ {0}
        BY <2>3, <3>1 DEF CleanPass
      <3>3. CASE size > 0
        <4>1. PICK m \in 1..Len(Script[p]) :
                    /\ next[p] = <<m + 1, 0>>
                    /\ Header = [len |-> Script[p][m].len, hl |-> HeaderLength, msg |-> m]
          BY <3>1, <3>3 DEF ReceiveInv, CleanPass
        <4>2. m \in Nat /\ Script[p][m].len \in Nat \ {0} /\ next[p][1] - 1 = m /\ Header.msg = m
          BY <4>1, ScriptType, RelayAssumption
        <4>3. sent[q][1] = Chunks(p, m)[1]
          BY <3>1, <3>2, <3>3, <4>2 DEF CleanPass
        <4>4. sent[q][1].head = m
          BY <4>2, <4>3 DEF Chunks
        <4>5. \A i \in DOMAIN played : played[i] < m
          <5>1. slot[handed] # NULL /\ handed # None /\ pc[p] = "handoff"
            <6>1. begin = handed /\ slot[begin] = alloc /\ alloc # NULL /\ pc[p] = "handoff"
              BY <3>1 DEF CleanPass, TypeOK, BufferType, NULL
            <6>2. begin \in consumers
              BY <1>1, <2>1 DEF Registered, SharedType
            <6> QED  BY <1>1, <6>1, <6>2 DEF SharedType
          <5> QED  BY <3>3, <4>2, <5>1 DEF PlayedInv
        <4>6. played' = Append(played, m)
          BY <2>1, <2>3, <4>4
        <4>7. /\ Len(played) \in Nat /\ DOMAIN played = 1..Len(played)
              /\ DOMAIN played' = 1..(Len(played) + 1) /\ played'[Len(played) + 1] = m
              /\ \A i \in 1..Len(played) : played'[i] = played[i]
          BY <1>1, <4>2, <4>6
        <4>8. ASSUME NEW i \in DOMAIN played', NEW j \in DOMAIN played', i < j
              PROVE  played'[i] < played'[j]
          <5>1. i \in DOMAIN played
            BY <4>7, <4>8
          <5>2. CASE j = Len(played) + 1
            BY <4>5, <4>7, <5>1, <5>2
          <5>3. CASE j # Len(played) + 1
            <6>1. j \in DOMAIN played
              BY <4>7, <5>3
            <6> QED  BY <4>7, <4>8, <5>1, <6>1 DEF PlayedInv
          <5> QED  BY <5>2, <5>3
        <4>9. \A i \in DOMAIN played' : played'[i] < next'[p][1]
          <5>1. next'[p][1] = m + 1
            BY <2>1, <4>1
          <5> QED  BY <1>3, <4>2, <4>5, <4>7, <5>1
        <4>10. slot'[handed'] = NULL
          <5>1. handed' = begin /\ begin \in Player
            BY <1>1, <2>1, <3>1 DEF CleanPass, Registered, SharedType
          <5> QED  BY <1>1, <2>1, <5>1 DEF SharedType
        <4>11. pc'[p] # "payload"
          BY <2>1, <3>1 DEF CleanPass
        <4> QED  BY <4>8, <4>9, <4>10, <4>11 DEF PlayedInv
      <3>4. CASE ~(size > 0)
        <4>1. size = 0
          BY <3>4 DEF TypeOK, BufferType
        <4> QED  BY <3>1, <3>2, <4>1 DEF CleanPass
      <3> QED  BY <3>3, <3>4
    <2> QED  BY <2>1, <2>2, <2>3
  <1>14. ASSUME NEW c \in Client, Accept(c) \/ CommandWait(c) \/ CommandEof(c) \/ Spin(c) \/ SessionFail(c)
         PROVE  PlayedInv(p)'
    <2>1. UNCHANGED <<shared, buffer, header, hist>>
      BY <1>14 DEF Accept, CommandWait, CommandEof, Spin, SessionFail, vars
    <2>2. \/ pc'[p] = pc[p]
          \/ pc'[p] \in {"session", "spin", "done"}
      BY <1>1, <1>14 DEF Accept, CommandWait, CommandEof, Spin, SessionFail, vars
    <2> QED  BY <1>5, <2>1, <2>2 DEF shared, header, hist
  <1>15. ASSUME IdleThread \/ IdleBlock \/ AcceptWait PROVE PlayedInv(p)'
    <2>1. UNCHANGED <<pc, shared, buffer, header, handed, played>>
      BY <1>15 DEF IdleThread, IdleBlock, AcceptWait, vars, hist
    <2> QED  BY <1>5, <2>1 DEF shared, header
  <1> QED  BY <1>6, <1>7, <1>8, <1>9, <1>10, <1>11, <1>12, <1>13, <1>14, <1>15
           DEF Next, Publish, Play

-----------------------------------------------------------------------------
(* The theorems about a single publisher.                                   *)

\* The inductive invariant: with one publisher, what it has received and what
\* the passes over its messages have done.
MediaInv ==
    /\ IInv
    /\ \A p \in Publisher : Publisher = {p} =>
          /\ intact[p] => ReceiveInv(p) /\ PlayedInv(p)
          /\ PassInv(p)

LEMMA InitMediaInv ==
    ASSUME Init
    PROVE  MediaInv
  <1> SUFFICES ASSUME NEW p \in Publisher
               PROVE  ReceiveInv(p) /\ PlayedInv(p) /\ PassInv(p)
    BY InitIInv DEF MediaInv
  <1>1. p \in Client /\ pc[p] = "absent" /\ \A q \in Player : pc[q] = "absent"
    BY ClientFacts DEF Init
  <1>2. ReceiveInv(p)
    BY <1>1 DEF Init, ReceiveInv
  <1>3. PlayedInv(p)
    BY <1>1 DEF Init, PlayedInv
  <1>4. PassInv(p)
    BY <1>1 DEF Init, PassInv
  <1> QED  BY <1>2, <1>3, <1>4

LEMMA StepMediaInv ==
    ASSUME MediaInv, [Next]_vars
    PROVE  MediaInv'
  <1>1. IInv'
    BY StepIInv DEF MediaInv
  <1> SUFFICES ASSUME NEW p \in Publisher, Publisher = {p}
               PROVE  /\ intact'[p] => ReceiveInv(p)' /\ PlayedInv(p)'
                      /\ PassInv(p)'
    BY <1>1 DEF MediaInv
  <1>2. /\ TypeOK /\ InOnePlace /\ Registered /\ Sending /\ PassInv(p)
        /\ intact[p] => ReceiveInv(p) /\ PlayedInv(p)
    BY DEF MediaInv, IInv
  <1>3. CASE Next
    <2>1. PassInv(p)'
      BY <1>2, <1>3, PassStep
    <2>2. ASSUME intact'[p] PROVE ReceiveInv(p)' /\ PlayedInv(p)'
      <3>1. intact[p] /\ ReceiveInv(p)'
        BY <1>2, <1>3, <2>2, IntactStep, ReceiveStep
      <3> QED  BY <1>2, <1>3, <2>2, <3>1, PlayedStep
    <2> QED  BY <2>1, <2>2
  <1>4. CASE UNCHANGED vars
    <2>1. /\ UNCHANGED <<pc, shared, buffer, currCsid, csidHeader, push, pull, hist>>
      BY <1>4 DEF vars, header
    <2>2. PassInv(p)'
      BY <1>2, <2>1, PassFrame DEF push, pull, hist
    <2>3. ASSUME intact'[p] PROVE ReceiveInv(p)' /\ PlayedInv(p)'
      <3>1. ReceiveInv(p) /\ PlayedInv(p)
        BY <1>2, <2>1, <2>3 DEF hist
      <3>2. ReceiveInv(p)'
        <4>1. Waits(p)' => Waits(p)
          BY <1>4 DEF vars, sched, Waits
        <4> QED  BY <1>2, <2>1, <3>1, <4>1, ReceiveFrame DEF TypeOK
      <3>3. Header' = Header
        BY <2>1 DEF Header
      <3>4. PlayedInv(p)'
        BY <2>1, <3>1, <3>3 DEF PlayedInv, push, hist, shared, buffer
      <3> QED  BY <3>2, <3>4
    <2> QED  BY <2>2, <2>3
  <1> QED  BY <1>3, <1>4

LEMMA SpecMediaInv == Spec => []MediaInv
  <1> QED  BY InitMediaInv, StepMediaInv, PTL DEF Spec

\* A whole message: from its units to the lengths the properties speak of.
LEMMA MessageFacts ==
    ASSUME NEW p \in Publisher, NEW m \in 1..Len(Script[p])
    PROVE  /\ Script[p][m].len \in Nat /\ m \in Nat
           /\ DOMAIN Message(p, m) = 1..(HeaderLength + Script[p][m].len)
           /\ Len(Message(p, m)) = HeaderLength + Script[p][m].len
           /\ \A i \in 1..(HeaderLength + Script[p][m].len) : Message(p, m)[i] = Unit(p, m, i - 1)
  <1>1. Script[p][m].len \in Nat /\ m \in Nat
    BY ScriptType, RelayAssumption
  <1>2. HeaderLength + Script[p][m].len \in Nat
    BY <1>1 DEF HeaderLength
  <1>3. \E S : Message(p, m) \in Seq(S)
    <2> DEFINE k == HeaderLength + Script[p][m].len
               S == {Unit(p, m, i - 1) : i \in 1..k}
    <2>1. Message(p, m) \in [1..k -> S]
      BY DEF Message
    <2>2. Message(p, m) \in Seq(S)
      BY <1>2, <2>1, SeqDef
    <2> QED  BY <2>2
  <1> QED  BY <1>1, <1>2, <1>3 DEF Message

\* With one publisher and any number of players, what is handed off is exactly
\* one message and csid_header describes it, as long as no receive has failed
\* inside a message.
THEOREM HandoffIsWhole == Spec => []HandoffWhole
  <1>1. MediaInv => HandoffWhole
    <2> SUFFICES ASSUME MediaInv, NEW p \in Publisher, Publisher = {p}, pc[p] = "handoff",
                        intact[p], size > 0
                 PROVE  LET n == next[p][1] - 1 IN
                        /\ size = Len(Message(p, n))
                        /\ \A i \in 1..size : mem[i] = Message(p, n)[i]
                        /\ Header = [len |-> Script[p][n].len, hl |-> HeaderLength, msg |-> n]
      BY DEF HandoffWhole
    <2>1. PICK m \in 1..Len(Script[p]) :
              /\ next[p] = <<m + 1, 0>>
              /\ Holds(p, m, HeaderLength + Script[p][m].len)
              /\ Header = [len |-> Script[p][m].len, hl |-> HeaderLength, msg |-> m]
      BY DEF MediaInv, ReceiveInv
    <2>2. next[p][1] - 1 = m
      BY <2>1, MessageFacts
    <2>3. size = Len(Message(p, m)) /\ \A i \in 1..size : mem[i] = Message(p, m)[i]
      BY <2>1, MessageFacts DEF Holds
    <2> QED  BY <2>1, <2>2, <2>3
  <1> QED  BY <1>1, SpecMediaInv, PTL

\* With one publisher and any number of players, a clean pass puts exactly the
\* chunks of the handed-off message on the player's wire.
THEOREM CleanPassIsWhole == Spec => []CleanPassWhole
  <1>1. MediaInv => CleanPassWhole
    <2> SUFFICES ASSUME MediaInv, NEW q \in Player, NEW p \in Publisher, Publisher = {p},
                        pc[q] = "send", clean[q], ~MoreToSend(q), intact[p], size > 0
                 PROVE  sent[q] = Chunks(p, next[p][1] - 1)
      BY DEF CleanPassWhole
    <2>1. ReceiveInv(p) /\ CleanPass(p, q) /\ TypeOK
      BY DEF MediaInv, PassInv, IInv
    <2>2. PICK m \in 1..Len(Script[p]) :
              /\ next[p] = <<m + 1, 0>>
              /\ Holds(p, m, HeaderLength + Script[p][m].len)
              /\ Header = [len |-> Script[p][m].len, hl |-> HeaderLength, msg |-> m]
      BY <2>1 DEF ReceiveInv, CleanPass
    <2>3. next[p][1] - 1 = m /\ Script[p][m].len \in Nat
      BY <2>2, MessageFacts
    <2>4. sent[q] \in Seq(WireChunk) /\ total[q] \in Nat /\ total[q] = Len(sent[q])
      BY <2>1 DEF TypeOK, PullType, CleanPass
    <2>5. total[q] = Script[p][m].len
      <3>1. size = 2 + Script[p][m].len /\ Header.hl = 2 /\ Header.len = Script[p][m].len
        BY <2>2 DEF Holds, HeaderLength
      <3>2. total[q] <= Header.len
        BY <2>1 DEF CleanPass
      <3>3. ~(Header.hl + total[q] < size)
        BY DEF MoreToSend
      <3> QED  BY <2>3, <2>4, <3>1, <3>2, <3>3
    <2>6. DOMAIN Chunks(p, m) = 1..total[q] /\ DOMAIN sent[q] = 1..total[q]
      <3>1. DOMAIN Chunks(p, m) = 1..Script[p][m].len
        BY DEF Chunks
      <3>2. DOMAIN sent[q] = 1..Len(sent[q])
        BY <2>4
      <3>3. Len(sent[q]) = Script[p][m].len
        BY <2>4, <2>5
      <3> QED  BY <2>5, <3>1, <3>2, <3>3, Zenon
    <2>7. \A i \in 1..total[q] : sent[q][i] = Chunks(p, m)[i]
      BY <2>1, <2>3 DEF CleanPass
    <2>8. sent[q] = [i \in 1..total[q] |-> sent[q][i]]
      BY <2>4, <2>6
    <2>9. Chunks(p, m) = [i \in 1..total[q] |-> Chunks(p, m)[i]]
      BY <2>5, <2>6 DEF Chunks
    <2> QED  BY <2>3, <2>7, <2>8, <2>9
  <1> QED  BY <1>1, SpecMediaInv, PTL

\* With one publisher and any number of players, the clean passes play the
\* messages in order and none of them twice.
THEOREM PlayedOnce == Spec => []PlayedOnceInOrder
  <1>1. MediaInv => PlayedOnceInOrder
    BY DEF MediaInv, PlayedInv, PlayedOnceInOrder
  <1> QED  BY <1>1, SpecMediaInv, PTL
=============================================================================
