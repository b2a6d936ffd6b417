------------------------------ MODULE Dialogue ------------------------------
(***************************************************************************)
(* The conversation of process_thread with its peer before media flows:    *)
(* the handshake, connect and its replies, IdentifyClient, and the command *)
(* sequences of a publisher and of a player.  Each client has its own      *)
(* thread; the threads share csid_header and set_data_frame.  The peers    *)
(* are those the README names: ffmpeg pushing, VLC (libavformat) pulling;  *)
(* each answers what it has read, in order.                                *)
(*                                                                         *)
(* Messages travel whole.  A message the reader cannot take as the writer  *)
(* cut it leaves the reader out of step with the stream; nothing is said   *)
(* about what the reader makes of the bytes from there on.                 *)
(***************************************************************************)
EXTENDS Amf0Sizes, FiniteSets

CONSTANTS
    Publisher,    \* clients that push
    Player,       \* clients that pull
    Announcer,    \* the publishers that announce a chunk size of their own first
    NameLens,     \* lengths of stream names
    MetaObject,   \* the entries of the publishers' @setDataFrame
    MayFail,      \* reads may time out and writes may fail
    MaySpin,      \* peers may close their connections, threads may keep the processor
    MaxFailures   \* bound: faults of a client in a behaviour

Client == Publisher \cup Player

ASSUME DialogueAssumption ==
    /\ Publisher \cap Player = {} /\ IsFiniteSet(Client) /\ Announcer \subseteq Publisher
    /\ NameLens \subseteq Nat /\ {MayFail, MaySpin} \subseteq BOOLEAN /\ MaxFailures \in Nat

FirstChunkSize == 128
ChunkSizeSet == 4096

\* What the thread does, in order.  The operations are read and write of the
\* handshake, recv_message, write_message, read_header_get_payloadLength, the
\* read of 4 bytes in the pull branch and the wait for set_data_frame.
Opening ==
    << <<"read", "c0c1">>, <<"write", "s0s1s2">>, <<"read", "c2">>,
       <<"recv", "connect">>, <<"send", "windowSize">>, <<"send", "peerBandwidth">>,
       <<"send", "connectResult">>, <<"send", "onBWDone">>, <<"identify", "">> >>

\* Faulty variant: publish is awaited before createStream is answered.
PushWaitsEarly ==
    << <<"recv", "releaseStream">>, <<"send", "releaseResult">>, <<"send", "setChunkSize">>,
       <<"recv", "FCPublish">>, <<"send", "fcResult">>, <<"recv", "createStream">>,
       <<"recv", "_checkbw">>, <<"recv", "unknown">>, <<"recv", "publish">>,
       <<"send", "createResult">>,
       <<"send", "onFCPublish">>, <<"send", "onStatus">>, <<"recv", "@setDataFrame">> >>

Push ==
    << <<"recv", "releaseStream">>, <<"send", "releaseResult">>, <<"send", "setChunkSize">>,
       <<"recv", "FCPublish">>, <<"send", "fcResult">>,
       <<"recv", "createStream">>, <<"send", "createResult">>,
       <<"recv", "_checkbw">>, <<"recv", "unknown">>, <<"recv", "publish">>,
       <<"send", "onFCPublish">>, <<"send", "onStatus">>, <<"recv", "@setDataFrame">> >>

Pull ==
    << <<"skip", "windowAck">>, <<"recv", "createStream">>, <<"send", "createResult">>,
       <<"recv", "_checkbw">>, <<"recv", "getStreamLength">>, <<"recv", "play">>,
       <<"recv", "unknown">>, <<"send", "setChunkSize">>, <<"send", "streamBegin">>,
       <<"send", "playReset">>, <<"send", "playStart">>, <<"send", "sampleAccess">>,
       <<"send", "dataStart">>, <<"await", "">>, <<"send", "onMetaData">> >>

VARIABLES
    at,         \* at[c]: the step c's thread is at; 0 when it has returned
    branch,     \* branch[c]: "push" or "pull", as IdentifyClient found
    chunkSize,  \* client->chunk_size
    frame,      \* the global set_data_frame, by the lengths of its entries
    csidLen,    \* csid_header[csid].message_length
    outOfStep,  \* outOfStep[c]: the thread is not at a message boundary
    toServer,   \* toServer[c], toPeer[c]: messages under way
    toPeer,
    name,       \* length of the stream name the peer uses
    peerIn,     \* chunk sizes the peer uses for reading and for writing
    peerOut,
    closed,     \* closed[c]: c's peer has closed its connection
    spinning,   \* the client whose thread loops without giving up the processor
    lastLen,    \* lastLen[c]: the last message length the peer sent, per csid
    garbled,    \* garbled[c]: the kinds the peer could not take off the stream
    failures,   \* failures[c]: reads and writes of c's thread that failed, closes of its peer
    mismatch    \* mismatch[c]: a handler got a message that is not its own

server == <<at, branch, chunkSize, outOfStep, spinning>>
globals == <<frame, csidLen>>
peers == <<name, peerIn, peerOut, lastLen, closed>>
history == <<garbled, failures, mismatch>>
vars == <<server, globals, toServer, toPeer, peers, history>>

Csid == {2, 3, 4, 8}

\* Writer and reader of a message of len bytes cut it at the same places.
SameCut(len, a, b) == a = b \/ (len <= a /\ len <= b)

Init ==
    /\ at = [c \in Client |-> 1] /\ branch = [c \in Client |-> "push"]
    /\ chunkSize = [c \in Client |-> FirstChunkSize]
    /\ frame = <<>> /\ csidLen = [i \in Csid |-> -1]
    /\ outOfStep = [c \in Client |-> FALSE]
    /\ toServer = [c \in Client |-> << [kind |-> "c0c1"] >>]
    /\ toPeer = [c \in Client |-> <<>>]
    /\ name \in [Client -> NameLens]
    /\ peerIn = [c \in Client |-> FirstChunkSize]
    /\ peerOut = [c \in Client |-> FirstChunkSize]
    /\ lastLen = [c \in Client |-> [i \in Csid |-> -1]]
    /\ closed = [c \in Client |-> FALSE] /\ spinning = {}
    /\ garbled = [c \in Client |-> {}] /\ failures = [c \in Client |-> 0]
    /\ mismatch = [c \in Client |-> FALSE]

Program(c) == Opening \o (IF branch[c] = "pull" THEN Pull ELSE Push)
Running(c) == at[c] \in 1..Len(Program(c))
Step(c) == Program(c)[at[c]]
Done(c) == at[c] = Len(Program(c)) + 1

\* Up to IdentifyClient, and at the read of 4 bytes, a failure ends the thread;
\* afterwards return codes are ignored.
Strict(c) == at[c] <= Len(Opening) \/ Step(c)[1] = "skip"

-----------------------------------------------------------------------------
(* The peer. *)

PeerCsid(kind) ==
    CASE kind \in {"windowAck", "ownChunkSize", "chunkSizeEcho", "bufferLength"} -> 2
      [] kind \in {"publish", "play"} -> 8
      [] kind = "@setDataFrame" -> 4
      [] OTHER -> 3

PeerLen(kind, n) ==
    CASE kind = "connect"         -> 180 + n
      [] kind = "releaseStream"   -> Str(13) + Num + Null + Str(n)
      [] kind = "FCPublish"       -> Str(9) + Num + Null + Str(n)
      [] kind = "createStream"    -> Str(12) + Num + Null
      [] kind = "_checkbw"        -> Str(8) + Num + Null
      [] kind = "publish"         -> Str(7) + Num + Null + Str(n) + Str(4)
      [] kind = "getStreamLength" -> Str(15) + Num + Null + Str(n)
      [] kind = "play"            -> Str(4) + Num + Null + Str(n) + Num
      [] kind = "@setDataFrame"   -> Str(13) + Str(10) + Count + Entries(MetaObject) + 3
      [] kind = "bufferLength"    -> 10
      [] OTHER                    -> 4

\* What the peer sends when it has read a message.
Answer(c, kind) ==
    CASE kind = "s0s1s2"        -> <<"c2", "connect">>
      [] kind = "connectResult" -> IF c \in Publisher
                                   THEN (IF c \in Announcer THEN <<"ownChunkSize">> ELSE <<>>)
                                        \o <<"releaseStream", "FCPublish", "createStream">>
                                   ELSE <<"windowAck", "createStream">>
      [] kind = "onBWDone"      -> <<"_checkbw">>
      [] kind = "setChunkSize"  -> IF c \in Publisher THEN <<"chunkSizeEcho">> ELSE <<>>
      [] kind = "createResult"  -> IF c \in Publisher THEN <<"publish">>
                                   ELSE <<"getStreamLength", "play", "bufferLength">>
      [] kind = "onStatus"      -> <<"@setDataFrame">>
      [] OTHER                  -> <<>>

\* The messages as sent: with a full header, with one that carries the length, or
\* with a fmt 3 header when length and chunk stream are those of the last one.
Sent(c, kinds) ==
    [i \in DOMAIN kinds |->
        LET id  == PeerCsid(kinds[i])
            len == PeerLen(kinds[i], name[c])
            earlier == {j \in 1..(i - 1) : PeerCsid(kinds[j]) = id}
            last == IF earlier = {} THEN lastLen[c][id]
                    ELSE PeerLen(kinds[CHOOSE j \in earlier : \A k \in earlier : k <= j], name[c])
        IN IF kinds[i] = "c2" THEN [kind |-> "c2"]
           ELSE [kind |-> kinds[i], csid |-> id, len |-> len,
                 chunk |-> IF i > 1 /\ kinds[1] = "ownChunkSize" THEN ChunkSizeSet ELSE peerOut[c],
                 fmt |-> IF last = len THEN 3 ELSE IF last = -1 THEN 0 ELSE 1]]

\* The peer takes a message off its stream, if it is as long as its header
\* says and cut as the peer expects, and answers it.
PeerRead(c) ==
    /\ toPeer[c] # <<>> /\ garbled[c] = {}
    /\ LET m == Head(toPeer[c])
           answer == Answer(c, m.kind)
       IN IF m.declared = m.actual /\ SameCut(m.actual, m.chunk, peerIn[c])
          THEN /\ toServer' = [toServer EXCEPT ![c] = @ \o Sent(c, answer)]
               /\ lastLen' = [lastLen EXCEPT ![c] =
                     [id \in Csid |->
                         LET of == {i \in DOMAIN answer : answer[i] # "c2" /\ PeerCsid(answer[i]) = id}
                         IN IF of = {} THEN lastLen[c][id]
                            ELSE PeerLen(answer[CHOOSE i \in of : \A j \in of : j <= i], name[c])]]
               /\ peerIn' = [peerIn EXCEPT ![c] = IF m.kind = "setChunkSize" THEN ChunkSizeSet ELSE @]
               /\ peerOut' = [peerOut EXCEPT ![c] =
                     IF \/ m.kind = "setChunkSize" /\ c \in Publisher
                        \/ \E i \in DOMAIN answer : answer[i] = "ownChunkSize"
                     THEN ChunkSizeSet ELSE @]
               /\ UNCHANGED garbled
          ELSE /\ garbled' = [garbled EXCEPT ![c] = {m.kind}]
               /\ UNCHANGED <<toServer, lastLen, peerIn, peerOut>>
    /\ toPeer' = [toPeer EXCEPT ![c] = Tail(@)]
    /\ UNCHANGED <<server, globals, name, closed, failures, mismatch>>

\* The peer closes its connection: what it has sent still arrives, what is under
\* way to it is lost.
PeerCloses(c) ==
    /\ MaySpin /\ ~closed[c] /\ failures[c] < MaxFailures
    /\ closed' = [closed EXCEPT ![c] = TRUE]
    /\ failures' = [failures EXCEPT ![c] = @ + 1]
    /\ toPeer' = [toPeer EXCEPT ![c] = <<>>]
    /\ UNCHANGED <<server, globals, toServer, name, peerIn, peerOut, lastLen, garbled, mismatch>>

-----------------------------------------------------------------------------
(* The thread of a client. *)

Advance(c) == at' = [at EXCEPT ![c] = @ + 1]

\* The bytes of a write get under way; a peer that has closed does not read them.
Deliver(c, message) ==
    toPeer' = [toPeer EXCEPT ![c] = IF closed[c] THEN @ ELSE Append(@, message)]

\* s0s1s2 of the handshake, which is not cut into chunks.
Write(c) ==
    /\ Running(c) /\ Step(c)[1] = "write"
    /\ Deliver(c, [kind |-> Step(c)[2], declared |-> 3073, actual |-> 3073, chunk |-> peerIn[c]])
    /\ Advance(c)
    /\ UNCHANGED <<spinning, branch, chunkSize, outOfStep, globals, toServer, peers, history>>

NewChunkSize(kind, old) == IF kind = "setChunkSize" THEN ChunkSizeSet ELSE old

\* write_message, and the assignment to client->chunk_size behind it.
\* OnMetaData::write_payload first adds an entry to set_data_frame.
Send(c) ==
    /\ Running(c) /\ Step(c)[1] = "send"
    /\ LET kind == Step(c)[2]
       IN /\ frame' = IF kind = "onMetaData" THEN WithServer(frame) ELSE frame
          /\ Deliver(c, [kind |-> kind, declared |-> Declared(kind),
                         actual |-> Actual(kind, frame'), chunk |-> chunkSize[c]])
          /\ chunkSize' = [chunkSize EXCEPT ![c] = NewChunkSize(kind, @)]
    /\ Advance(c)
    /\ UNCHANGED <<spinning, branch, outOfStep, csidLen, toServer, peers, history>>

\* A write fails: the thread returns, or goes on as if it had been done.
SendFail(c) ==
    /\ MayFail /\ failures[c] < MaxFailures
    /\ Running(c) /\ Step(c)[1] \in {"write", "send"}
    /\ failures' = [failures EXCEPT ![c] = @ + 1]
    /\ at' = [at EXCEPT ![c] = IF Strict(c) THEN 0 ELSE @ + 1]
    /\ LET kind == Step(c)[2]
       IN /\ frame' = IF kind = "onMetaData" THEN WithServer(frame) ELSE frame
          /\ chunkSize' = [chunkSize EXCEPT ![c] = NewChunkSize(kind, @)]
    /\ UNCHANGED <<spinning, branch, outOfStep, csidLen, toServer, toPeer, peers, garbled, mismatch>>

Reads == {"read", "recv", "skip", "identify"}

\* The peer has closed in the handshake: read_nbytes fails for want of bytes.
HandshakeEnds(c) ==
    /\ closed[c] /\ toServer[c] = <<>>
    /\ Running(c) /\ Step(c)[1] = "read"
    /\ at' = [at EXCEPT ![c] = 0]
    /\ UNCHANGED <<branch, chunkSize, outOfStep, spinning, globals, toServer, toPeer, peers, history>>

\* The peer has closed and the bytes a later read of the dialogue or of the push loop
\* asks for will not come: read_nbytes_cycle gets 0 bytes at once, for ever, and no
\* other thread runs.
ReadsNothing(c) ==
    /\ closed[c]
    /\ \/ Running(c) /\ Step(c)[1] \in Reads \ {"read"} /\ (toServer[c] = <<>> \/ outOfStep[c])
       \/ Done(c) /\ branch[c] = "push"
    /\ spinning' = {c}
    /\ UNCHANGED <<at, branch, chunkSize, outOfStep, globals, toServer, toPeer, peers, history>>

\* A player's loop writes headers without payload (Relay's WriteNothing): it does
\* not give up the processor either while its peer takes them.
PlaysNothing(c) ==
    /\ MaySpin
    /\ Done(c) /\ branch[c] = "pull"
    /\ spinning' = {c}
    /\ UNCHANGED <<at, branch, chunkSize, outOfStep, globals, toServer, toPeer, peers, history>>

\* read_nbytes(1537) and read_nbytes(3073) of the handshake.
Read(c) ==
    /\ Running(c) /\ Step(c)[1] = "read" /\ toServer[c] # <<>>
    /\ toServer' = [toServer EXCEPT ![c] = Tail(@)]
    /\ Advance(c)
    /\ UNCHANGED <<spinning, branch, chunkSize, outOfStep, globals, toPeer, peers, history>>

\* read_message_header: a header of type 0 or 1 records the length.
HeaderRead(m) ==
    csidLen' = IF m.fmt <= 1 THEN [csidLen EXCEPT ![m.csid] = m.len] ELSE csidLen

\* ConnectMessage::read_payload reads chunk by chunk, with the server's chunk size
\* and one byte between the chunks.
ChunkedRead(c, m, want) == want = m.len /\ SameCut(m.len, m.chunk, chunkSize[c])

\* The other read_payload functions read the length in one go.
PlainRead(m, want) == want = m.len /\ m.len <= m.chunk

\* Faulty variant: connect is read in one go, too.
TakesWholeUnchunked(c, kind, m, want) == PlainRead(m, want)

\* Does the handler's read_payload take exactly the message off the stream?
TakesWhole(c, kind, m, want) ==
    IF kind = "connect" THEN ChunkedRead(c, m, want) ELSE PlainRead(m, want)

\* set_data_frame after a read_payload: SetDataFrame adds the entries of a message
\* of its own kind, and fails on any other before it adds one.
FrameRead(kind, m, whole) ==
    IF kind = "@setDataFrame" /\ m.kind = kind /\ whole THEN frame \o MetaObject ELSE frame

\* recv_message and the read_payload of the step's message type.  The length comes
\* from csid_header, whose entry is shared by all clients.
Recv(c) ==
    /\ Running(c) /\ Step(c)[1] = "recv" /\ ~outOfStep[c] /\ toServer[c] # <<>>
    /\ LET m == Head(toServer[c])
           kind == Step(c)[2]
           own == m.kind = kind \/ kind = "unknown"
       IN /\ HeaderRead(m)
          /\ outOfStep' = [outOfStep EXCEPT ![c] = ~TakesWhole(c, kind, m, csidLen'[m.csid])]
          /\ mismatch' = [mismatch EXCEPT ![c] = @ \/ ~own]
          /\ frame' = FrameRead(kind, m, ~outOfStep'[c])
    /\ toServer' = [toServer EXCEPT ![c] = Tail(@)]
    /\ Advance(c)
    /\ UNCHANGED <<spinning, branch, chunkSize, toPeer, peers, garbled, failures>>

\* A read times out before the message is there, or in the middle of it, which
\* loses the bytes read.
RecvTimeout(c) ==
    /\ MayFail /\ failures[c] < MaxFailures
    /\ Running(c) /\ Step(c)[1] \in Reads /\ ~outOfStep[c]
    /\ failures' = [failures EXCEPT ![c] = @ + 1]
    /\ at' = [at EXCEPT ![c] = IF Strict(c) THEN 0 ELSE @ + 1]
    /\ \/ /\ toServer[c] = <<>>
          /\ UNCHANGED <<toServer, outOfStep>>
       \/ /\ toServer[c] # <<>>
          /\ toServer' = [toServer EXCEPT ![c] = Tail(@)]
          /\ outOfStep' = [outOfStep EXCEPT ![c] = TRUE]
    /\ UNCHANGED <<spinning, branch, chunkSize, globals, toPeer, peers, garbled, mismatch>>

\* read_header_get_payloadLength: 4 means pull.  For push the header goes back
\* into IO_Buffer, for pull the four bytes are still to be read: either way the
\* message is not done with.
Identify(c) ==
    /\ Running(c) /\ Step(c)[1] = "identify" /\ toServer[c] # <<>>
    /\ LET m == Head(toServer[c])
       IN /\ HeaderRead(m)
          /\ branch' = [branch EXCEPT ![c] = IF csidLen'[m.csid] = 4 THEN "pull" ELSE "push"]
    /\ Advance(c)
    /\ UNCHANGED <<spinning, chunkSize, outOfStep, frame, toServer, toPeer, peers, history>>

\* read_nbytes_cycle(4) in the pull branch.
Skip(c) ==
    /\ Running(c) /\ Step(c)[1] = "skip" /\ toServer[c] # <<>>
    /\ toServer' = [toServer EXCEPT ![c] = Tail(@)]
    /\ Advance(c)
    /\ UNCHANGED <<spinning, branch, chunkSize, outOfStep, globals, toPeer, peers, history>>

\* while (set_data_frame.empty()) st_usleep(0) ends.
Await(c) ==
    /\ Running(c) /\ Step(c)[1] = "await" /\ frame # <<>>
    /\ Advance(c)
    /\ UNCHANGED <<spinning, branch, chunkSize, outOfStep, globals, toServer, toPeer, peers, history>>

Thread(c) ==
    \/ Write(c) \/ Send(c) \/ Read(c) \/ Recv(c) \/ Identify(c) \/ Skip(c) \/ Await(c)
    \/ HandshakeEnds(c)

Faults(c) == SendFail(c) \/ RecvTimeout(c) \/ ReadsNothing(c) \/ PlaysNothing(c)

\* A behaviour is followed until a thread spins: no thread is scheduled after that.
Next ==
    /\ spinning = {}
    /\ \E c \in Client : Thread(c) \/ Faults(c) \/ PeerRead(c) \/ PeerCloses(c)

Spec == Init /\ [][Next]_vars

\* While no thread spins each one runs until it has to wait, and those that can go on
\* take turns in the run queue; once one spins no thread is scheduled.  Every peer
\* that is there answers.
FairSpec ==
    Spec /\ \A c \in Client : /\ WF_vars(spinning = {} /\ Thread(c))
                              /\ WF_vars(spinning = {} /\ PeerRead(c))

-----------------------------------------------------------------------------
\* Type invariant.
TypeOK ==
    /\ \A c \in Client : at[c] \in 0..(Len(Program(c)) + 1)
    /\ branch \in [Client -> {"push", "pull"}]
    /\ chunkSize \in [Client -> {FirstChunkSize, ChunkSizeSet}]
    /\ \A id \in Csid : csidLen[id] \in Nat \cup {-1}
    /\ outOfStep \in [Client -> BOOLEAN] /\ mismatch \in [Client -> BOOLEAN]
    /\ peerIn \in [Client -> {FirstChunkSize, ChunkSizeSet}]
    /\ peerOut \in [Client -> {FirstChunkSize, ChunkSizeSet}]

\* Stream names with which every command of the peer fits in one chunk of 128
\* bytes, and no two commands in a row have the same length.
ShortName(n) == Str(15) + Num + Null + Str(n) <= FirstChunkSize
Distinct(n) == PeerLen("FCPublish", n) # PeerLen("createStream", n)

\* Every command reaches the handler written for it and is taken whole off the
\* stream, although the handlers are called in a fixed order and the peer's
\* answers depend on the timing of five exchanges: no thread gets out of step
\* unless one of its own reads or writes failed, the stream name is too long for
\* one chunk, or a header without length was decoded with the length of another
\* client's message.  Publishers and players are told apart, except that a
\* publisher that announces its chunk size first is taken for a player; it does
\* not draw the others' threads out of step with it.
InStep ==
    \A c \in Client : failures[c] = 0 =>
        /\ c \notin Announcer /\ ShortName(name[c]) =>
              /\ ~mismatch[c]
              /\ outOfStep[c] => ~Distinct(name[c]) /\ Cardinality(Client) > 1
        /\ at[c] > Len(Opening) => (branch[c] = "push" <=> c \in Publisher \ Announcer)

\* The peer takes every message of the server off its stream, the chunk size it
\* reads with being the one the message was cut with, as long as no read or write
\* of its thread failed; except onMetaData, unless there is one publisher and
\* one player and the metadata are those the length 395 was counted for.
Understood ==
    \A c \in Client : failures[c] = 0 =>
        /\ garbled[c] \subseteq {"onMetaData"}
        /\ /\ Cardinality(Publisher) = 1 /\ Cardinality(Player) = 1
           /\ OnMetaData(WithServer(MetaObject)) = Declared("onMetaData")
           => garbled[c] = {}

\* The check that is commented out in write_message: message_length is the length
\* of the payload written.
LengthsDeclared ==
    \A c \in Client : \A i \in DOMAIN toPeer[c] : toPeer[c][i].declared = toPeer[c][i].actual

\* The clients that are of no concern: their peers have closed, or one of their own
\* reads and writes has failed.
Gone(c) == failures[c] > 0

\* Every publisher gets to the media loop.
PublishersArrive == \A c \in Publisher : <>(Done(c) \/ Gone(c))

\* And every player gets to the play loop once a publisher has described its stream.
PlayersArrive == (frame # <<>>) ~> (\A c \in Player : Done(c) \/ Gone(c))

\* As long as no thread spins, every client whose peer stays and whose own reads and
\* writes do not fail gets to its loop, the push or the play loop: the fixed order of
\* the handlers waits for no answer to a message that is not sent, and nobody waits
\* for another client whose peer closed or whose thread failed.  What stops the
\* others is the thread that reads from a closed peer, and the player that writes
\* nothing.
ClientsArrive == (PublishersArrive /\ PlayersArrive) \/ <>(spinning # {})
=============================================================================
