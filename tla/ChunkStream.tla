---------------------------- MODULE ChunkStream ----------------------------
(***************************************************************************)
(* The chunk loops, byte by byte, for one message: recv_audio_video_payload*)
(* (and ConnectMessage::read_payload, which has the same loop) takes a     *)
(* payload out of the chunks the peer cut it into, the send loop of a      *)
(* player cuts it again behind a header of 12 or 16 bytes, and             *)
(* write_message does so for the server's own commands.  Relay counts      *)
(* whole chunks; this module shows when a chunk of the peer is a chunk of  *)
(* the server.                                                             *)
(*                                                                         *)
(* The stream is read from behind the header of the first chunk.  A byte   *)
(* is its index in the payload, or one of the three marks below.           *)
(***************************************************************************)
EXTENDS Integers, Sequences, SequencesExt

CONSTANTS
    ChunkSize,   \* client->chunk_size
    PeerChunks,  \* chunk sizes a publisher may use
    MaxLen       \* bound: message_length

ChunkAssumption ==
    /\ ChunkSize \in Nat \ {0} /\ MaxLen \in Nat
    /\ PeerChunks \subseteq Nat \ {0}

Mark == 0        \* a byte of a fmt 3 basic header
Beyond == -1     \* a byte of the message that follows
Garbage == -2    \* what is behind the end of the buffer

\* One transfer.  path: "relay" for a received message a player sends on,
\* "command" for write_message; width: bytes of the peer's fmt 3 header (2 or 3
\* for a csid above 63); long: timestamp >= 0xFFFFFF; follows: bytes of the next
\* message that are in the socket already.
Transfer ==
    [path : {"relay", "command"}, len : 1..MaxLen, peer : PeerChunks,
     width : 1..3, long : BOOLEAN, follows : {0, ChunkSize + MaxLen}]

VARIABLES
    msg,      \* the transfer
    pos,      \* bytes taken from the socket
    buf,      \* the payload part of audio_video_buffer or io_buffer
    nread,    \* the local nread of the receive loop
    pc,       \* "receive", "send" or "done"
    starved,  \* history: the read of a chunk timed out
    total,    \* totol_payload_send
    out       \* the chunks written: [first, head, bytes]

vars == <<msg, pos, buf, nread, pc, starved, total, out>>

Payload == [i \in 1..msg.len |-> i]

-----------------------------------------------------------------------------
(* The peer's side of the connection. *)

\* Length of the payload with its fmt 3 headers.
WireLen == msg.len + msg.width * ((msg.len - 1) \div msg.peer)

\* The j-th byte behind the first header: peer payload bytes, then groups of a
\* fmt 3 header and up to peer payload bytes.
WireByte(j) ==
    LET group  == msg.width + msg.peer
        q      == (j - msg.peer - 1) \div group
        r      == (j - msg.peer - 1) % group
    IN IF j > WireLen THEN Beyond
       ELSE IF j <= msg.peer THEN j
       ELSE IF r < msg.width THEN Mark
       ELSE msg.peer * (q + 1) + r - msg.width + 1

Available == WireLen + msg.follows

-----------------------------------------------------------------------------
Init ==
    /\ msg \in {m \in Transfer : m.path = "command" =>
                    m.peer = ChunkSize /\ m.width = 1 /\ ~m.long /\ m.follows = 0}
    /\ pos = 0 /\ nread = 0 /\ starved = FALSE /\ total = 0 /\ out = <<>>
    /\ IF msg.path = "command"
       THEN pc = "send" /\ buf = Payload
       ELSE pc = "receive" /\ buf = <<>>

Least(a, b) == IF a < b THEN a ELSE b

\* Faulty variant: no room for the fmt 3 header.
TurnBytesBare == Least(msg.len - nread, ChunkSize)

\* Bytes one turn of the loop asks for: a chunk, and from the second turn on
\* one byte more for its header.
TurnBytes == Least(msg.len - nread, ChunkSize) + (IF nread > 0 THEN 1 ELSE 0)

\* One turn: the bytes are appended and, from the second turn on, the byte
\* `temp` places before the last one is erased.
ReceiveTurn ==
    /\ pc = "receive" /\ nread < msg.len
    /\ pos + TurnBytes <= Available
    /\ pos' = pos + TurnBytes
    /\ LET read == buf \o [i \in 1..TurnBytes |-> WireByte(pos + i)]
           temp == TurnBytes - 1
       IN IF nread > 0
          THEN buf' = RemoveAt(read, Len(read) - temp) /\ nread' = nread + temp
          ELSE buf' = read /\ nread' = nread + TurnBytes
    /\ UNCHANGED <<msg, pc, starved, total, out>>

\* The bytes do not come: the read takes what there is, times out and drops
\* it, and the result -1 of recv_audio_video is ignored by the caller.
ReceiveStarved ==
    /\ pc = "receive" /\ nread < msg.len
    /\ pos + TurnBytes > Available
    /\ pos' = Available /\ starved' = TRUE /\ pc' = "send"
    /\ UNCHANGED <<msg, buf, nread, total, out>>

\* Faulty variant: the loop runs on at nread = message_length.
ReceiveDoneStrict ==
    /\ pc = "receive" /\ nread > msg.len
    /\ pc' = "send"
    /\ UNCHANGED <<msg, pos, buf, nread, starved, total, out>>

ReceiveDone ==
    /\ pc = "receive" /\ nread >= msg.len
    /\ pc' = "send"
    /\ UNCHANGED <<msg, pos, buf, nread, starved, total, out>>

-----------------------------------------------------------------------------
\* Length of the header in front of the next chunk.
HeadSize == IF total > 0 THEN 1 ELSE IF msg.long THEN 16 ELSE 12

\* What the loop takes nwrite to contain besides payload.
HeadCredit == IF total > 0 THEN 1 ELSE 12

ByteAt(i) == IF i <= Len(buf) THEN buf[i] ELSE Garbage

\* One writev of header and chunk.
SendChunk ==
    /\ pc = "send" /\ total < Len(buf)
    /\ LET n == Least(msg.len - total, ChunkSize)
       IN /\ out' = Append(out, [first |-> total = 0, head |-> HeadSize,
                                 bytes |-> [i \in 1..n |-> ByteAt(total + i)]])
          /\ total' = total + HeadSize + n - HeadCredit
    /\ UNCHANGED <<msg, pos, buf, nread, pc, starved>>

SendDone ==
    /\ pc = "send" /\ total >= Len(buf)
    /\ pc' = "done"
    /\ UNCHANGED <<msg, pos, buf, nread, starved, total, out>>

Next ==
    \/ ReceiveTurn \/ ReceiveStarved \/ ReceiveDone
    \/ SendChunk \/ SendDone

Spec == Init /\ [][Next]_vars

\* The loops run on while they can; the timer of a starved read fires.
FairSpec == Spec /\ WF_vars(Next)

-----------------------------------------------------------------------------
\* Type invariant; in addition the receive loop never holds more than the
\* message and the send loop never starts a chunk behind the buffer's end.
TypeOK ==
    /\ msg \in Transfer /\ pos \in Nat /\ total \in Nat
    /\ pos <= Available /\ Len(buf) <= msg.len
    /\ nread \in 0..msg.len /\ (msg.path = "relay" => nread = Len(buf))
    /\ pc \in {"receive", "send", "done"} /\ starved \in BOOLEAN
    /\ \A i \in DOMAIN out : out[i].first = (i = 1)

Whole == buf = Payload /\ pos = WireLen

\* Peer and server cut this message at the same places.
SameChunks ==
    \/ msg.len <= Least(msg.peer, ChunkSize)
    \/ msg.peer = ChunkSize /\ msg.width = 1

\* recv_audio_video_payload: the payload arrives unchanged and the socket is
\* left at the next message exactly when the message is one chunk for both
\* sides or both use the same chunk size and a one-byte fmt 3 header.
ReceivedWhole ==
    msg.path = "relay" /\ pc # "receive" => (Whole <=> SameChunks)

\* The bytes of the chunks, and where they are cut.
Cut(s) ==
    [k \in 1..((Len(s) + ChunkSize - 1) \div ChunkSize) |->
        SubSeq(s, (k - 1) * ChunkSize + 1, Least(k * ChunkSize, Len(s)))]

\* The send loops: a payload of the declared length goes out complete, in order
\* and cut at the chunk size, exactly when the first header is 12 bytes long
\* or the payload fits behind it: nwrite - 12 counts four bytes of a longer
\* header as payload and the next chunk starts four bytes too far.
SentWhole ==
    pc = "done" /\ Len(buf) = msg.len =>
        (([i \in DOMAIN out |-> out[i].bytes] = Cut(buf)) <=> (~msg.long \/ msg.len <= ChunkSize))

\* A message of which all bytes were received is sent without reading past the
\* end of the buffer, whatever its header length.
NoOverread ==
    ~starved => \A i \in DOMAIN out : \A j \in DOMAIN out[i].bytes : out[i].bytes[j] # Garbage

\* Both loops end.
Ends == <>(pc = "done")

\* The receive loop puts together the payload its peer sent, under the conditions
\* ReceivedWhole states, and the send loops cut it so that it arrives once and in
\* order; neither touches bytes that are not the message's.
ChunksWhole == TypeOK /\ ReceivedWhole /\ SentWhole /\ NoOverread
=============================================================================
