------------------------------- MODULE ChunkDemux -------------------------------
(***************************************************************************)
(* Media messages of several chunk streams over one connection:            *)
(* recv_audio_video (io_message.cpp) reads a basic header, a message       *)
(* header that may leave fields out, and then turn by turn the payload of  *)
(* the length csid_header has for the chunk stream.  The publisher is free *)
(* to leave out what has not changed, and to send chunks of another stream *)
(* in the middle of a message.                                             *)
(*                                                                         *)
(* The wire is a sequence of basic headers, message headers and payload    *)
(* bytes; a message header is one element, whatever its size.              *)
(***************************************************************************)
EXTENDS Integers, Sequences, SequencesExt

CONSTANTS
    Csid,        \* the chunk streams of the publisher
    ChunkSize,   \* client->chunk_size, the publisher's too
    MaxLen,      \* bound: the length of a message
    MaxMessages  \* bound: messages of the publisher

DemuxAssumption ==
    ChunkSize \in Nat \ {0} /\ MaxLen \in Nat \ {0} /\ MaxMessages \in Nat

VARIABLES
    sent,        \* the messages the publisher has begun: [csid, len]
    left,        \* per chunk stream, the payload bytes not yet on the wire
    current,     \* per chunk stream, the number of its last message
    wire,        \* what the server has not read yet
    interleaved, \* history: a chunk came in the middle of another stream's message
    csid_header, \* csid_header[csid].message_length, -1 before the first header
    csid,        \* the chunk stream of the message the server reads
    payload,     \* the payload part of audio_video_buffer
    pc,          \* "header", "payload", or "lost" when a header is none
    got          \* the messages handed on: [csid, payload]

vars == <<sent, left, current, wire, interleaved, csid_header, csid, payload, pc, got>>
publisher == <<sent, left, current, interleaved>>
server == <<csid_header, csid, payload, pc, got>>

Least(a, b) == IF a < b THEN a ELSE b

Basic(f, c) == [k |-> "basic", fmt |-> f, csid |-> c]
Message(n) == [k |-> "message", len |-> n]
Data(m, i) == [k |-> "data", msg |-> m, pos |-> i]
Chunk(m, from, n) == [i \in 1..n |-> Data(m, from + i)]

Whole(m) == [csid |-> sent[m].csid, payload |-> Chunk(m, 0, sent[m].len)]

\* Type invariant; no more is read for a message than its chunk stream's length.
TypeOK ==
    /\ sent \in Seq([csid : Csid, len : 1..MaxLen]) /\ Len(sent) <= MaxMessages
    /\ left \in [Csid -> 0..MaxLen]
    /\ current \in [Csid -> 0..MaxMessages]
    /\ interleaved \in BOOLEAN
    /\ csid_header \in [Csid -> -1..MaxLen]
    /\ csid \in Csid
    /\ Len(payload) <= csid_header[csid] \/ payload = <<>>
    /\ pc \in {"header", "payload", "lost"}

Init ==
    /\ sent = <<>> /\ wire = <<>> /\ got = <<>> /\ payload = <<>>
    /\ left = [c \in Csid |-> 0] /\ current = [c \in Csid |-> 0]
    /\ interleaved = FALSE
    /\ csid_header = [c \in Csid |-> -1]
    /\ csid \in Csid
    /\ pc = "header"

-----------------------------------------------------------------------------
(* The publisher. *)

Others(c) == \E d \in Csid \ {c} : left[d] > 0

\* The headers the publisher may give a message of length n on chunk stream c:
\* no length where it has not changed.
MayUse(c, n) ==
    IF current[c] = 0 THEN {0}
    ELSE IF sent[current[c]].len = n THEN 0..3 ELSE {0, 1}

\* A message begins.
Begin(c, fmt, n) ==
    LET m == Len(sent) + 1 k == Least(n, ChunkSize) IN
    /\ m <= MaxMessages /\ left[c] = 0
    /\ fmt \in MayUse(c, n)
    /\ sent' = Append(sent, [csid |-> c, len |-> n])
    /\ current' = [current EXCEPT ![c] = m]
    /\ left' = [left EXCEPT ![c] = n - k]
    /\ wire' = wire \o <<Basic(fmt, c)>>
                    \o (IF fmt = 3 THEN <<>> ELSE <<Message(IF fmt <= 1 THEN n ELSE 0)>>)
                    \o Chunk(m, 0, k)
    /\ interleaved' = (interleaved \/ Others(c))
    /\ UNCHANGED server

\* The next chunk of a message.
Continue(c) ==
    LET m == current[c] k == Least(left[c], ChunkSize) IN
    /\ left[c] > 0
    /\ left' = [left EXCEPT ![c] = @ - k]
    /\ wire' = wire \o <<Basic(3, c)>> \o Chunk(m, sent[m].len - left[c], k)
    /\ interleaved' = (interleaved \/ Others(c))
    /\ UNCHANGED <<sent, current, server>>

-----------------------------------------------------------------------------
(* The server. *)

\* Faulty variant: the length is kept for all chunk streams together.
StoreAll(c, n) == [d \in Csid |-> n]

\* csid_header[csid].message_length of a header that has the field.
Store(c, n) == [csid_header EXCEPT ![c] = n]

\* read_audio_video_basic_header and read_audio_video_message_header; anything
\* that is no header where one is read is taken for some header.
ReadHeader ==
    LET bh == Head(wire) n == IF bh.k = "basic" /\ bh.fmt < 3 THEN 2 ELSE 1 IN
    /\ pc = "header" /\ wire # <<>>
    /\ IF bh.k # "basic"
       THEN /\ pc' = "lost"
            /\ UNCHANGED <<csid_header, csid, wire>>
       ELSE /\ Len(wire) >= n
            /\ csid_header' = IF bh.fmt <= 1 THEN Store(bh.csid, wire[2].len) ELSE csid_header
            /\ csid' = bh.csid
            /\ pc' = "payload"
            /\ wire' = SubSeq(wire, n + 1, Len(wire))
    /\ UNCHANGED <<payload, got, publisher>>

\* A turn of recv_audio_video_payload: a chunk, and the byte in front of it from
\* the second turn on, which is erased.
ReadTurn ==
    LET skip == IF payload = <<>> THEN 0 ELSE 1
        n == Least(csid_header[csid] - Len(payload), ChunkSize)
    IN  /\ pc = "payload" /\ Len(payload) < csid_header[csid]
        /\ Len(wire) >= skip + n
        /\ payload' = payload \o SubSeq(wire, skip + 1, skip + n)
        /\ wire' = SubSeq(wire, skip + n + 1, Len(wire))
        /\ UNCHANGED <<csid_header, csid, pc, got, publisher>>

\* recv_audio_video returns, the message is handed on and the buffer cleared.
ReadDone ==
    /\ pc = "payload" /\ Len(payload) >= csid_header[csid]
    /\ got' = Append(got, [csid |-> csid, payload |-> payload])
    /\ payload' = <<>>
    /\ pc' = "header"
    /\ UNCHANGED <<csid_header, csid, wire, publisher>>

Server == ReadHeader \/ ReadTurn \/ ReadDone

Next ==
    \/ \E c \in Csid, f \in 0..3, n \in 1..MaxLen : Begin(c, f, n)
    \/ \E c \in Csid : Continue(c)
    \/ Server

Spec == Init /\ [][Next]_vars

\* The server reads on, and the publisher finishes the messages it has begun.
FairSpec == Spec /\ WF_vars(Server) /\ \A c \in Csid : WF_vars(Continue(c))

-----------------------------------------------------------------------------
\* As long as the publisher finishes a message before it begins another, what the
\* server hands on is what was sent, message by message and with the right chunk
\* stream, whichever header types it uses and however the streams alternate.
HandsOnWhole ==
    ~interleaved =>
        /\ pc # "lost"
        /\ Len(got) <= Len(sent)
        /\ \A m \in 1..Len(got) : got[m] = Whole(m)

\* What is read for one message is never mixed with another one's bytes, nor with
\* headers, before a chunk of another stream has come in between.
Unmixed ==
    ~interleaved => \A i \in 1..Len(payload) :
        payload[i].k = "data" /\ payload[i].msg = Len(got) + 1 /\ payload[i].pos = i

\* Every message is handed on, unless chunk streams are interleaved.
HandedOn ==
    \A m \in 1..MaxMessages : Len(sent) >= m ~> (Len(got) >= m \/ interleaved)

\* Messages of several chunk streams are handed on whole, in order and unmixed,
\* until the publisher interleaves their chunks.
Demuxed == TypeOK /\ HandsOnWhole /\ Unmixed
=================================================================================
