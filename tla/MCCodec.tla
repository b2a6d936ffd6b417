-------------------------------- MODULE MCCodec --------------------------------
(* What the server does with the bytes of a connection, for TLC: a behaviour  *)
(* is one of a chunk stream's timestamps (AvTimestamps), the chunks of one    *)
(* message (ChunkStream), the messages of several chunk streams (ChunkDemux), *)
(* a chunk header (HeaderCodec) and an AMF0 payload (Amf0Decode).  The parts  *)
(* share no state.                                                            *)
EXTENDS Media

CONSTANTS
    ChunkSize, PeerChunks, MaxLen,
    MaxEntries

VARIABLES
    part,  \* "time", "chunks", "demux", "header" or "amf"
    msg, pos, buf, nread, pc, starved, total, out,
    hdr, bytes, basic, h_msg, h_pc,
    handler, a_sent, a_payload, p, expect, count, object, frame, before, a_pc

cvars == <<msg, pos, buf, nread, pc, starved, total, out>>
hvars == <<hdr, bytes, basic, h_msg, h_pc>>
avars == <<handler, a_sent, a_payload, p, expect, count, object, frame, before, a_pc>>

\* The edges of the three forms of a basic header and of a signed char.
Csids == {2, 63, 64, 191, 192, 258, 319, 320, 447, 575, 32831, 32832, 65599}
Timestamps == {0, 1, 256, 16777214, 16777215, 16777216, 2147483647}
Lengths == {0, 128, 4096, 16777215}
StreamIds == {0, 1, 16909060}

Value == {[k |-> "num", v |-> 0], [k |-> "num", v |-> 9], [k |-> "bool", v |-> 1],
          [k |-> "str", n |-> 0], [k |-> "str", n |-> 3], [k |-> "null"]}
Entry == [key : {1, 3}, val : Value]

Number(x) == [k |-> "num", v |-> x]
Text(x) == [k |-> "str", n |-> x]
Rest == {<<>>, <<[k |-> "null"]>>, <<Number(1)>>, <<Number(0)>>, <<Text(2)>>,
         <<Text(0), Text(2)>>, <<Text(0), Number(1)>>, <<Text(2), Text(2)>>,
         <<[k |-> "obj", e |-> <<>>]>>,
         <<[k |-> "obj", e |-> <<[key |-> 3, val |-> Number(1)]>>]>>}

C == INSTANCE ChunkStream
H == INSTANCE HeaderCodec WITH msg <- h_msg, pc <- h_pc
A == INSTANCE Amf0Decode WITH sent <- a_sent, payload <- a_payload, pc <- a_pc

ASSUME C!ChunkAssumption
ASSUME H!CodecAssumption
ASSUME A!DecodeAssumption

\* A part that does not run starts in one of its initial states.
Parts ==
    /\ part \in {"time", "chunks", "demux", "header", "amf"}
    /\ Init /\ (part = "time" \/ ~known)
    /\ C!Init /\ (part = "chunks" \/ msg = CHOOSE m \in C!Transfer : m.path = "relay")
    /\ D!Init /\ (part = "demux" \/ csid = CHOOSE c \in Csid : TRUE)
    /\ H!Init
    /\ A!Init /\ (part = "amf" \/ frame = <<>>)

Time == part = "time" /\ Next /\ UNCHANGED <<part, cvars, dvars, hvars, avars>>
Chunks == part = "chunks" /\ C!Next /\ UNCHANGED <<part, vars, dvars, hvars, avars>>
Demux == part = "demux" /\ D!Next /\ UNCHANGED <<part, vars, cvars, hvars, avars>>
Headers == part = "header" /\ H!Next /\ UNCHANGED <<part, vars, cvars, dvars, avars>>
Amf == part = "amf" /\ A!Next /\ UNCHANGED <<part, vars, cvars, dvars, hvars>>

Codec ==
    /\ Parts
    /\ [][Time \/ Chunks \/ Demux \/ Headers \/ Amf]_<<part, vars, cvars, dvars, hvars, avars>>
    /\ WF_cvars(part = "chunks" /\ C!Next)
    /\ WF_dvars(part = "demux" /\ D!Server)
    /\ \A c \in Csid : WF_dvars(part = "demux" /\ D!Continue(c))

-----------------------------------------------------------------------------
\* ChunkStream: the receive loop puts together the payload the publisher sent,
\* the send loops cut it so that it arrives once and in order, and neither takes
\* or sends bytes of anything else.
ChunksWhole == C!ChunksWhole

\* ChunkStream and ChunkDemux: receiving and sending a message comes to an end,
\* and every message of a publisher that does not interleave is handed on.
MessagesEnd == (part = "chunks" => C!Ends) /\ D!HandedOn

\* HeaderCodec: which chunk stream ids, lengths and fields of a header the reader
\* gets right, and where it stops.
HeadersRead == H!HeadersRead

\* Amf0Decode: which connect messages, further commands and metadata are
\* accepted, and what they leave in object and set_data_frame.
PayloadsRead == A!PayloadsRead
================================================================================
