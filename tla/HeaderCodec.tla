------------------------------- MODULE HeaderCodec -------------------------------
(***************************************************************************)
(* Chunk headers as bytes: IO_Message::write_header writes them,           *)
(* read_basic_header and read_message_header read them (io_message.cpp).   *)
(* A peer writes headers in the same format, so that what the reader makes *)
(* of a written header is what it makes of a peer's.  Bytes are 0..255; a  *)
(* char is signed, as on the targets of the Makefile, and an int has 32    *)
(* bits.                                                                   *)
(***************************************************************************)
EXTENDS Integers, Sequences

CONSTANTS
    Csids,       \* bound: the chunk stream ids
    Timestamps,  \* bound: the timestamps, or deltas for fmt 1 and 2
    Lengths,     \* bound: the message lengths
    StreamIds    \* bound: the message stream ids

CodecAssumption ==
    /\ Csids \subseteq 2..65599
    /\ Timestamps \subseteq Nat /\ Lengths \subseteq 0..16777215 /\ StreamIds \subseteq Nat

VARIABLES
    hdr,    \* the header last written
    bytes,  \* the bytes in the socket
    basic,  \* what read_basic_header made of it: [fmt, csid, size]
    msg,    \* what read_message_header made of it: [size, timestamp, length, type, stream]
    pc      \* "write", "basic", "message", "done" or "starved"

vars == <<hdr, bytes, basic, msg, pc>>

Byte == 0..255
ExtMark == 16777215

Header == [fmt : 0..3, csid : Csids, timestamp : Timestamps, length : Lengths,
           type : {8, 18, 20}, stream : StreamIds]

\* A byte as a char.
Char(b) == IF b < 128 THEN b ELSE b - 256

\* The k lowest bytes of a nonnegative int, the lowest first (as in memory) and
\* the highest first (se2be_3bytes, se2be_4bytes).
Le(v, k) == [i \in 1..k |-> (v \div 256^(i - 1)) % 256]
Be(v, k) == [i \in 1..k |-> (v \div 256^(k - i)) % 256]

\* The int of three and of four bytes, the highest first.
Int24(s) == s[1] * 65536 + s[2] * 256 + s[3]
Int32(s) == Char(s[1]) * 16777216 + s[2] * 65536 + s[3] * 256 + s[4]

MhSize == <<11, 7, 3, 0>>

-----------------------------------------------------------------------------
\* The basic header of write_header, in one, two or three bytes.
BasicBytes(fmt, csid) ==
    IF csid >= 2 /\ csid <= 63 THEN <<fmt * 64 + csid>>
    ELSE IF csid <= 319 THEN <<fmt * 64, (csid - 64) % 256>>
    ELSE <<fmt * 64 + 1>> \o Le(csid - 64, 2)

\* The message header of write_header.
MessageBytes(h) ==
    (IF h.fmt <= 2 THEN Be(IF h.timestamp > ExtMark THEN ExtMark ELSE h.timestamp, 3) ELSE <<>>)
    \o (IF h.fmt <= 1 THEN Be(h.length, 3) \o <<h.type>> ELSE <<>>)
    \o (IF h.fmt = 0 THEN Le(h.stream, 4) ELSE <<>>)
    \o (IF h.fmt <= 2 /\ h.timestamp > ExtMark THEN Be(h.timestamp, 4) ELSE <<>>)

None == [size |-> 0]

Init ==
    /\ hdr = None /\ bytes = <<>> /\ basic = None /\ msg = None /\ pc = "write"

\* write_header.
WriteHeader(h) ==
    /\ pc = "write"
    /\ hdr' = h
    /\ bytes' = BasicBytes(h.fmt, h.csid) \o MessageBytes(h)
    /\ pc' = "basic"
    /\ UNCHANGED <<basic, msg>>

\* Faulty variant: the third byte is not weighted.
WideCsidUnweighted(s) == 64 + Char(s[2]) + Char(s[3])

\* The csid of a three-byte basic header.
WideCsid(s) == 64 + Char(s[2]) + Char(s[3]) * 256

\* read_basic_header.
ReadBasicHeader ==
    LET low == bytes[1] % 64
        size == IF low = 0 THEN 2 ELSE IF low = 1 THEN 3 ELSE 1
    IN  /\ pc = "basic"
        /\ basic' = [fmt |-> bytes[1] \div 64, size |-> size,
                     csid |-> IF low = 0 THEN 64 + Char(bytes[2])
                              ELSE IF low = 1 THEN WideCsid(bytes)
                              ELSE low]
        /\ pc' = "message"
        /\ UNCHANGED <<hdr, bytes, msg>>

\* read_message_header: the local variables stay 0 where the header has no
\* field for them; four more bytes are read for a delta of 0xFFFFFF.
ReadMessageHeader ==
    LET fmt  == basic.fmt
        p    == SubSeq(bytes, basic.size + 1, Len(bytes))
        mh   == MhSize[fmt + 1]
        time == IF fmt = 0 THEN Int24(p) ELSE 0
        d    == IF fmt \in {1, 2} THEN Int24(p) ELSE 0
        rest == SubSeq(p, mh + 1, Len(p))
    IN  /\ pc = "message"
        /\ IF d = ExtMark /\ Len(rest) < 4
           THEN pc' = "starved" /\ UNCHANGED msg
           ELSE /\ msg' = [size |-> IF d = ExtMark THEN mh + 4 ELSE mh,
                           timestamp |-> time + (IF d = ExtMark THEN Int32(rest) ELSE d),
                           length |-> IF fmt <= 1 THEN Int24(SubSeq(p, 4, 6)) ELSE 0,
                           type |-> IF fmt <= 1 THEN p[7] ELSE 0,
                           stream |-> IF fmt = 0 THEN Int32(<<p[11], p[10], p[9], p[8]>>) ELSE 0]
                /\ pc' = "done"
        /\ UNCHANGED <<hdr, bytes, basic>>

\* The next header.
Again ==
    /\ pc \in {"done", "starved"}
    /\ hdr' = None /\ bytes' = <<>> /\ basic' = None /\ msg' = None /\ pc' = "write"

Next ==
    \/ \E h \in Header : WriteHeader(h)
    \/ ReadBasicHeader \/ ReadMessageHeader \/ Again

Spec == Init /\ [][Next]_vars

-----------------------------------------------------------------------------
\* Type invariant; no field that has been read is negative.
TypeOK ==
    /\ hdr = None \/ hdr \in Header
    /\ bytes \in Seq(Byte)
    /\ msg = None \/ (msg.timestamp \in Nat /\ msg.length \in Nat /\ msg.stream \in Nat)
    /\ pc \in {"write", "basic", "message", "done", "starved"}

\* A chunk stream is taken for itself exactly if every byte of its id after the
\* first is below 128: the others go through a signed char, and 258 becomes 2.
CsidRead ==
    pc = "message" =>
        LET extra == Tail(BasicBytes(hdr.fmt, hdr.csid)) IN
        /\ basic.fmt = hdr.fmt
        /\ basic.size = 1 + Len(extra)
        /\ (basic.csid = hdr.csid) = (\A i \in 1..Len(extra) : extra[i] < 128)

\* The reader stops where the header ends, except that the extended timestamp of
\* a full header stays in the socket, and that a delta of exactly 0xFFFFFF, which
\* write_header does not extend, makes the reader wait for four bytes more.
StopsAtEnd ==
    /\ pc = "starved" => hdr.fmt \in {1, 2} /\ hdr.timestamp = ExtMark
    /\ pc = "done" =>
        Len(bytes) - basic.size - msg.size =
            IF hdr.fmt = 0 /\ hdr.timestamp > ExtMark THEN 4 ELSE 0

\* The fields of a header come out as they went in, but for the time of a full
\* header that does not fit into three bytes.
FieldsRead ==
    pc = "done" =>
        /\ hdr.fmt <= 1 => msg.length = hdr.length /\ msg.type = hdr.type
        /\ hdr.fmt = 0 => msg.stream = hdr.stream
        /\ hdr.fmt <= 2 =>
            msg.timestamp = IF hdr.fmt = 0 /\ hdr.timestamp > ExtMark THEN ExtMark ELSE hdr.timestamp

\* A header comes out of the reader as it went into the writer, where CsidRead,
\* StopsAtEnd and FieldsRead say so, and nowhere else.
HeadersRead == TypeOK /\ CsidRead /\ StopsAtEnd /\ FieldsRead
==================================================================================
