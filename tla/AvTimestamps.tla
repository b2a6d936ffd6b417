---------------------------- MODULE AvTimestamps ----------------------------
(***************************************************************************)
(* The timestamps of one chunk stream on their way through the server:     *)
(* read_audio_video_message_header decodes them from the chunk headers     *)
(* into csid_header[csid], and the send loop of a player writes            *)
(* csid_header[curr_csid].timestamp into a header of type 0.               *)
(*                                                                         *)
(* Ext stands for 0xFFFFFF and Half for 2^31: the 24-bit field is 0..Ext   *)
(* and an int is -Half..Half - 1.                                          *)
(***************************************************************************)
EXTENDS Integers

CONSTANTS
    Ext,      \* the largest value of the 24-bit field; announces 4 more bytes
    Half,     \* ints run from -Half to Half - 1
    MaxTime   \* bound: the publisher's clock

ASSUME TimeAssumption ==
    /\ Ext \in Nat \ {0} /\ Half \in Nat /\ MaxTime \in Nat
    /\ Half > Ext /\ (Ext + 1) * (Half \div (Ext + 1)) = Half
    /\ MaxTime + Ext < 2 * Half

VARIABLES
    time,       \* time of the publisher's last message on this chunk stream
    step,       \* the delta a fmt 3 header of the publisher would repeat
    started,    \* a media message was sent
    known,      \* csid_header has an entry for the chunk stream
    timestamp,  \* csid_header[csid].timestamp
    delta,      \* csid_header[csid].timestamp_delta
    unread,     \* bytes of the last header left in the socket
    base        \* history: what the decoder has added to the publisher's time

vars == <<time, step, started, known, timestamp, delta, unread, base>>

\* A value as a 32-bit int.
AsInt(v) == ((v + Half) % (2 * Half)) - Half

\* The 24-bit field that stands for v, and whether 4 bytes with v follow.
Field(v) == IF v < Ext THEN v ELSE Ext
Extended(v) == v >= Ext

-----------------------------------------------------------------------------
\* Before media flows the chunk stream is unknown, or @setDataFrame has come on
\* it at time 0: read_message_header enters the message length and leaves
\* timestamp and timestamp_delta at -1.
Init ==
    /\ time = 0 /\ step = 0 /\ started = FALSE
    /\ known \in BOOLEAN
    /\ timestamp = -1 /\ delta = -1 /\ unread = 0
    /\ base = -1

\* What the decoder makes of a header of type fmt that carries v: the absolute
\* time for fmt 0, the difference for 1 and 2, nothing for 3.
\*
\* Faulty variant: fmt 1 carries an absolute time too.
ReadHeaderFmt1Absolute(fmt, v) ==
    LET ts0 == IF fmt <= 1 THEN Field(v) ELSE timestamp
        d0  == IF fmt = 0 THEN ts0 ELSE IF fmt <= 2 THEN Field(v) ELSE delta
        d1  == IF fmt <= 2 /\ d0 = Ext THEN AsInt(v) ELSE d0
    IN /\ known' = TRUE
       /\ delta' = d1
       /\ timestamp' = AsInt(ts0 + d1)

\* Faulty variant: a full header leaves the old delta in place.
ReadHeaderStaleDelta(fmt, v) ==
    LET ts0 == IF fmt = 0 THEN Field(v) ELSE timestamp
        d0  == IF fmt \in {1, 2} THEN Field(v) ELSE delta
        d1  == IF fmt <= 2 /\ d0 = Ext THEN AsInt(v) ELSE d0
    IN /\ known' = TRUE
       /\ delta' = d1
       /\ timestamp' = AsInt(ts0 + d1)

ReadHeader(fmt, v) ==
    LET ts0 == IF fmt = 0 THEN Field(v) ELSE timestamp
        d0  == IF fmt = 0 THEN ts0 ELSE IF fmt <= 2 THEN Field(v) ELSE delta
        d1  == IF fmt <= 2 /\ d0 = Ext THEN AsInt(v) ELSE d0
    IN /\ known' = TRUE
       /\ delta' = d1
       /\ timestamp' = AsInt(ts0 + d1)

\* A full header; the publisher may send one at any time.
Full(t) ==
    /\ unread = 0 /\ t >= time
    /\ time' = t /\ step' = t /\ started' = TRUE
    /\ ReadHeader(0, t)
    /\ base' = Field(t)
    /\ UNCHANGED unread

\* A header with a difference, once the peer knows the chunk stream; fmt 2 needs
\* a media message of the same length before it.
Difference(fmt, d) ==
    /\ unread = 0 /\ known /\ time + d <= MaxTime
    /\ fmt = 2 => started
    /\ time' = time + d /\ step' = d /\ started' = TRUE
    /\ ReadHeader(fmt, d)
    /\ UNCHANGED <<unread, base>>

\* A header that repeats the last difference (after a full header: its time).
\* If that was extended the publisher sends the four bytes again; the decoder
\* returns before it would read them.
Repeat ==
    /\ unread = 0 /\ started /\ time + step <= MaxTime
    /\ time' = time + step /\ UNCHANGED <<step, started>>
    /\ ReadHeader(3, step)
    /\ unread' = IF Extended(step) THEN 4 ELSE 0
    /\ UNCHANGED base

Next ==
    \/ \E t \in 0..MaxTime : Full(t)
    \/ \E fmt \in {1, 2}, d \in 0..MaxTime : Difference(fmt, d)
    \/ Repeat

Spec == Init /\ [][Next]_vars

-----------------------------------------------------------------------------
(* The header a player gets, and what the player reads out of it. *)

\* Faulty variant: the extended form starts above 0xFFFFFF.
PlayerHeaderAbove(ts) ==
    IF ts > Ext THEN [field |-> Ext, size |-> 16] ELSE [field |-> ts % (Ext + 1), size |-> 12]

PlayerHeader(ts) ==
    IF ts >= Ext THEN [field |-> Ext, size |-> 16] ELSE [field |-> ts % (Ext + 1), size |-> 12]

\* The player takes a field of 0xFFFFFF for the announcement of 4 more bytes.
Understood(ts) == (PlayerHeader(ts).field = Ext) <=> (PlayerHeader(ts).size = 16)
PlayedTime(ts) == IF PlayerHeader(ts).size = 16 THEN ts ELSE PlayerHeader(ts).field

-----------------------------------------------------------------------------
Ints == -Half..(Half - 1)

\* Type invariant; timestamps stay within an int.
TypeOK ==
    /\ time \in 0..MaxTime /\ step \in 0..MaxTime /\ started \in BOOLEAN
    /\ known \in BOOLEAN /\ timestamp \in Ints /\ delta \in Ints
    /\ unread \in {0, 4} /\ base \in -1..Ext

\* Drift between the publisher's clock and csid_header[csid].timestamp: the
\* field of the last full header is counted twice (it is stored as timestamp and
\* as timestamp_delta, then added), a stream that begins with a difference is
\* one behind, and no other header adds to it.  So differences are kept exactly
\* from one full header to the next, extended or not.
Drift ==
    started => timestamp = AsInt(time + base)

\* A player gets the stored time, in a header it can parse, exactly when the
\* time is not negative: at -1 the field announces bytes that do not follow, and
\* beyond 2^31 only 24 bits are sent.
PlayedWell ==
    started => ((Understood(timestamp) /\ PlayedTime(timestamp) = time + base)
                    <=> time + base \in 0..(Half - 1))

\* A publisher whose clock does not run backwards never makes the stored
\* timestamp of a chunk stream run backwards before it overflows, in spite of the
\* doubled full headers.
Forward ==
    [][started /\ time' + base' < Half => timestamp' >= timestamp]_vars
=============================================================================
