------------------------------- MODULE Relay -------------------------------
(***************************************************************************)
(* The media relay of client.cpp: the accept loop, the publishing clients  *)
(* that receive audio and video messages into the global                   *)
(* audio_video_buffer, and the playing clients that copy it to their own   *)
(* sockets.  They share one hand-off slot, consumers.begin()->second, and  *)
(* run as coroutines: an action is what a coroutine does between two       *)
(* scheduling points, or a part of it that ends with Continue.             *)
(*                                                                         *)
(* Data are counted in units: the basic header of a message, its message   *)
(* header and each chunk of its payload are one unit each.                 *)
(***************************************************************************)
EXTENDS StThreads, Integers

CONSTANTS
    Listener,   \* the thread of Server::accept
    Publisher,  \* clients that push a stream
    Player,     \* clients that pull a stream
    Csid,       \* chunk stream ids
    Script,     \* Script[p]: the messages publisher p sends, [csid, len in chunks]
    MetaCsid,   \* the chunk stream @setDataFrame comes on, and its length in
    MetaLen,    \* chunks; the other commands use chunk streams without media
    MaxUnits,   \* bound: capacity of the modelled memory, in units
    MaxLen,     \* bound: payload length read from bytes that are no header
    Env,        \* what the network may do: a subset of EnvEvents
    MaxTimeouts,\* bound: st_poll timeouts and publishers' read errors in a behaviour
    NoUnit,     \* bytes that are not a unit of any message
    None        \* no client

EnvEvents == {"block", "fail", "eof"}

ASSUME RelayAssumption ==
    /\ Thread = {Listener} \cup Publisher \cup Player
    /\ Listener \notin Publisher \cup Player
    /\ Publisher \cap Player = {}
    /\ None \notin Thread
    /\ 0 \in Csid /\ MetaCsid \in Csid /\ MetaLen \in Nat
    /\ MaxUnits \in Nat \ {0, 1} /\ MaxLen \in Nat /\ MaxTimeouts \in Nat
    /\ Env \subseteq EnvEvents
    /\ DOMAIN Script = Publisher
    /\ \A p \in Publisher : Script[p] \in Seq([csid : Csid, len : 1..MaxLen])

Client == Publisher \cup Player

\* A unit of message n of publisher p: part 0 is the basic header, part 1 the
\* message header, part k + 1 the k-th chunk of the payload.
HeaderLength == 2
Unit(p, n, k) == <<p, n, k>>
Units == UNION {{p} \X (1..Len(Script[p])) \X (0..MaxLen + 1) : p \in Publisher}

NULL == 0

VARIABLES
    pc,            \* where each client is in process_thread
    consumers,     \* keys of the global consumers map
    begin,         \* the key consumers.begin() points at
    slot,          \* consumers[q]: NULL or the allocation it points into
    mem,           \* bytes of audio_video_buffer's allocation
    size,          \* audio_video_buffer.size()
    cap,           \* audio_video_buffer.capacity()
    alloc,         \* number of the current allocation of audio_video_buffer
    currCsid,      \* the global curr_csid
    csidHeader,    \* the global csid_header
    setDataFrame,  \* ! set_data_frame.empty()
    next,          \* next[p]: <<n, k>>, the unit p's socket delivers next
    aligned,       \* aligned[p]: no byte of p's stream was read and dropped
    csid,          \* the local csid of p's recv_audio_video calls
    got,           \* the local nread of recv_audio_video_payload
    total,         \* the local totol_payload_send of a player's pass
    skew,          \* total was advanced by the wrong header length
    pend,          \* the chunk a player's writev is blocked on
    sent           \* sent[q]: the chunks q's pass has put on the wire

shared == <<consumers, begin, slot>>
buffer == <<mem, size, cap, alloc>>
header == <<currCsid, csidHeader, setDataFrame>>
push   == <<next, aligned, csid, got>>
pull   == <<total, skew, pend, sent>>

(* History, for the properties and for the bound on timeouts. *)
VARIABLES
    intact,   \* intact[p]: no receive of p failed inside a message
    waiting,  \* players that were polling when the last hand-off began
    quiet,    \* only polling players shared the scheduler's round with it
    taken,    \* players that began to send it
    handed,   \* the node whose slot the last hand-off set
    clean,    \* clean[q]: q's pass took the slot of a hand-off still in
              \* progress and has not blocked
    played,   \* the messages of the clean passes, in the order of completion
    timeouts  \* number of st_poll timeouts and publishers' read errors

hist == <<intact, waiting, quiet, taken, handed, clean, played, timeouts>>
vars == <<sched, pc, shared, buffer, header, push, pull, hist>>

NoHeader == [len |-> -1, hl |-> -1, msg |-> 0]
NoPend == [alloc |-> NULL, off |-> 0, len |-> 0, head |-> 0, body |-> NoUnit]

-----------------------------------------------------------------------------
Init ==
    /\ running = Idle /\ runq = <<>> /\ sleepq = <<>> /\ ioq = <<Listener>>
    /\ poll = [t \in Thread |-> "none"]
    /\ pc = [c \in Client |-> "absent"]
    /\ consumers = {} /\ begin = None /\ slot = [q \in Player |-> NULL]
    /\ mem = [i \in 1..MaxUnits |-> NoUnit] /\ size = 0 /\ cap = 0 /\ alloc = 1
    /\ currCsid = 0 /\ csidHeader = [c \in Csid |-> NoHeader]
    /\ setDataFrame = FALSE
    /\ next = [p \in Publisher |-> <<1, 0>>] /\ aligned = [p \in Publisher |-> TRUE]
    /\ csid = [p \in Publisher |-> 0] /\ got = [p \in Publisher |-> 0]
    /\ total = [q \in Player |-> 0] /\ skew = [q \in Player |-> FALSE]
    /\ pend = [q \in Player |-> NoPend] /\ sent = [q \in Player |-> <<>>]
    /\ intact = [p \in Publisher |-> TRUE]
    /\ waiting = {} /\ quiet = FALSE /\ taken = {} /\ handed = None
    /\ clean = [q \in Player |-> FALSE] /\ played = <<>> /\ timeouts = 0

-----------------------------------------------------------------------------
(* The accept loop and the part of process_thread before media flows.       *)

\* Server::accept after st_accept returned a descriptor: a Client and its
\* thread are created, then st_usleep(0).
Accept(c) ==
    /\ running = Listener
    /\ pc[c] = "absent"
    /\ pc' = [pc EXCEPT ![c] = "session"]
    /\ poll' = [poll EXCEPT ![Listener] = "none"]
    /\ Usleep(Append(runq, c))
    /\ UNCHANGED <<shared, buffer, header, push, pull, hist>>

\* st_accept finds no connection pending.
AcceptWait ==
    /\ running = Listener
    /\ poll[Listener] = "none"
    /\ PollWait(runq)
    /\ UNCHANGED <<pc, shared, buffer, header, push, pull, hist>>

\* A read or write of the handshake or of a command message has to wait.
CommandWait(c) ==
    /\ running = c
    /\ pc[c] \in {"session", "setup"}
    /\ poll[c] = "none"
    /\ PollWait(runq)
    /\ UNCHANGED <<pc, shared, buffer, header, push, pull, hist>>

\* The peer has closed: read_nbytes_cycle gets 0 bytes at once, for ever.
CommandEof(c) ==
    /\ running = c
    /\ pc[c] \in {"session", "setup"}
    /\ poll[c] # "timeout"
    /\ "eof" \in Env
    /\ pc' = [pc EXCEPT ![c] = "spin"]
    /\ poll' = [poll EXCEPT ![c] = "none"]
    /\ Continue(runq)
    /\ UNCHANGED <<shared, buffer, header, push, pull, hist>>

\* while (*nread < nbytes) with n_read = 0: the loop neither ends nor yields.
Spin(c) ==
    /\ running = c
    /\ pc[c] = "spin"
    /\ UNCHANGED vars

\* handshake, connect, the four replies or IdentifyClient return -1; or, with
\* a pulling client that is a consumer already, the read before createStream.
SessionFail(c) ==
    /\ running = c
    /\ \/ pc[c] = "session" /\ (poll[c] = "timeout" \/ Env \cap {"fail", "eof"} # {})
       \/ c \in Player /\ pc[c] = "setup" /\ (poll[c] = "timeout" \/ "fail" \in Env)
    /\ pc' = [pc EXCEPT ![c] = "done"]
    /\ ThreadExit(runq)
    /\ UNCHANGED <<shared, buffer, header, push, pull, hist>>

\* Faulty variant: the cached first node is not refreshed by the insertion.
InsertStaleBegin(q) ==
    IF q \in consumers
    THEN UNCHANGED <<shared, quiet>>
    ELSE /\ consumers' = consumers \cup {q}
         /\ slot' = [slot EXCEPT ![q] = NULL]
         /\ UNCHANGED <<begin, quiet>>

\* consumers.insert: nothing if the key is there; otherwise the new node may
\* change which one is first in the iteration order of the map.
Insert(q) ==
    IF q \in consumers
    THEN UNCHANGED <<shared, quiet>>
    ELSE /\ consumers' = consumers \cup {q}
         /\ begin' \in consumers'
         /\ slot' = [slot EXCEPT ![q] = NULL]
         /\ quiet' = (quiet /\ begin' = begin)

\* IdentifyClient says push: releaseStream ... @setDataFrame follow.
Identify(p) ==
    /\ running = p /\ p \in Publisher
    /\ pc[p] = "session"
    /\ poll[p] # "timeout"
    /\ pc' = [pc EXCEPT ![p] = "setup"]
    /\ poll' = [poll EXCEPT ![p] = "none"]
    /\ Continue(runq)
    /\ UNCHANGED <<shared, buffer, header, push, pull, hist>>

\* IdentifyClient says pull: the client becomes a consumer at once.
IdentifyPull(q) ==
    /\ running = q /\ q \in Player
    /\ pc[q] = "session"
    /\ poll[q] # "timeout"
    /\ Insert(q)
    /\ pc' = [pc EXCEPT ![q] = "setup"]
    /\ poll' = [poll EXCEPT ![q] = "none"]
    /\ Continue(runq)
    /\ UNCHANGED <<buffer, header, push, pull, intact, waiting, taken, handed, clean, played, timeouts>>

\* A read of p times out or fails.
ReadFails(p) ==
    \/ poll[p] = "timeout" /\ UNCHANGED timeouts
    \/ /\ poll[p] # "timeout" /\ "fail" \in Env
       /\ timeouts < MaxTimeouts /\ timeouts' = timeouts + 1

\* csid_header after the header of @setDataFrame, recorded like any other.
MetaHeader == [csidHeader EXCEPT ![MetaCsid] = [@ EXCEPT !.len = MetaLen, !.msg = 0]]

\* releaseStream ... publish and their replies, then SetDataFrame.
SetDataFrame(p) ==
    /\ running = p /\ p \in Publisher
    /\ pc[p] = "setup"
    /\ poll[p] # "timeout"
    /\ setDataFrame' = TRUE
    /\ csidHeader' = MetaHeader
    /\ pc' = [pc EXCEPT ![p] = "basic"]
    /\ poll' = [poll EXCEPT ![p] = "none"]
    /\ Continue(runq)
    /\ UNCHANGED <<shared, buffer, currCsid, push, pull, hist>>

\* One of the reads fails.  Return codes are ignored: the client goes on, with the
\* metadata and the header set or not and with bytes of its stream lost or not.
SetDataFrameFail(p) ==
    /\ running = p /\ p \in Publisher
    /\ pc[p] = "setup"
    /\ ReadFails(p)
    /\ \E set \in {setDataFrame, TRUE} : setDataFrame' = set
    /\ csidHeader' \in {MetaHeader, csidHeader}
    /\ \E lost \in BOOLEAN :
          /\ aligned' = [aligned EXCEPT ![p] = @ /\ ~lost]
          /\ intact' = [intact EXCEPT ![p] = @ /\ ~lost]
    /\ pc' = [pc EXCEPT ![p] = "basic"]
    /\ poll' = [poll EXCEPT ![p] = "none"]
    /\ Continue(runq)
    /\ UNCHANGED <<shared, buffer, currCsid, next, csid, got, pull,
                   waiting, quiet, taken, handed, clean, played>>

\* createStream ... onStatus3 exchanged with a player, return codes ignored.
PlaySetup(q) ==
    /\ running = q /\ q \in Player
    /\ pc[q] = "setup"
    /\ pc' = [pc EXCEPT ![q] = "meta"]
    /\ poll' = [poll EXCEPT ![q] = "none"]
    /\ Continue(runq)
    /\ UNCHANGED <<shared, buffer, header, push, pull, hist>>

\* while (set_data_frame.empty()) st_usleep(0)
AwaitMetaData(q) ==
    /\ running = q
    /\ pc[q] = "meta" /\ ~setDataFrame
    /\ Usleep(runq)
    /\ UNCHANGED <<poll, pc, shared, buffer, header, push, pull, hist>>

\* OnMetaData is written, which may wait; its result is ignored.
OnMetaDataBlock(q) ==
    /\ running = q
    /\ pc[q] = "meta" /\ setDataFrame /\ "block" \in Env
    /\ pc' = [pc EXCEPT ![q] = "metaWrite"]
    /\ PollWait(runq)
    /\ UNCHANGED <<shared, buffer, header, push, pull, hist>>

\* OnMetaData is out; the second consumers.insert precedes the play loop.
OnMetaData(q) ==
    /\ running = q
    /\ \/ pc[q] = "meta" /\ setDataFrame
       \/ pc[q] = "metaWrite"
    /\ pc' = [pc EXCEPT ![q] = "poll"]
    /\ poll' = [poll EXCEPT ![q] = "none"]
    /\ Insert(q)
    /\ Continue(runq)
    /\ UNCHANGED <<buffer, header, push, pull, intact, waiting, taken, handed, clean, played, timeouts>>

-----------------------------------------------------------------------------
(* The push loop: recv_audio_video into the global buffer, hand-off, sleep. *)

\* The unit p's socket delivers next, and its successor.
Delivered(p) == IF aligned[p] THEN Unit(p, next[p][1], next[p][2]) ELSE NoUnit
Pending(p) == next[p][1] <= Len(Script[p])
Successor(p) ==
    IF next[p][2] < Script[p][next[p][1]].len + 1
    THEN <<next[p][1], next[p][2] + 1>>
    ELSE <<next[p][1] + 1, 0>>

\* audio_video_buffer.append: a larger allocation is taken when the capacity
\* is exceeded; the bytes beyond size() are not copied.
AppendUnit(u) ==
    /\ size < MaxUnits
    /\ size' = size + 1
    /\ IF size + 1 > cap
       THEN /\ alloc' = alloc + 1
            /\ cap' = IF 2 * cap > size + 1 THEN 2 * cap ELSE size + 1
            /\ mem' = [i \in 1..MaxUnits |-> IF i <= size THEN mem[i]
                                             ELSE IF i = size + 1 THEN u ELSE NoUnit]
       ELSE /\ mem' = [mem EXCEPT ![size + 1] = u]
            /\ UNCHANGED <<alloc, cap>>

\* read_nbytes_cycle_av(n): nothing is read when the buffer holds n already.  How much
\* is missing is settled before the read waits, and read whatever came in meanwhile.
ReadUpTo(p, n) ==
    IF size >= n /\ poll[p] = "none"
    THEN UNCHANGED <<buffer, next, poll>>
    ELSE /\ poll[p] # "timeout"
         /\ Pending(p)
         /\ AppendUnit(Delivered(p))
         /\ next' = [next EXCEPT ![p] = Successor(p)]
         /\ poll' = [poll EXCEPT ![p] = "none"]

\* What the decoders make of a unit; bytes that are no header decode to
\* anything.
DecodedCsid(u) ==
    {c \in Csid : u \in Units /\ u[3] = 0 => c = Script[u[1]][u[2]].csid}
DecodedHeader(u) ==
    IF u \in Units /\ u[3] = 1
    THEN {[len |-> Script[u[1]][u[2]].len, msg |-> u[2]]}
    ELSE {[len |-> n, msg |-> 0] : n \in 0..MaxLen}

\* read_audio_video_basic_header(&fmt, &curr_csid, &bh_size)
ReadBasicHeader(p) ==
    /\ running = p
    /\ pc[p] = "basic"
    /\ ReadUpTo(p, 1)
    /\ currCsid' \in DecodedCsid(mem'[1])
    /\ csid' = [csid EXCEPT ![p] = currCsid']
    /\ pc' = [pc EXCEPT ![p] = "header"]
    /\ Continue(runq)
    /\ UNCHANGED <<shared, csidHeader, setDataFrame, aligned, got, pull, hist>>

\* read_audio_video_message_header, then the call of recv_audio_video_payload
\* with the current value of the reference to curr_csid.
ReadMessageHeader(p) ==
    /\ running = p
    /\ pc[p] = "header"
    /\ ReadUpTo(p, HeaderLength)
    /\ \E h \in DecodedHeader(mem'[2]) :
          csidHeader' = [csidHeader EXCEPT ![csid[p]] = [@ EXCEPT !.len = h.len, !.msg = h.msg]]
    /\ csid' = [csid EXCEPT ![p] = currCsid]
    /\ got' = [got EXCEPT ![p] = 0]
    /\ pc' = [pc EXCEPT ![p] = "payload"]
    /\ Continue(runq)
    /\ UNCHANGED <<shared, currCsid, setDataFrame, aligned, pull, hist>>

\* One turn of the loop of recv_audio_video_payload.
ReadChunk(p) ==
    /\ running = p
    /\ pc[p] = "payload"
    /\ poll[p] = "none" => got[p] < csidHeader[csid[p]].len
    /\ ReadUpTo(p, size + 1)
    /\ got' = [got EXCEPT ![p] = got[p] + 1]
    /\ Continue(runq)
    /\ UNCHANGED <<pc, shared, header, aligned, csid, pull, hist>>

\* Does the next step of p need bytes from its socket?
NeedsRead(p) ==
    \/ pc[p] \in {"basic", "header", "payload"} /\ poll[p] # "none"
    \/ pc[p] = "basic" /\ size < 1
    \/ pc[p] = "header" /\ size < HeaderLength
    \/ pc[p] = "payload" /\ got[p] < csidHeader[csid[p]].len

\* st_read_fully finds too few bytes.
ReadWait(p) ==
    /\ running = p
    /\ NeedsRead(p)
    /\ poll[p] = "none"
    /\ PollWait(runq)
    /\ UNCHANGED <<pc, shared, buffer, header, push, pull, hist>>

\* The peer has closed: read_nbytes_cycle_av gets 0 bytes at once, for ever.
ReadEof(p) ==
    /\ running = p
    /\ NeedsRead(p)
    /\ poll[p] # "timeout"
    /\ "eof" \in Env
    /\ pc' = [pc EXCEPT ![p] = "spin"]
    /\ poll' = [poll EXCEPT ![p] = "none"]
    /\ Continue(runq)
    /\ UNCHANGED <<shared, buffer, header, push, pull, hist>>

\* After recv_audio_video: header_length is stored, the buffer is put in the
\* first consumer's slot, st_usleep(0).
HandOff(p, headerLength) ==
    /\ csidHeader' = [csidHeader EXCEPT ![currCsid] = [@ EXCEPT !.hl = headerLength]]
    /\ slot' = IF consumers # {} THEN [slot EXCEPT ![begin] = alloc] ELSE slot
    /\ pc' = [pc EXCEPT ![p] = "handoff"]
    /\ waiting' = {q \in Player : pc[q] = "poll"}
    /\ quiet' = /\ ToSet(sleepq) \subseteq waiting'
                /\ \A q \in Player : pc[q] # "write"
    /\ taken' = {}
    /\ handed' = begin
    /\ Usleep(runq)
    /\ UNCHANGED <<consumers, begin, buffer, currCsid, setDataFrame, next, csid, got,
                   pull, clean, played>>

ReceiveDone(p) ==
    /\ running = p
    /\ pc[p] = "payload"
    /\ poll[p] = "none"
    /\ got[p] >= csidHeader[csid[p]].len
    /\ HandOff(p, HeaderLength)
    /\ UNCHANGED <<poll, aligned, intact, timeouts>>

\* recv_audio_video returns -1 on a timeout or an error of read(2), possibly
\* dropping bytes it has read; the result is ignored and the buffer is handed
\* off as it is.
ReceiveFail(p) ==
    /\ running = p
    /\ NeedsRead(p)
    /\ ReadFails(p)
    /\ \E dropped \in BOOLEAN :
          /\ dropped => Pending(p)
          /\ aligned' = [aligned EXCEPT ![p] = @ /\ ~dropped]
          /\ intact' = [intact EXCEPT ![p] = @ /\ ~dropped /\ pc[p] = "basic"]
    /\ HandOff(p, IF pc[p] = "basic" THEN 1 ELSE HeaderLength)
    /\ poll' = [poll EXCEPT ![p] = "none"]

\* Faulty variant: the buffer is not cleared.
ClearNothing(p) ==
    /\ running = p
    /\ pc[p] = "handoff"
    /\ pc' = [pc EXCEPT ![p] = "basic"]
    /\ Continue(runq)
    /\ UNCHANGED <<poll, shared, buffer, header, push, pull, hist>>

\* After the sleep: audio_video_buffer.clear() keeps the allocation.
Clear(p) ==
    /\ running = p
    /\ pc[p] = "handoff"
    /\ size' = 0
    /\ mem' = [mem EXCEPT ![1] = NoUnit]
    /\ pc' = [pc EXCEPT ![p] = "basic"]
    /\ Continue(runq)
    /\ UNCHANGED <<poll, shared, cap, alloc, header, push, pull, hist>>

-----------------------------------------------------------------------------
(* The play loop.                                                           *)

\* csid_header[curr_csid], as read afresh by every expression of the loop.
Header == csidHeader[currCsid]

\* What memory holds at offset off of allocation a.
ByteAt(a, off) ==
    IF a = alloc /\ off + 1 \in 1..MaxUnits THEN mem[off + 1] ELSE NoUnit

\* Faulty variant: the player polls on without giving up the processor.
PollSlotBusy(q) ==
    /\ running = q
    /\ pc[q] = "poll"
    /\ slot[begin] = NULL
    /\ UNCHANGED vars

\* if (!consumers.begin()->second) st_usleep(0)
PollSlot(q) ==
    /\ running = q
    /\ pc[q] = "poll"
    /\ slot[begin] = NULL
    /\ Usleep(runq)
    /\ UNCHANGED <<poll, pc, shared, buffer, header, push, pull, hist>>

\* The slot is set: a pass over the buffer begins.
TakeSlot(q) ==
    /\ running = q
    /\ pc[q] = "poll"
    /\ slot[begin] # NULL
    /\ pc' = [pc EXCEPT ![q] = "send"]
    /\ total' = [total EXCEPT ![q] = 0]
    /\ skew' = [skew EXCEPT ![q] = FALSE]
    /\ taken' = taken \cup {q}
    /\ clean' = [clean EXCEPT ![q] = (begin = handed) /\ \E p \in Publisher : pc[p] = "handoff"]
    /\ sent' = [sent EXCEPT ![q] = <<>>]
    /\ Continue(runq)
    /\ UNCHANGED <<poll, shared, buffer, header, push, pend,
                   intact, waiting, quiet, handed, played, timeouts>>

\* Faulty variant: <= for <, one chunk short.
MoreToSendShort(q) == Header.hl + total[q] + 1 < size

\* pos < consumers.begin()->second + audio_video_buffer.size()
MoreToSend(q) == Header.hl + total[q] < size

\* The chunk the next writev sends: a full header with the first one.
NextChunk(q) ==
    [alloc |-> slot[begin], off |-> Header.hl + total[q],
     len |-> IF Header.len > total[q] THEN 1 ELSE 0,
     head |-> IF total[q] = 0 THEN Header.msg ELSE 0,
     body |-> IF skew[q] THEN NoUnit ELSE ByteAt(slot[begin], Header.hl + total[q])]

\* writev can only fail: a null base, or a negative length.
BadChunk(q) == slot[begin] = NULL \/ Header.len < total[q]

Written(q, head, body) == sent' = [sent EXCEPT ![q] = Append(@, [head |-> head, body |-> body])]

\* writev takes the whole chunk.
WriteChunk(q) ==
    /\ running = q
    /\ pc[q] = "send" /\ MoreToSend(q) /\ ~BadChunk(q)
    /\ Header.len > total[q]
    /\ Written(q, NextChunk(q).head, NextChunk(q).body)
    /\ total' = [total EXCEPT ![q] = @ + 1]
    /\ Continue(runq)
    /\ UNCHANGED <<poll, pc, shared, buffer, header, push, skew, pend, hist>>

\* Nothing of the message is left but the buffer holds more: q writes a header
\* alone, makes no progress, and does so again for as long as its socket takes them.
WritesNothing(q) ==
    /\ running = q
    /\ pc[q] = "send" /\ MoreToSend(q) /\ ~BadChunk(q)
    /\ Header.len = total[q]

WriteNothing(q) == WritesNothing(q) /\ UNCHANGED vars

\* The socket is full: st_writev waits in the middle of a chunk.
WriteBlock(q) ==
    /\ running = q
    /\ "block" \in Env
    /\ pc[q] = "send" /\ MoreToSend(q) /\ ~BadChunk(q)
    /\ pend' = [pend EXCEPT ![q] = NextChunk(q)]
    /\ pc' = [pc EXCEPT ![q] = "write"]
    /\ clean' = [clean EXCEPT ![q] = FALSE]
    /\ PollWait(runq)
    /\ UNCHANGED <<shared, buffer, header, push, total, skew, sent,
                   intact, waiting, quiet, taken, handed, played, timeouts>>

\* The rest of the chunk goes out, from the same address.  Whether it was the
\* first chunk is decided again, against the slot and the header of now.
WriteResume(q) ==
    /\ running = q
    /\ pc[q] = "write"
    /\ poll[q] = "ready"
    /\ LET now == ByteAt(pend[q].alloc, pend[q].off)
           wasFirst == total[q] = 0
           isFirst == pend[q].alloc = slot[begin] /\ pend[q].off = Header.hl
       IN /\ IF pend[q].len = 0 THEN UNCHANGED sent
             ELSE Written(q, pend[q].head, IF now = pend[q].body THEN now ELSE NoUnit)
          /\ skew' = [skew EXCEPT ![q] = @ \/ wasFirst # isFirst]
    /\ total' = [total EXCEPT ![q] = @ + pend[q].len]
    /\ pend' = [pend EXCEPT ![q] = NoPend]
    /\ pc' = [pc EXCEPT ![q] = "send"]
    /\ poll' = [poll EXCEPT ![q] = "none"]
    /\ Continue(runq)
    /\ UNCHANGED <<shared, buffer, header, push, hist>>

\* writev returns -1: the thread ends; slot and consumers stay as they are.
WriteFail(q) ==
    /\ running = q
    /\ \/ pc[q] = "send" /\ MoreToSend(q) /\ (BadChunk(q) \/ "fail" \in Env)
       \/ pc[q] = "write" /\ (poll[q] = "timeout" \/ "fail" \in Env)
    /\ pc' = [pc EXCEPT ![q] = "done"]
    /\ pend' = [pend EXCEPT ![q] = NoPend]
    /\ clean' = [clean EXCEPT ![q] = FALSE]
    /\ ThreadExit(runq)
    /\ UNCHANGED <<shared, buffer, header, push, total, skew, sent,
                   intact, waiting, quiet, taken, handed, played, timeouts>>

\* Faulty variant: the slot is not reset.
PassDoneKeepsSlot(q) ==
    /\ running = q
    /\ pc[q] = "send" /\ ~MoreToSend(q)
    /\ pc' = [pc EXCEPT ![q] = "poll"]
    /\ played' = IF clean[q] /\ sent[q] # <<>> THEN Append(played, sent[q][1].head) ELSE played
    /\ Usleep(runq)
    /\ UNCHANGED <<poll, shared, buffer, header, push, pull,
                   intact, waiting, quiet, taken, handed, clean, timeouts>>

\* The loop is over: the slot is reset, st_usleep(0).
PassDone(q) ==
    /\ running = q
    /\ pc[q] = "send" /\ ~MoreToSend(q)
    /\ slot' = [slot EXCEPT ![begin] = NULL]
    /\ pc' = [pc EXCEPT ![q] = "poll"]
    /\ played' = IF clean[q] /\ sent[q] # <<>> THEN Append(played, sent[q][1].head) ELSE played
    /\ Usleep(runq)
    /\ UNCHANGED <<poll, consumers, begin, buffer, header, push, pull,
                   intact, waiting, quiet, taken, handed, clean, timeouts>>

-----------------------------------------------------------------------------
\* What the network can do while the idle thread waits: connections arrive,
\* bytes arrive, sockets drain; a read or write may run into its timeout.
CanBeReady(t) ==
    IF t = Listener THEN \E c \in Client : pc[c] = "absent"
    ELSE t \in Publisher /\ pc[t] \in {"basic", "header", "payload"} =>
            Pending(t) \/ "eof" \in Env

IdleThread ==
    /\ running = Idle
    /\ \E ready \in SUBSET {t \in ToSet(ioq) : CanBeReady(t)} :
       \E late \in SUBSET (ToSet(ioq) \ ({Listener} \cup ready)) :
          /\ IdlePass(ready, late)
          /\ timeouts' = timeouts + Cardinality(late)
          /\ timeouts' <= MaxTimeouts
    /\ UNCHANGED <<pc, shared, buffer, header, push, pull,
                   intact, waiting, quiet, taken, handed, clean, played>>

\* No event and nobody asleep: the idle thread stays in select.
IdleBlock ==
    /\ running = Idle
    /\ sleepq = <<>>
    /\ UNCHANGED vars

Publish(p) ==
    \/ Identify(p) \/ SetDataFrame(p) \/ SetDataFrameFail(p)
    \/ ReadBasicHeader(p) \/ ReadMessageHeader(p) \/ ReadChunk(p)
    \/ ReadWait(p) \/ ReadEof(p)
    \/ ReceiveDone(p) \/ ReceiveFail(p) \/ Clear(p)

Play(q) ==
    \/ IdentifyPull(q) \/ PlaySetup(q) \/ AwaitMetaData(q) \/ OnMetaDataBlock(q) \/ OnMetaData(q)
    \/ PollSlot(q) \/ TakeSlot(q)
    \/ WriteChunk(q) \/ WriteNothing(q) \/ WriteBlock(q) \/ WriteResume(q) \/ WriteFail(q)
    \/ PassDone(q)

Next ==
    \/ IdleThread
    \/ IdleBlock
    \/ AcceptWait
    \/ \E c \in Client : Accept(c) \/ CommandWait(c) \/ CommandEof(c) \/ Spin(c) \/ SessionFail(c)
    \/ \E p \in Publisher : Publish(p)
    \/ \E q \in Player : Play(q)

Spec == Init /\ [][Next]_vars

-----------------------------------------------------------------------------
ControlState ==
    {"absent", "session", "setup", "done",
     "basic", "header", "payload", "handoff", "spin",
     "meta", "metaWrite", "poll", "send", "write"}
Content == Units \cup {NoUnit}
MessageHeader == [len : Int, hl : Int, msg : Nat]
PendingChunk == [alloc : Nat, off : Int, len : 0..1, head : Nat, body : Content]
WireChunk == [head : Nat, body : Content]

SharedType ==
    /\ consumers \subseteq Player
    /\ begin \in consumers \cup {None} /\ (begin = None <=> consumers = {})
    /\ slot \in [Player -> Nat]

BufferType ==
    /\ mem \in [1..MaxUnits -> Content]
    /\ size \in 0..MaxUnits /\ cap \in Nat /\ alloc \in Nat \ {0}

HeaderType ==
    /\ currCsid \in Csid
    /\ csidHeader \in [Csid -> MessageHeader]
    /\ setDataFrame \in BOOLEAN

PushType ==
    /\ next \in [Publisher -> (Nat \ {0}) \X (0..MaxLen + 1)]
    /\ aligned \in [Publisher -> BOOLEAN]
    /\ csid \in [Publisher -> Csid] /\ got \in [Publisher -> Nat]

PullType ==
    /\ total \in [Player -> Nat] /\ skew \in [Player -> BOOLEAN]
    /\ pend \in [Player -> PendingChunk]
    /\ sent \in [Player -> Seq(WireChunk)]

HistType ==
    /\ intact \in [Publisher -> BOOLEAN]
    /\ waiting \subseteq Player /\ taken \subseteq Player
    /\ quiet \in BOOLEAN /\ handed \in Player \cup {None}
    /\ clean \in [Player -> BOOLEAN]
    /\ played \in Seq(Nat)
    /\ timeouts \in Nat

\* Type invariant of the program's state, scheduler included, and of the history.
TypeOK ==
    /\ TypeOKSched
    /\ pc \in [Client -> ControlState]
    /\ SharedType /\ BufferType /\ HeaderType /\ PushType /\ PullType /\ HistType

\* The threads that exist and have not ended.
Live == {t \in Thread : t = Listener \/ pc[t] \notin {"absent", "done"}}

\* A coroutine that exists is at any time in exactly one place: running, in the
\* run queue, asleep or waiting for its socket; one that ended is in none.  No
\* path of process_thread loses its turn or queues a thread twice, and the
\* idle thread runs only when the run queue is empty.
InOnePlace == Apart /\ Live = Known

\* With one publisher: when it wakes from the sleep that follows a hand-off
\* and is about to clear the buffer, some player has begun to send it, if a
\* player was polling at the hand-off and the round was quiet.  Nothing but
\* the order in which st_usleep(0) callers resume stands behind this.
HandoffTaken ==
    \A p \in Publisher :
        Publisher = {p} /\ running = p /\ pc[p] = "handoff" /\ quiet /\ waiting # {}
            => taken # {}

\* Message n of p as it lies in memory, and as its chunks go to a player.
Message(p, n) == [i \in 1..(HeaderLength + Script[p][n].len) |-> Unit(p, n, i - 1)]
Chunks(p, n) ==
    [i \in 1..Script[p][n].len |-> [head |-> IF i = 1 THEN n ELSE 0, body |-> Unit(p, n, i + 1)]]

\* With one publisher whose receives have not failed inside a message: what is
\* handed off is exactly one message, and csid_header[curr_csid] describes it.
HandoffWhole ==
    \A p \in Publisher :
        Publisher = {p} /\ pc[p] = "handoff" /\ intact[p] /\ size > 0 =>
            LET n == next[p][1] - 1 IN
            /\ size = Len(Message(p, n))
            /\ \A i \in 1..size : mem[i] = Message(p, n)[i]
            /\ Header = [len |-> Script[p][n].len, hl |-> HeaderLength, msg |-> n]

\* With one publisher whose receives have not failed inside a message: a pass
\* that took the slot of a hand-off in progress and never blocked has, when its
\* loop ends, put exactly the chunks of the handed-off message on the player's
\* wire.  (An insertion that rehashes consumers may bring an older node to the
\* front, with a pointer into a buffer that has moved: such a pass is not clean.)
CleanPassWhole ==
    \A q \in Player, p \in Publisher :
        Publisher = {p} /\ pc[q] = "send" /\ clean[q] /\ ~MoreToSend(q) /\ intact[p] /\ size > 0
            => sent[q] = Chunks(p, next[p][1] - 1)

\* With one publisher whose receives have not failed inside a message: however
\* many players there are, the clean passes play messages in the order they
\* were published and none of them twice: the slot hands a message to one
\* player, not to each.
PlayedOnceInOrder ==
    \A p \in Publisher : Publisher = {p} /\ intact[p] =>
        \A i, j \in DOMAIN played : i < j => played[i] < played[j]

-----------------------------------------------------------------------------
(* The process executes the running coroutine without pause, and the idle   *)
(* thread wakes sleepers at its next pass: the server's next step is fair.  *)
(* A player that writes nothing over and over is the exception: whether its *)
(* socket ever fills up or fails is the peer's affair.                      *)
Steps == Next /\ ~\E q \in Player : WritesNothing(q)
FairSpec == Spec /\ WF_vars(Steps)

\* No coroutine keeps the processor for ever: the idle thread runs again and
\* again, so that sockets are polled and sleepers woken; unless a player writes
\* nothing over and over.  It takes a pass that is not clean: a player that sends
\* the message it took without waiting gives the processor up.
YieldsCpu == []<>(running = Idle \/ \E q \in Player : WritesNothing(q) /\ ~clean[q])
=============================================================================
