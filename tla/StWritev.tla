-------------------------------- MODULE StWritev --------------------------------
(***************************************************************************)
(* IO_Socket::write and IO_Socket::writev (io_socket.cpp) on st_write and  *)
(* st_writev of the State Threads library (3rdpart/st-1.9/io.c): a         *)
(* coroutine sends messages to its client, each a few vectors long, and    *)
(* the socket takes any part of what it is given.  A byte is its position  *)
(* in the stream of bytes the coroutine means to send; a vector is where   *)
(* it starts and how long it is.                                           *)
(***************************************************************************)
EXTENDS Integers, Sequences

CONSTANTS
    VecLens,    \* bound: the lengths a vector may have
    MaxVecs,    \* bound: the vectors of a call
    MaxBytes,   \* bound: the bytes sent in all calls
    LocalMaxIov \* _LOCAL_MAXIOV

WritevAssumption ==
    VecLens \subseteq Nat /\ MaxVecs \in Nat /\ MaxBytes \in Nat /\ LocalMaxIov \in Nat

VARIABLES
    wire,    \* the bytes the socket has taken
    lost,    \* history: the bytes that calls which failed left untaken
    issued,  \* how many bytes the calls so far were about
    pc,      \* "idle", or inside the call: "writev", "poll", "write", "writepoll"
    iov,     \* the caller's vectors
    tmp_iov, \* the vectors still to be written, as st_writev keeps them
    own,     \* the array tmp_iov points to: "caller", "local" or "heap"
    room,    \* how many vectors that array has room for
    nleft,   \* st_writev's nleft, and the iov_len of st_write_resid
    ret,     \* what the last call returned: -1, or the count
    heap     \* arrays allocated and not freed

vars == <<wire, lost, issued, pc, iov, tmp_iov, own, room, nleft, ret, heap>>

Vector == [base : 0..MaxBytes, len : 0..MaxBytes]

\* The bytes in the first k vectors of v, and the first n bytes of v.
Sums(v) == LET sum[i \in 0..Len(v)] == IF i = 0 THEN 0 ELSE sum[i - 1] + v[i].len IN sum
Upto(v, k) == Sums(v)[k]
Total(v) == Upto(v, Len(v))
Gather(v, n) ==
    LET vec(j) == CHOOSE i \in 1..Len(v) : Upto(v, i - 1) < j /\ j <= Upto(v, i)
    IN  [j \in 1..n |-> v[vec(j)].base + j - Upto(v, vec(j) - 1)]

\* Type invariant; no more is left to write than was asked for.
TypeOK ==
    /\ wire \in Seq(1..MaxBytes)
    /\ issued \in 0..MaxBytes /\ lost \subseteq 1..MaxBytes
    /\ pc \in {"idle", "writev", "poll", "write", "writepoll"}
    /\ iov \in Seq(Vector) /\ tmp_iov \in Seq(Vector)
    /\ own \in {"caller", "local", "heap"} /\ room \in Nat
    /\ nleft \in 0..MaxBytes
    /\ ret \in -1..MaxBytes
    /\ heap \in Nat

Init ==
    /\ wire = <<>> /\ lost = {} /\ issued = 0 /\ pc = "idle" /\ iov = <<>> /\ tmp_iov = <<>>
    /\ own = "caller" /\ room = 0 /\ nleft = 0 /\ ret = 0 /\ heap = 0

-----------------------------------------------------------------------------
\* The loop of st_writev goes on with cnt vectors: the last one is st_write's.
Again(cnt) == pc' = IF cnt = 1 THEN "write" ELSE "writev"

\* The end of st_writev with left bytes not written: an array of its own is freed.
Return(n, left) ==
    /\ ret' = n
    /\ lost' = lost \cup (issued - left + 1)..issued
    /\ pc' = "idle"
    /\ heap' = IF own = "heap" THEN heap - 1 ELSE heap

\* IO_Socket::writev -> st_writev, or IO_Socket::write -> st_write when there
\* is a single vector.  The callers do not look at what the last call returned:
\* process_thread goes on writing after an error.
Call(vecs) ==
    LET v == [i \in 1..Len(vecs) |-> [base |-> issued + Upto(vecs, i - 1), len |-> vecs[i].len]]
    IN  /\ pc = "idle"
        /\ issued + Total(v) <= MaxBytes
        /\ issued' = issued + Total(v)
        /\ iov' = v /\ tmp_iov' = v /\ own' = "caller" /\ room' = Len(v)
        /\ nleft' = Total(v)
        /\ IF Total(v) = 0
           THEN ret' = 0 /\ pc' = "idle"
           ELSE Again(Len(v)) /\ ret' = ret
        /\ UNCHANGED <<wire, lost, heap>>

\* Faulty variant: the part already written of the first vector is not skipped.
RecutWhole(sent) ==
    LET index == CHOOSE i \in 1..Len(iov) :
                    /\ Upto(iov, i - 1) <= sent
                    /\ sent < Upto(iov, i)
    IN  SubSeq(iov, index, Len(iov))

\* The vectors left after sent of the caller's bytes are written: the first
\* one that is not finished, less what it has sent, and those after it.
Recut(sent) ==
    LET index == CHOOSE i \in 1..Len(iov) :
                    /\ Upto(iov, i - 1) <= sent
                    /\ sent < Upto(iov, i)
        n == sent - Upto(iov, index - 1)
    IN  <<[base |-> iov[index].base + n, len |-> iov[index].len - n]>>
            \o SubSeq(iov, index + 1, Len(iov))

\* Where the vectors v are copied to, the first time.
Array(v) ==
    IF Len(v) <= LocalMaxIov THEN [own |-> "local", room |-> LocalMaxIov]
    ELSE [own |-> "heap", room |-> Len(v)]

\* writev(2) takes n bytes.
WritevSome(n) ==
    LET v == Recut(Total(iov) - (nleft - n)) IN
    /\ pc = "writev" /\ n <= nleft
    /\ wire' = wire \o Gather(tmp_iov, n)
    /\ IF n = nleft THEN Return(Total(iov), 0) /\ UNCHANGED <<tmp_iov, own, room, nleft>>
       ELSE /\ nleft' = nleft - n
            /\ tmp_iov' = v
            /\ IF own = "caller"
               THEN /\ own' = Array(v).own /\ room' = Array(v).room
                    /\ heap' = IF Array(v).own = "heap" THEN heap + 1 ELSE heap
               ELSE UNCHANGED <<own, room, heap>>
            /\ pc' = "poll"
            /\ UNCHANGED <<ret, lost>>
    /\ UNCHANGED <<issued, iov>>

\* The allocation of the copy fails after writev(2) took n bytes.
WritevNoMemory(n) ==
    /\ pc = "writev" /\ n < nleft /\ own = "caller"
    /\ Array(Recut(Total(iov) - (nleft - n))).own = "heap"
    /\ wire' = wire \o Gather(tmp_iov, n)
    /\ nleft' = nleft - n
    /\ Return(-1, nleft - n)
    /\ UNCHANGED <<issued, iov, tmp_iov, own, room>>

\* write(2) takes n bytes of the last vector.
WriteSome(n) ==
    /\ pc = "write" /\ n <= nleft
    /\ wire' = wire \o [j \in 1..n |-> tmp_iov[1].base + j]
    /\ IF n = nleft THEN Return(Total(iov), 0) /\ UNCHANGED <<tmp_iov, nleft>>
       ELSE /\ tmp_iov' = <<[base |-> tmp_iov[1].base + n, len |-> tmp_iov[1].len - n]>>
            /\ nleft' = nleft - n
            /\ pc' = "writepoll"
            /\ UNCHANGED <<ret, lost, heap>>
    /\ UNCHANGED <<issued, iov, own, room>>

\* The socket's buffer is full: EAGAIN.  (EINTR repeats the call at once.)
NotReady ==
    /\ pc \in {"writev", "write"}
    /\ pc' = IF pc = "writev" THEN "poll" ELSE "writepoll"
    /\ UNCHANGED <<wire, lost, issued, iov, tmp_iov, own, room, nleft, ret, heap>>

\* Faulty variant: st_write does not try again after its wait.
PollReadyVectors ==
    /\ pc = "poll"
    /\ Again(Len(tmp_iov))
    /\ UNCHANGED <<wire, lost, issued, iov, tmp_iov, own, room, nleft, ret, heap>>

\* st_netfd_poll returns: the socket is writable.
PollReady ==
    /\ pc \in {"poll", "writepoll"}
    /\ Again(IF pc = "writepoll" THEN 1 ELSE Len(tmp_iov))
    /\ UNCHANGED <<wire, lost, issued, iov, tmp_iov, own, room, nleft, ret, heap>>

\* Any other error of the write, and a timeout or an interrupt of the poll.
Fails ==
    /\ pc # "idle"
    /\ Return(-1, nleft)
    /\ UNCHANGED <<wire, issued, iov, tmp_iov, own, room, nleft>>

Writes == \E n \in 1..MaxBytes : WritevSome(n) \/ WriteSome(n)

Next ==
    \/ \E k \in 1..MaxVecs : \E vecs \in [1..k -> [len : VecLens]] : Call(vecs)
    \/ Writes \/ NotReady \/ PollReady \/ Fails
    \/ \E n \in 1..MaxBytes : WritevNoMemory(n)

Spec == Init /\ [][Next]_vars

\* The peer goes on reading, so that the socket takes bytes again and again.
FairSpec == Spec /\ WF_vars(PollReady) /\ SF_vars(Writes)

-----------------------------------------------------------------------------
\* The bytes up to which the calls are done.
Done == IF pc = "idle" THEN issued ELSE issued - nleft

\* What the client has received so far is what the coroutine meant to send, in
\* order and nothing twice, wherever the socket stopped taking bytes; all that is
\* missing is the end of what a call that failed was about.
WireInOrder ==
    /\ \A i \in 1..Len(wire) : \A j \in 1..(i - 1) : wire[j] < wire[i]
    /\ {wire[i] : i \in 1..Len(wire)} = 1..Done \ lost

\* A call returns its count when the socket has taken all of it and -1 when some
\* of it is lost; the callers compute where to go on from that count.
CountExact ==
    pc = "idle" =>
      /\ (ret = -1) = (lost \cap (issued - Total(iov) + 1)..issued # {})
      /\ ret # -1 => ret = Total(iov)

\* The copied vectors fit into the array they are copied to.
CopyFits == Len(tmp_iov) <= room

\* No array is left allocated after a call, and at most one during it.
NoLeak == heap = IF pc # "idle" /\ own = "heap" THEN 1 ELSE 0

\* A peer that goes on reading gets every call to return.
CallReturns == pc # "idle" ~> pc = "idle"

\* What a call is given arrives whole unless it returns -1: st_writev gives the
\* socket what it was called with, in order, returns its count exactly if it gave
\* all of it, and its copy of the vectors has room and is freed.  After an error the
\* rest of that call is missing from the stream, and nothing else is, however the
\* coroutine goes on.
WritesWhole == TypeOK /\ WireInOrder /\ CountExact /\ CopyFits /\ NoLeak
=================================================================================
