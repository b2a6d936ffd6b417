------------------------------ MODULE IoSocket ------------------------------
(***************************************************************************)
(* IO_Socket: the three ways of reading a given number of bytes from a     *)
(* client's socket, on top of st_read_fully of the State Threads library,  *)
(* with the peer sending, pausing and closing in between.  read_nbytes and *)
(* read_nbytes_cycle fill IO_Buffer; their _av twins fill the global       *)
(* audio_video_buffer and have the same bodies.                            *)
(*                                                                         *)
(* A byte is its position in the peer's stream.                            *)
(***************************************************************************)
EXTENDS Integers, Sequences

CONSTANTS
    StreamLen,   \* bound: bytes the peer sends
    MaxRequest   \* bound: the nbytes argument

ASSUME SocketAssumption ==
    StreamLen \in Nat /\ MaxRequest \in Nat

VARIABLES
    peer,    \* "open", "closed" or "reset"
    queued,  \* bytes in the socket's receive queue
    taken,   \* bytes read(2) has returned so far
    buffer,  \* the bytes of IO_Buffer
    fn,      \* "once" for read_nbytes, "cycle" for read_nbytes_cycle
    want,    \* the local nbytes, after the bytes in the buffer are deducted
    local,   \* the bytes in the local array
    pc,      \* "idle", "read" (before read(2)), "poll", "loop"
    ret,     \* what the last call returned: "ok" for 0, "error" for -1
    goal,    \* history: the size the buffer is to have after the call
    gap      \* history: a failed call dropped bytes after the last clear

vars == <<peer, queued, taken, buffer, fn, want, local, pc, ret, goal, gap>>
network == <<peer, queued, taken>>

Init ==
    /\ peer = "open" /\ queued = 0 /\ taken = 0
    /\ buffer = <<>> /\ fn = "once" /\ want = 0 /\ local = <<>>
    /\ pc = "idle" /\ ret = "ok" /\ goal = 0 /\ gap = FALSE

-----------------------------------------------------------------------------
PeerSend ==
    /\ peer = "open" /\ taken + queued < StreamLen
    /\ queued' = queued + 1
    /\ UNCHANGED <<peer, taken, buffer, fn, want, local, pc, ret, goal, gap>>

PeerClose ==
    /\ peer = "open"
    /\ peer' \in {"closed", "reset"}
    /\ UNCHANGED <<queued, taken, buffer, fn, want, local, pc, ret, goal, gap>>

-----------------------------------------------------------------------------
\* Faulty variant: the bytes already in the buffer are not deducted.
CallUndeducted(f, n) ==
    /\ pc = "idle" /\ n > Len(buffer)
    /\ fn' = f /\ want' = n
    /\ local' = <<>> /\ goal' = n /\ pc' = "read"
    /\ UNCHANGED <<network, buffer, ret, gap>>

\* A call that has to read.
Call(f, n) ==
    /\ pc = "idle" /\ n > Len(buffer)
    /\ fn' = f /\ want' = n - Len(buffer)
    /\ local' = <<>> /\ goal' = n /\ pc' = "read"
    /\ UNCHANGED <<network, buffer, ret, gap>>

\* A call the buffer satisfies: nothing is read, *nread is left alone.
CallSatisfied(n) ==
    /\ pc = "idle" /\ n <= Len(buffer)
    /\ ret' = "ok" /\ goal' = Len(buffer)
    /\ UNCHANGED <<network, buffer, fn, want, local, pc, gap>>

\* ~IO_Message: the message is done with, the buffer is emptied.
ClearBuffer ==
    /\ pc = "idle" /\ buffer # <<>>
    /\ buffer' = <<>> /\ goal' = 0 /\ gap' = FALSE
    /\ UNCHANGED <<network, fn, want, local, pc, ret>>

\* The call returns -1: the local array goes out of scope.
Fail ==
    /\ ret' = "error" /\ pc' = "idle" /\ local' = <<>>
    /\ gap' = (gap \/ local # <<>>)
    /\ UNCHANGED <<network, buffer, fn, want, goal>>

\* Faulty variant: nbytes is asked for again, not nbytes - *nread.
ReadSomeUncounted(k) ==
    /\ pc = "read" /\ peer # "reset"
    /\ k <= queued /\ k <= want
    /\ queued' = queued - k /\ taken' = taken + k
    /\ LET got == local \o [i \in 1..k |-> taken + i]
       IN IF Len(got) = want
          THEN buffer' = buffer \o got /\ local' = <<>> /\ ret' = "ok" /\ pc' = "idle"
          ELSE local' = got /\ pc' = "poll" /\ UNCHANGED <<buffer, ret>>
    /\ UNCHANGED <<peer, fn, want, goal, gap>>

\* read(2) returns k bytes.  When they complete the request the call appends
\* the array to the buffer and returns 0; otherwise st_read_fully polls.
ReadSome(k) ==
    /\ pc = "read" /\ peer # "reset"
    /\ k <= queued /\ k <= want - Len(local)
    /\ queued' = queued - k /\ taken' = taken + k
    /\ LET got == local \o [i \in 1..k |-> taken + i]
       IN IF Len(got) = want
          THEN buffer' = buffer \o got /\ local' = <<>> /\ ret' = "ok" /\ pc' = "idle"
          ELSE local' = got /\ pc' = "poll" /\ UNCHANGED <<buffer, ret>>
    /\ UNCHANGED <<peer, fn, want, goal, gap>>

\* read(2) would block.
ReadBlocked ==
    /\ pc = "read" /\ queued = 0 /\ peer = "open"
    /\ pc' = "poll"
    /\ UNCHANGED <<network, buffer, fn, want, local, ret, goal, gap>>

\* read(2) returns 0 and st_read_fully the bytes it has: read_nbytes gives up,
\* read_nbytes_cycle takes the short count for progress.
ReadClosed ==
    /\ pc = "read" /\ queued = 0 /\ peer = "closed"
    /\ \/ fn = "once" /\ Fail
       \/ /\ fn = "cycle" /\ pc' = "loop"
          /\ UNCHANGED <<network, buffer, fn, want, local, ret, goal, gap>>

\* read(2) fails.
ReadError ==
    /\ pc = "read" /\ peer = "reset"
    /\ Fail

\* Faulty variant: the next turn asks for all the bytes again.
LoopAll ==
    /\ pc = "loop" /\ pc' = "read" /\ local' = <<>>
    /\ UNCHANGED <<network, buffer, fn, want, ret, goal, gap>>

\* while (*nread < nbytes): st_read_fully once more, for the rest.
Loop ==
    /\ pc = "loop" /\ pc' = "read"
    /\ UNCHANGED <<network, buffer, fn, want, local, ret, goal, gap>>

\* st_netfd_poll: an event, or the inactivity timeout of five seconds.
PollReady ==
    /\ pc = "poll" /\ (queued > 0 \/ peer # "open")
    /\ pc' = "read"
    /\ UNCHANGED <<network, buffer, fn, want, local, ret, goal, gap>>

\* Faulty variant: the timeout is taken for a reason to try again.
PollAgain ==
    /\ pc = "poll" /\ queued = 0 /\ peer = "open"
    /\ pc' = "read"
    /\ UNCHANGED <<network, buffer, fn, want, local, ret, goal, gap>>

PollTimeout ==
    /\ pc = "poll" /\ queued = 0 /\ peer = "open"
    /\ Fail

Step ==
    \/ \E k \in 1..MaxRequest : ReadSome(k)
    \/ ReadBlocked \/ ReadClosed \/ ReadError \/ Loop \/ PollReady \/ PollTimeout

Next ==
    \/ PeerSend \/ PeerClose
    \/ \E f \in {"once", "cycle"}, n \in 1..MaxRequest : Call(f, n)
    \/ \E n \in 1..MaxRequest : CallSatisfied(n)
    \/ ClearBuffer
    \/ Step

Spec == Init /\ [][Next]_vars

\* The reading coroutine goes on while it can and its timer fires.
FairSpec == Spec /\ WF_vars(Step)

-----------------------------------------------------------------------------
\* Type invariant of the socket, the buffer and the call in progress; the local
\* array char buffer[nbytes] is never overrun.
TypeOK ==
    /\ peer \in {"open", "closed", "reset"} /\ queued \in Nat /\ taken \in Nat
    /\ buffer \in Seq(Nat) /\ local \in Seq(Nat) /\ Len(local) <= want
    /\ fn \in {"once", "cycle"} /\ want \in 0..MaxRequest
    /\ pc \in {"idle", "read", "poll", "loop"} /\ ret \in {"ok", "error"}
    /\ goal \in Nat /\ gap \in BOOLEAN

Held == buffer \o local

\* The bytes of h are the last Len(h) of the first n bytes of the stream.
EndsAt(h, n) == \A i \in DOMAIN h : h[i] = n - Len(h) + i

\* The buffer followed by the local array is an unbroken piece of the peer's
\* stream that ends where the socket was last read, as long as no call failed
\* with bytes in hand: no byte is skipped, repeated or reordered by partial
\* reads, short counts and calls that find some bytes in the buffer.
Gapless ==
    ~gap => EndsAt(Held, taken)

\* A call never takes more from the socket than asked for, so the header of the
\* next message stays there; and after a call that returned 0 the buffer has
\* exactly the bytes asked for.
ReadsExactly ==
    /\ pc # "idle" => Len(Held) < goal /\ Len(buffer) + want = goal
    /\ pc = "idle" /\ ret = "ok" /\ goal > 0 => Len(buffer) = goal

\* Every read returns: with the bytes, at a reset or by the timeout.  Only
\* read_nbytes does when the peer closes.
ReadsReturn == (pc # "idle") ~> (pc = "idle" \/ (fn = "cycle" /\ peer = "closed"))

\* The manual of st_read_fully: a value less than nbyte means the connection is
\* closed.  A read that is under way when the peer closes ends.
CloseEndsRead == (pc # "idle" /\ peer = "closed") ~> (pc = "idle")
=============================================================================
