------------------------------- MODULE SocketIo -------------------------------
(***************************************************************************)
(* A connection's socket: what is read from it (IoSocket) and what is      *)
(* written to it (StWritev).  The two share no state.                      *)
(***************************************************************************)
EXTENDS IoSocket

CONSTANTS VecLens, MaxVecs, MaxBytes, LocalMaxIov

VARIABLES wire, lost, issued, iov, tmp_iov, own, room, nleft, heap, w_pc, w_ret

wvars == <<wire, lost, issued, iov, tmp_iov, own, room, nleft, heap, w_pc, w_ret>>

W == INSTANCE StWritev WITH pc <- w_pc, ret <- w_ret

ASSUME WritevSizes == W!WritevAssumption

\* StWritev: what a coroutine writes arrives in order, and whole unless a call returns
\* -1; and the copied vectors have room and are freed.
WritesWhole == W!WritesWhole
===============================================================================
