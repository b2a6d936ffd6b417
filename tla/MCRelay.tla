------------------------------ MODULE MCRelay ------------------------------
(* Instances of Relay for TLC: one publisher and one or two players.  The   *)
(* publisher sends a message of one chunk and one of two, on different      *)
(* chunk streams.                                                           *)
EXTENDS Relay, TLC

CONSTANTS p1, q1, q2, L

MCThread1 == {L, p1, q1}
MCThread == {L, p1, q1, q2}

MCScript == (p1 :> <<[csid |-> 4, len |-> 1], [csid |-> 6, len |-> 2]>>)
=============================================================================
