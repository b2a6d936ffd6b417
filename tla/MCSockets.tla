------------------------------- MODULE MCSockets -------------------------------
(* What the server does with its descriptors, for TLC: a behaviour is one of *)
(* a connection that is read (IoSocket), one that is written (StWritev) and  *)
(* the listening socket (Acceptor).  The three share no state.               *)
EXTENDS SocketIo

CONSTANTS Conn, Backlog, Rlimit, SetSize, Accepting, Main, Idle

VARIABLES
    part,  \* which of "read", "write" and "accept" the behaviour is about
    running, runq, acc, queue, open, netfd, freelist, listener, clients, thread, met

A == INSTANCE Acceptor

avars == <<running, runq, acc, queue, open, netfd, freelist, listener, clients, thread, met>>

ASSUME A!AcceptorAssumption

Parts == part \in {"read", "write", "accept"} /\ Init /\ W!Init /\ A!Init

Reads == part = "read" /\ Next /\ UNCHANGED <<part, wvars, avars>>
Writes == part = "write" /\ W!Next /\ UNCHANGED <<part, vars, avars>>
Accepts == part = "accept" /\ A!Next /\ UNCHANGED <<part, vars, wvars>>

Sockets ==
    /\ Parts
    /\ [][Reads \/ Writes \/ Accepts]_<<part, vars, wvars, avars>>
    /\ WF_vars(Step)
    /\ WF_wvars(W!PollReady) /\ SF_wvars(W!Writes)
    /\ WF_avars(part = "accept" /\ A!Server)

-----------------------------------------------------------------------------
\* StWritev: with a peer that goes on reading every write returns.
CallReturns == W!CallReturns

\* Acceptor: below the descriptor limit the accept loop lets every client go on
\* and accepts every connection.
Served == A!Served
================================================================================
