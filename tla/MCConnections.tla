----------------------------- MODULE MCConnections -----------------------------
(* The server and its connections, for TLC: a behaviour is one of the start    *)
(* and the accept loop (Acceptor), or of the dialogues of a pair of clients    *)
(* (Dialogue): a publisher and a player whose threads may fail, and a          *)
(* publisher that announces a chunk size of its own beside another publisher,  *)
(* or beside a player, without failures.  The parts share no state.            *)
EXTENDS Acceptor

CONSTANTS p1, p2, q1, NameLens, MaxFailures

VARIABLES
    part,  \* "accept", or the pair the behaviour is about
    at, branch, chunkSize, frame, csidLen, outOfStep, toServer, toPeer, name, peerIn,
    peerOut, lastLen, closed, spinning, garbled, failures, mismatch

dvars == <<at, branch, chunkSize, frame, csidLen, outOfStep, toServer, toPeer, name, peerIn,
           peerOut, lastLen, closed, spinning, garbled, failures, mismatch>>

Z == INSTANCE Amf0Sizes

\* An @setDataFrame after which the first onMetaData is 395 bytes long.
FullMeta == << <<5, Z!Str(300)>>, <<20, Z!Num>> >>

D == INSTANCE Dialogue WITH
        Publisher <- {p1}, Player <- {q1}, Announcer <- {}, MetaObject <- FullMeta,
        MayFail <- TRUE, MaySpin <- FALSE
P == INSTANCE Dialogue WITH
        Publisher <- {p1, p2}, Player <- {}, Announcer <- {p2}, MetaObject <- FullMeta,
        NameLens <- {6}, MayFail <- FALSE, MaySpin <- FALSE
Q == INSTANCE Dialogue WITH
        Publisher <- {p2}, Player <- {q1}, Announcer <- {p2}, MetaObject <- FullMeta,
        NameLens <- {6}, MayFail <- FALSE, MaySpin <- FALSE

ASSUME AcceptorAssumption

Accepts == part = "accept" /\ Next /\ UNCHANGED <<part, dvars>>
Both == part = "both" /\ D!Next /\ UNCHANGED <<part, vars>>
Publishers == part = "publishers" /\ P!Next /\ UNCHANGED <<part, vars>>
Players == part = "player" /\ Q!Next /\ UNCHANGED <<part, vars>>

Parts ==
    /\ Init
    /\ \/ part = "accept" /\ Q!Init
       \/ part = "both" /\ D!Init
       \/ part = "publishers" /\ P!Init
       \/ part = "player" /\ Q!Init

Connections == Parts /\ [][Accepts \/ Both \/ Publishers \/ Players]_<<part, vars, dvars>>

-----------------------------------------------------------------------------
\* Dialogue's InStep, and its types: handlers meet the messages they are for, a
\* client is taken for what it is, and a publisher that announces its chunk size,
\* and is taken for a player, leaves the other client in step.
StaysInStep ==
    CASE part = "both" -> D!TypeOK /\ D!InStep
      [] part = "publishers" -> P!TypeOK /\ P!InStep
      [] OTHER -> Q!TypeOK /\ Q!InStep

\* Dialogue's Understood: the peers can take every message of the server off
\* their streams, onMetaData excepted.
StaysUnderstood ==
    CASE part = "both" -> D!Understood
      [] part = "publishers" -> P!Understood
      [] OTHER -> Q!Understood
================================================================================
