---------------------------- MODULE MCDialogue ----------------------------
(* Instances of Dialogue for TLC. *)
EXTENDS Dialogue

CONSTANTS p1, p2, q1, q2

\* An @setDataFrame after which the first onMetaData is 395 bytes long.
FullMeta == << <<5, Str(300)>>, <<20, Num>> >>
=============================================================================
