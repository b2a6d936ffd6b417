---------------------------- MODULE MCEventSystems ----------------------------
(* st_poll on each of the event systems, for TLC.                           *)
EXTENDS EventSystems, TLC

Threads == Permutations(Thread)

Pd(f, e) == [fd |-> f, events |-> e]

\* A read, and a wait on two descriptors with one of them twice.
Requests ==
    {<<Pd(1, {"in"})>>, <<Pd(1, {"in"}), Pd(2, {"out"}), Pd(1, {"in", "out"})>>}
===============================================================================
