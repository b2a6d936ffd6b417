-------------------------------- MODULE Timers --------------------------------
(***************************************************************************)
(* What the scheduler of State Threads needs from its timeout queue: a set *)
(* of armed threads, each with the time it is due at, from which a look at *)
(* the clock takes every thread that is due, the earliest first.           *)
(***************************************************************************)
EXTENDS Naturals, Sequences, FiniteSets

CONSTANTS
    Thread,   \* the coroutines
    Timeout,  \* the timeouts they sleep or wait with
    Time      \* what the clock can show

VARIABLES
    pending,  \* the due time of every armed thread
    clock,    \* the time of the last look at the clock
    woken     \* the threads the last step's look made runnable, in order

timers == <<pending, clock, woken>>

Armed == DOMAIN pending

Init ==
    /\ pending = [t \in {} |-> 0]
    /\ clock = 0
    /\ woken = <<>>

Arm(t, d) ==
    /\ t \notin Armed
    /\ pending' = [u \in Armed \cup {t} |-> IF u = t THEN clock + d ELSE pending[u]]
    /\ woken' = <<>>
    /\ UNCHANGED clock

Cancel(t) ==
    /\ t \in Armed
    /\ pending' = [u \in Armed \ {t} |-> pending[u]]
    /\ woken' = <<>>
    /\ UNCHANGED clock

\* Exactly the threads that are due leave, in the order of their due times.
Expire(now) ==
    LET late == {t \in Armed : pending[t] <= now} IN
    /\ clock' = now
    /\ pending' = [t \in Armed \ late |-> pending[t]]
    /\ Len(woken') = Cardinality(late)
    /\ {woken'[i] : i \in DOMAIN woken'} = late
    /\ \A i, j \in DOMAIN woken' : i < j => pending[woken'[i]] <= pending[woken'[j]]

Next ==
    \/ \E t \in Thread : Cancel(t) \/ \E d \in Timeout : Arm(t, d)
    \/ \E now \in Time : Expire(now)

Spec == Init /\ [][Next]_timers
===============================================================================
