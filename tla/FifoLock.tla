------------------------------- MODULE FifoLock -------------------------------
(***************************************************************************)
(* What a mutex of State Threads promises: one owner at a time, and a lock *)
(* that is let go passes at once to the thread that has waited longest, so *)
(* that nobody takes it in between and nobody is overtaken.                *)
(***************************************************************************)
EXTENDS Naturals

CONSTANTS
    Thread,   \* the coroutines
    None      \* no owner

VARIABLES
    owner,    \* the thread that has the lock
    waiting,  \* the threads that wait for it
    before    \* the pairs of them of which the first came before the second

Init == owner = None /\ waiting = {} /\ before = {}

Take(t) ==
    /\ owner = None
    /\ owner' = t
    /\ UNCHANGED <<waiting, before>>

Enqueue(t) ==
    /\ owner \notin {None, t}
    /\ t \notin waiting
    /\ waiting' = waiting \cup {t}
    /\ before' = before \cup (waiting \X {t})
    /\ UNCHANGED owner

Leave(t) ==
    /\ waiting' = waiting \ {t}
    /\ before' = {e \in before : e[1] # t /\ e[2] # t}

\* The lock passes to the thread that came before all others that wait.
LetGo ==
    /\ owner # None
    /\ \/ waiting = {} /\ owner' = None /\ UNCHANGED <<waiting, before>>
       \/ \E t \in waiting :
             /\ \A u \in waiting \ {t} : <<t, u>> \in before
             /\ owner' = t
             /\ Leave(t)

\* A waiting thread is interrupted.
GiveUp(t) ==
    /\ t \in waiting
    /\ Leave(t)
    /\ UNCHANGED owner

Next == LetGo \/ \E t \in Thread : Take(t) \/ Enqueue(t) \/ GiveUp(t)

Spec == Init /\ [][Next]_<<owner, waiting, before>>
===============================================================================
