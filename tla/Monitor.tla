------------------------------ MODULE Monitor ------------------------------
(***************************************************************************)
(* What kern/include/synch.h promises: P and V are atomic operations on a  *)
(* count, a lock has one owner, and cv_wait gives up the lock and starts   *)
(* to wait in one atomic step, so that a signal by the next owner of the   *)
(* lock finds the waiter.                                                  *)
(***************************************************************************)
EXTENDS Naturals

CONSTANTS Threads, Nobody

VARIABLES count, owner, waiting

vars == <<count, owner, waiting>>

Init == count = 0 /\ owner = Nobody /\ waiting = {}

Proberen == count > 0 /\ count' = count - 1 /\ UNCHANGED <<owner, waiting>>
Verhogen == count' = count + 1 /\ UNCHANGED <<owner, waiting>>

Acquire(t) == owner = Nobody /\ owner' = t /\ UNCHANGED <<count, waiting>>
Release(t) == owner = t /\ owner' = Nobody /\ UNCHANGED <<count, waiting>>

Wait(t) ==
    /\ owner = t
    /\ owner' = Nobody
    /\ waiting' = waiting \cup {t}
    /\ UNCHANGED count

Signal(t) ==
    /\ owner = t
    /\ waiting # {}
    /\ \E w \in waiting : waiting' = waiting \ {w}
    /\ UNCHANGED <<count, owner>>

Broadcast(t) == owner = t /\ waiting' = {} /\ UNCHANGED <<count, owner>>

Next ==
    \/ Proberen
    \/ Verhogen
    \/ \E t \in Threads : Acquire(t) \/ Release(t) \/ Wait(t) \/ Signal(t) \/ Broadcast(t)

Spec == Init /\ [][Next]_vars

=============================================================================
