---------------------------- MODULE ResourceLock ----------------------------
(***************************************************************************)
(* What the lock module promises for one resource: a lock that any number  *)
(* of shared guards, or one exclusive guard, hold at a time, that is taken *)
(* and given back in one step, and that a dying process gives back too.    *)
(***************************************************************************)
CONSTANT Tasks

VARIABLES
    shared,      \* tasks holding a shared guard
    exclusive    \* tasks holding an exclusive guard

vars == <<shared, exclusive>>

Init == shared = {} /\ exclusive = {}

AcquireShared(t) ==
    /\ exclusive = {}
    /\ shared' = shared \cup {t}
    /\ UNCHANGED exclusive

AcquireExclusive(t) ==
    /\ shared = {} /\ exclusive = {}
    /\ exclusive' = {t}
    /\ UNCHANGED shared

\* one guard is dropped, or all guards of a process that dies
Release(gone) ==
    /\ shared' = shared \ gone
    /\ exclusive' = exclusive \ gone

Next ==
    \/ \E t \in Tasks : AcquireShared(t) \/ AcquireExclusive(t)
    \/ \E gone \in SUBSET Tasks : Release(gone)

Spec == Init /\ [][Next]_vars
=============================================================================
