--------------------------- MODULE MCLockManager ---------------------------
(***************************************************************************)
(* Two CentralCore values: a with two tasks, b with one.  Enough for every *)
(* pair the lock arbitrates: same manager, different manager, and a third  *)
(* task that waits for both.                                               *)
(***************************************************************************)
EXTENDS LockManager

CONSTANTS a, b, a1, a2, b1

ManagerOfDef == [t \in Tasks |-> IF t = b1 THEN b ELSE a]
=============================================================================
