----------------------------- MODULE MCProcess -----------------------------
(***************************************************************************)
(* Two managers on one instance: a, with two calls in progress, and b.     *)
(***************************************************************************)
EXTENDS ProcessManager

CONSTANTS a, b, a1, a2, b1

ManagerOfDef == [t \in Tasks |-> IF t = b1 THEN b ELSE a]
=============================================================================
