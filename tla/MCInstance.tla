----------------------------- MODULE MCInstance -----------------------------
(***************************************************************************)
(* Instances of InstanceTransactions for TLC.  Path mod is published by    *)
(* every revision with a new content, path opt belongs to an optional      *)
(* component.  Enabling the component downloads opt, disabling it removes  *)
(* it, a new revision replaces mod: every kind of file action occurs.      *)
(***************************************************************************)
EXTENDS InstanceTransactions, TLC

CONSTANTS mod, opt, v1, v2, off, on, vanilla, forge

DesiredDef ==
    [rs \in Revisions \X Selections |->
        [p \in Paths |-> IF p = mod THEN (IF rs[1] = 1 THEN v1 ELSE v2)
                         ELSE IF rs[2] = on THEN v1 ELSE Absent]]

\* every revision keeps the base
SameBase == [r \in Revisions |-> vanilla]

\* the second revision changes the base
NewBase == [r \in Revisions |-> IF r = 1 THEN vanilla ELSE forge]

\* cores are interchangeable
CoreSymmetry == Permutations(Cores)

\* every variable but the auxiliary prior, which no action reads
WithoutPrior ==
    <<files, natives, doc, staging, journal, avail, lock, pc, job, pending>>
=============================================================================
