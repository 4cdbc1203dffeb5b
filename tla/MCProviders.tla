---------------------------- MODULE MCProviders ----------------------------
(***************************************************************************)
(* Bounded instances of ProviderSync: an index of revision 1, two of       *)
(* revision 2 that differ, a manifest that changes with the revision, the  *)
(* second index signed with both keys as in a rotation.                    *)
(***************************************************************************)
EXTENDS ProviderSync, TLC

CONSTANTS c1, c2, p1, p2, inst, k1, k2

Doc(rev, sha) == [rev |-> rev, sha |-> sha]
TheDocuments == {Doc(1, 1), Doc(2, 2)}
TheIndex(rev, sha, doc) == [rev |-> rev, sha |-> sha, refs |-> (inst :> doc)]
TheIndexes == {TheIndex(1, 1, Doc(1, 1)), TheIndex(2, 2, Doc(2, 2)),
               TheIndex(2, 3, Doc(1, 1))}
Signed(k, sha) == [signer |-> k, sha |-> sha]
TheEnvelopes == {Signed(k1, 1), Signed(k1, 2), Signed(k2, 2), Signed(k1, 3)}
Rotation == [provider |-> p1, from |-> k1, to |-> k2, validFrom |-> 2]
TheTransitions == {Rotation}

Trusts(s1, s2, transitions) == [keys |-> (k1 :> s1 @@ k2 :> s2), transitions |-> transitions]
TheTrust == {Trusts("trusted", "unknown", {}), Trusts("trusted", "trusted", {Rotation})}

Reg(policy, local) == [policy |-> policy, key |-> k1, local |-> local]
One(policy, local) == [id \in Provider |-> IF id = p1 THEN Reg(policy, local) ELSE None]
Remote(policy) == One(policy, FALSE)
Both == [id \in Provider |-> Reg("required", FALSE)]
TheRegistry == {Remote("required"), Remote("optional"), One("required", TRUE), Both}

Budget(syncs, overrides, kills, trusts, registries, faults) ==
    [sync |-> syncs, override |-> overrides, kill |-> kills, trust |-> trusts,
     registry |-> registries, fault |-> faults]

Overrides == Budget(3, 1, 0, 0, 0, 0)
Failures == Budget(2, 0, 1, 0, 0, 1)
Decisions == Budget(2, 0, 0, 1, 0, 0)
Deciders == Budget(0, 0, 1, 2, 0, 0)
Registries == Budget(2, 0, 0, 0, 1, 0)
Parallel == Budget(2, 0, 1, 0, 0, 0)
PassBudgets == {Overrides, Failures, Decisions, Registries, Parallel, Deciders}

\* Few of the initial states: two providers where they synchronize in parallel, the rotation
\* and the optional policy where trust changes.
FewStarts ==
    /\ (file["registry"].dest = Both) = (budget = Parallel)
    /\ file["registry"].dest = Remote("optional") => budget \in {Overrides, Decisions, Deciders}
    /\ file["registry"].dest = One("required", TRUE) => budget = Failures
    /\ trust.transitions # {} => budget \in {Overrides, Decisions, Deciders}
MCInit == SyncInit /\ FewStarts
MCSpec == MCInit /\ [][Next]_vars /\ SyncFairness
=============================================================================
