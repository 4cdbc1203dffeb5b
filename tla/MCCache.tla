------------------------------ MODULE MCCache ------------------------------
(***************************************************************************)
(* Bounded instances of CacheManager.                                      *)
(***************************************************************************)
EXTENDS CacheManager, TLC

CONSTANTS i1, i2, i3, a, b

SharedObject == {<<i1, a>>, <<i2, a>>, <<i3, a>>, <<i3, b>>}
TheObjectOf == [t \in Task |-> t[2]]
TheProcessOf == [t \in Task |-> t[1]]
TheChunks == 1 :> 2 @@ 2 :> 3

\* Few of the initial states: two of the installations, the one of two objects where one
\* is cancelled; no part file, a stale one or a complete one, the last two where nothing is
\* pruned or cancelled; an index that is in step; an object b that the other installations
\* do not ask for; another version on the server only where one is uploaded; with a prune,
\* the object in place exactly where a kill is to come.
FewLeftovers ==
    /\ part \in [Object -> {NoFile, <<2>>, Body(1)}]
    /\ dest \in [Object -> {NoFile, Body(1)}]
    /\ part[b] = NoFile /\ server[b] = Wanted
    /\ dest[b] = IF budget["cancel"] > 0 THEN Body(1) ELSE NoFile
    /\ rounds[i2] > 0
    /\ \A p \in {i1, i3} : rounds[p] > 0 <=> (p = i3 <=> budget["cancel"] > 0)
    /\ index # NoFile
    /\ budget["upload"] = 0 => server = [o \in Object |-> Wanted]
    /\ budget["prune"] + budget["cancel"] > 0 => \A o \in Object : part[o] = NoFile
    /\ budget["prune"] > 0 => (dest[a] # NoFile <=> budget["kill"] > 0)
    /\ budget["upload"] > 0 => dest[a] = NoFile

Budget(install, prunes, uploads, kills, cancels) ==
    [install |-> install, prune |-> prunes, upload |-> uploads, kill |-> kills,
     cancel |-> cancels]
PassBudgets == {Budget(1, 1, 0, 0, 0), Budget(1, 1, 0, 1, 0), Budget(1, 0, 1, 1, 0),
                Budget(1, 0, 0, 0, 1)}

MCInit == Init /\ FewLeftovers

MCSpec == MCInit /\ [][Next]_vars /\ DownloadFairness
===========================================================================
