--------------------- MODULE ComponentResolutionProofs ---------------------
(***************************************************************************)
(* Proofs about ComponentResolution, for every finite set of components,   *)
(* every set of manifests and any number of revisions: what Kahn's         *)
(* algorithm accepts and refuses, what the expansion enables, and what is  *)
(* active and persisted as a result.                                       *)
(***************************************************************************)
EXTENDS ComponentResolution, FiniteSetTheorems, TLAPS

\* The components the graph loop has taken from its queue.
Settled == {i \in Listed(request.table) : count[i] = 0} \ ready

\* Every group within S has a member that requires nothing of the group.
Grounded(m, S) == \A T \in SUBSET S : T # {} => \E i \in T : m[i].requires \cap T = {}

\* Kahn's loop: a count is the number of dependencies not yet settled, and what is
\* settled has no cycle.
GraphInv ==
    phase = "graph" =>
        /\ ready \subseteq {i \in Listed(request.table) : count[i] = 0}
        /\ \A j \in Listed(request.table) :
            count[j] = Cardinality(request.table[j].requires \ Settled)
        /\ resolved = Cardinality(Settled)
        /\ Grounded(request.table, Settled)

\* The expansion: what has been expanded is closed, and nothing is enabled that any
\* closed set with the chosen components could do without.
ExpandInv ==
    phase \in {"expand"} \cup Accepted =>
        /\ Acyclic(request.table)
        /\ Selected(request.table, request.choices) \subseteq enabled
        /\ enabled \subseteq Listed(request.table)
        /\ \A i \in enabled \ pending : request.table[i].requires \subseteq enabled
        /\ \A S \in SUBSET Ids :
            Selected(request.table, request.choices) \subseteq S /\ Closed(request.table, S)
                => enabled \subseteq S

ApplyInv == phase \in Accepted => pending = {} /\ ~ Conflict /\ ~ StillNeeded

\* The phases in which the instance is being changed.
Changing == {"save", "rename", "move", "index", "commit"}

\* The index has been written: an update writes it before the choices.
Listing == phase = "commit" \/ (~ Installing /\ phase \in {"save", "rename"})

\* The choices the operation started from.
OldChoices == IF phase \in Changing THEN before.choices ELSE choices

\* What the operation under way will persist, and the toggle it stands for.
RequestInv ==
    /\ Valid(manifest) /\ Valid(request.table)
    /\ phase # "idle" =>
        /\ verdict = "none"
        /\ \A i \in Ids : OldChoices[i] \notin {"unset", request.choices[i]} =>
            request.what \in {"enable", "disable"} /\ request.ids = {i}
        /\ request.what = "enable" =>
            \A i \in request.ids : i \in Listed(request.table) /\ request.choices[i] = "on"

VerdictInv == verdict = "cycle" => ~ Acyclic(request.table)

\* Of what the operation found, what is still there: the choices until components.json
\* is removed, and the files that the index did not list.
BeforeInv ==
    /\ phase \in Changing \/ verdict = "killed" => Consistent(before.origin, before.active)
    /\ phase \in Changing =>
        /\ phase = "save" \/ (~ Installing /\ phase \in {"move", "index"}) => choices = before.choices
        /\ Listing => active = enabled /\ enabled \subseteq files
        /\ IF Listing \/ phase = "index"
           THEN IF Installing THEN files = before.files \cup enabled
                              ELSE files \ enabled = Leftover(before)
           ELSE files = before.files

CompInv ==
    /\ CompTypeOK /\ RequestInv /\ GraphInv /\ ExpandInv /\ ApplyInv /\ VerdictInv
    /\ ActiveConsistent /\ ToggleHonoured /\ BeforeInv /\ FilesFollow

-----------------------------------------------------------------------------
\* The set of components of a table is finite, and so is every set of dependencies.
LEMMA FiniteParts ==
    ASSUME NEW S \in SUBSET Ids
    PROVE  IsFiniteSet(S) /\ Cardinality(S) \in Nat
BY ComponentAssumption, FS_Subset, FS_CardinalityType

\* A valid table: dependencies are listed, and none is its own.
LEMMA ValidRequires ==
    ASSUME NEW m \in Tables, Valid(m), NEW i \in Listed(m)
    PROVE  m[i].requires \subseteq Listed(m) \ {i}
BY DEF Valid, Listed

LEMMA TablesTyped ==
    ASSUME NEW m \in Tables, NEW i \in Ids
    PROVE  m[i].requires \in SUBSET Ids /\ Listed(m) \in SUBSET Ids
BY DEF Tables, Component, Listed

\* The choices that initialize_selections gives are choices, and the ones that were
\* there.
LEMMA InitializeKeeps ==
    ASSUME NEW m \in Tables, NEW s \in [Ids -> {"unset", "on", "off"}]
    PROVE  /\ Initialize(m, s) \in [Ids -> {"unset", "on", "off"}]
           /\ \A i \in Ids : s[i] # "unset" => Initialize(m, s)[i] = s[i]
BY DEF Initialize

\* A set without cycle stays one when a component is added whose dependencies are all
\* in it, none of whose dependents are, and which does not require itself.
LEMMA GroundedGrows ==
    ASSUME NEW m, NEW S, NEW i, Grounded(m, S), i \notin m[i].requires,
           \A k \in S : i \notin m[k].requires
    PROVE  Grounded(m, S \cup {i})
<1> SUFFICES ASSUME NEW T \in SUBSET (S \cup {i}), T # {}
             PROVE  \E k \in T : m[k].requires \cap T = {}
  BY DEF Grounded
<1>1. CASE T \subseteq {i}
  BY <1>1
<1>2. CASE ~ (T \subseteq {i})
  <2>1. T \ {i} \in SUBSET S /\ T \ {i} # {}
    BY <1>2
  <2>2. PICK k \in T \ {i} : m[k].requires \cap (T \ {i}) = {}
    BY <2>1 DEF Grounded
  <2>3. i \notin m[k].requires
    BY <2>1
  <2> QED BY <2>2, <2>3
<1> QED BY <1>1, <1>2

\* A removed element is one less.
LEMMA OneLess ==
    ASSUME NEW S \in SUBSET Ids, NEW i \in S
    PROVE  Cardinality(S \ {i}) = Cardinality(S) - 1
BY FiniteParts, FS_RemoveElement

LEMMA OneMore ==
    ASSUME NEW S \in SUBSET Ids, NEW i \in Ids \ S
    PROVE  Cardinality(S \cup {i}) = Cardinality(S) + 1
BY FiniteParts, FS_AddElement

LEMMA NoneLeft ==
    ASSUME NEW S \in SUBSET Ids
    PROVE  Cardinality(S) = 0 <=> S = {}
BY FiniteParts, FS_EmptySet

\* A subset with as many elements is the whole.
LEMMA AllThere ==
    ASSUME NEW T \in SUBSET Ids, NEW S \in SUBSET T, Cardinality(S) = Cardinality(T)
    PROVE  S = T
BY FiniteParts, FS_Subset

\* The counts of a table.
LEMMA CountTyped ==
    ASSUME NEW m \in Tables
    PROVE  /\ DependencyCount(m) \in [Ids -> Nat]
           /\ \A i \in Ids : DependencyCount(m)[i] = Cardinality(m[i].requires)
           /\ \A i \in Ids : DependencyCount(m)[i] = 0 <=> m[i].requires = {}
<1> DEFINE n(i) == Cardinality(m[i].requires)
<1>1. \A i \in Ids : n(i) \in Nat /\ (n(i) = 0 <=> m[i].requires = {})
  BY TablesTyped, FiniteParts, NoneLeft
<1>2. DependencyCount(m) = [i \in Ids |-> n(i)]
  BY DEF DependencyCount
<1> HIDE DEF n
<1>3. DependencyCount(m) \in [Ids -> Nat] /\ \A i \in Ids : DependencyCount(m)[i] = n(i)
  BY <1>1, <1>2
<1> QED BY <1>1, <1>3 DEF n

-----------------------------------------------------------------------------
\* The instance starts without components.
LEMMA InitKeeps ==
    ASSUME CompInit
    PROVE  CompInv
<1> USE DEF CompInit
<1>1. NoTable \in Tables /\ Valid(NoTable) /\ Listed(NoTable) = {}
  BY DEF NoTable, Tables, Component, Valid, Listed
<1>2. CompTypeOK
  BY <1>1 DEF CompTypeOK, Undecided, Nothing
<1>3. ActiveConsistent
  BY <1>1 DEF ActiveConsistent, Consistent, Closed
<1> QED BY <1>1, <1>2, <1>3 DEF CompInv, RequestInv, GraphInv, ExpandInv, ApplyInv, Accepted,
            VerdictInv, ToggleHonoured, BeforeInv, FilesFollow, Changing

\* A publication touches nothing that the operation under way uses.
LEMMA PublishKeeps ==
    ASSUME CompInv, NEW m \in Manifests, Publish(m)
    PROVE  CompInv'
<1> USE DEF Publish, loops, installed
<1>1. CompTypeOK'
  BY ComponentAssumption DEF CompInv, CompTypeOK
<1>2. RequestInv'
  BY DEF CompInv, RequestInv, OldChoices
<1>3. GraphInv' /\ ExpandInv' /\ ApplyInv' /\ VerdictInv'
  BY DEF CompInv, GraphInv, Settled, ExpandInv, ApplyInv, VerdictInv, Conflict, StillNeeded
<1>4. ActiveConsistent' /\ ToggleHonoured'
  BY DEF CompInv, ActiveConsistent, ToggleHonoured
<1>5. BeforeInv' /\ FilesFollow'
  BY DEF CompInv, BeforeInv, FilesFollow, Listing, Installing
<1> QED BY <1>1, <1>2, <1>3, <1>4, <1>5 DEF CompInv

\* An index that lists nothing fits together.
LEMMA BaseConsistent == BaseIndex => Consistent(origin, active)'
BY DEF BaseIndex, Consistent, NoTable, Listed, Closed

\* At the start of the graph loop nothing is settled and every dependency counts.
LEMMA StartKeeps ==
    ASSUME CompInv,
           NEW what \in {"install", "update", "enable", "disable"},
           NEW ids \in SUBSET Ids, NEW s \in [Ids -> {"unset", "on", "off"}],
           \A i \in Ids : choices[i] \notin {"unset", s[i]} =>
               what \in {"enable", "disable"} /\ ids = {i},
           what = "enable" => \A i \in ids : i \in Listed(manifest) /\ s[i] = "on",
           StartResolution(what, ids, s), BaseIndex \/ UNCHANGED <<active, origin>>
    PROVE  CompInv'
<1> USE DEF StartResolution
<1>a. manifest \in Tables /\ Valid(manifest) /\ CompTypeOK
  BY DEF CompInv, CompTypeOK, RequestInv
<1>b. request'.table = manifest /\ request'.what = what /\ request'.ids = ids /\ request'.choices = s
  OBVIOUS
<1>c. /\ count' \in [Ids -> Nat]
      /\ \A i \in Ids : count'[i] = Cardinality(manifest[i].requires)
      /\ \A i \in Ids : count'[i] = 0 <=> manifest[i].requires = {}
  BY <1>a, CountTyped
<1>1. CompTypeOK'
  <2>1. request' \in [what : {"none", "install", "update", "enable", "disable"}, ids : SUBSET Ids,
                      table : Tables, revision : Nat, choices : [Ids -> {"unset", "on", "off"}]]
    BY <1>a DEF CompTypeOK
  <2>2. before' = Nothing /\ NoTable \in Tables
    BY DEF NoTable, Tables, Component
  <2>3. active' \in SUBSET Ids /\ origin' \in Tables
    BY <1>a, <2>2 DEF CompTypeOK, BaseIndex
  <2> QED BY <1>a, <1>c, <2>1, <2>2, <2>3 DEF CompTypeOK, Listed, Nothing, Undecided
<1>2. RequestInv'
  <2>1. OldChoices' = choices
    BY DEF OldChoices, Changing
  <2> QED BY <1>a, <1>b, <2>1 DEF RequestInv
<1>3. GraphInv'
  <2>1. ready' = {i \in Listed(manifest) : count'[i] = 0}
    BY <1>c DEF Listed
  <2>2. Settled' = {}
    BY <1>b, <2>1 DEF Settled
  <2>3. Grounded(manifest, {})
    BY DEF Grounded
  <2>4. \A j \in Listed(manifest) : count'[j] = Cardinality(manifest[j].requires \ {})
    <3> TAKE j \in Listed(manifest)
    <3>1. manifest[j].requires \ {} = manifest[j].requires
      OBVIOUS
    <3> QED BY <1>c, <3>1 DEF Listed
  <2>5. GraphInv' <=>
          /\ ready' \subseteq {i \in Listed(manifest) : count'[i] = 0}
          /\ \A j \in Listed(manifest) : count'[j] = Cardinality(manifest[j].requires \ Settled')
          /\ resolved' = Cardinality(Settled')
          /\ Grounded(manifest, Settled')
    BY <1>b DEF GraphInv
  <2> QED BY <2>1, <2>2, <2>3, <2>4, <2>5, FS_EmptySet
<1>4. ExpandInv' /\ ApplyInv' /\ VerdictInv' /\ ToggleHonoured' /\ BeforeInv' /\ FilesFollow'
  BY DEF ExpandInv, ApplyInv, Accepted, VerdictInv, ToggleHonoured, BeforeInv, Changing, FilesFollow
<1>5. ActiveConsistent'
  BY BaseConsistent DEF CompInv, ActiveConsistent
<1> QED BY <1>1, <1>2, <1>3, <1>4, <1>5 DEF CompInv

\* Every operation starts from the persisted choices.
LEMMA RequestKeeps ==
    ASSUME CompInv,
           InstallFiles \/ PlanUpdate \/ \E i \in Ids, on \in BOOLEAN : SetComponent(i, on)
    PROVE  CompInv'
<1> DEFINE s == Initialize(manifest, choices)
<1>1. manifest \in Tables /\ choices \in [Ids -> {"unset", "on", "off"}]
  BY DEF CompInv, CompTypeOK
<1>2. s \in [Ids -> {"unset", "on", "off"}] /\ \A i \in Ids : choices[i] # "unset" => s[i] = choices[i]
  BY <1>1, InitializeKeeps
<1>3. ASSUME InstallFiles \/ PlanUpdate PROVE CompInv'
  <2> HIDE DEF s
  <2>1. /\ StartResolution("install", {}, s) \/ StartResolution("update", {}, s)
        /\ BaseIndex \/ UNCHANGED <<active, origin>>
    BY <1>3 DEF InstallFiles, PlanUpdate, s
  <2> QED BY <1>2, <2>1, StartKeeps
<1>4. ASSUME NEW i \in Ids, NEW on \in BOOLEAN, SetComponent(i, on) PROVE CompInv'
  <2> DEFINE t == [s EXCEPT ![i] = IF on THEN "on" ELSE "off"]
             what == IF on THEN "enable" ELSE "disable"
  <2>1. i \in Listed(manifest) /\ StartResolution(what, {i}, t) /\ UNCHANGED <<active, origin>>
    BY <1>4 DEF SetComponent
  <2>2. t \in [Ids -> {"unset", "on", "off"}] /\ \A j \in Ids \ {i} : t[j] = s[j]
    BY <1>2
  <2>3. what \in {"enable", "disable"} /\ (what = "enable" => t[i] = "on")
    BY <1>2
  <2> HIDE DEF s, t, what
  <2>4. \A j \in Ids : choices[j] \notin {"unset", t[j]} =>
           what \in {"enable", "disable"} /\ {i} = {j}
    BY <1>2, <2>2, <2>3
  <2> QED BY <2>1, <2>2, <2>3, <2>4, StartKeeps
<1> QED BY <1>3, <1>4

-----------------------------------------------------------------------------
\* The resolver's loops change nothing that is installed.
LEMMA StillResolving ==
    ASSUME CompInv, phase \in {"graph", "expand"}, phase' \in {"graph", "expand"},
           UNCHANGED <<manifest, revision, installed, before, request, verdict>>
    PROVE  /\ RequestInv' /\ BeforeInv' /\ FilesFollow' /\ ApplyInv'
           /\ phase' = "graph" => ExpandInv'
<1>1. phase \notin Accepted \cup Changing /\ phase' \notin Accepted \cup Changing /\ verdict = "none"
  BY DEF Accepted, Changing, CompInv, RequestInv
<1>2. OldChoices' = OldChoices
  BY <1>1 DEF OldChoices, installed
<1>3. RequestInv'
  BY <1>2 DEF CompInv, RequestInv
<1>4. BeforeInv' /\ FilesFollow' /\ ApplyInv' /\ (phase' = "graph" => ExpandInv')
  BY <1>1 DEF BeforeInv, FilesFollow, ApplyInv, ExpandInv, Changing, Accepted
<1> QED BY <1>3, <1>4

\* One turn of the graph loop settles i, and releases exactly the components that
\* waited for nothing else.
LEMMA GraphStepKeeps ==
    ASSUME CompInv, NEW i \in Ids, GraphStep(i)
    PROVE  CompInv'
<1> DEFINE m == request.table
           open(j) == m[j].requires \ Settled
<1>a. /\ phase = "graph" /\ i \in ready /\ request' = request /\ phase' = "graph"
      /\ ready' = (ready \ {i}) \cup Released(i) /\ resolved' = resolved + 1
      /\ UNCHANGED <<manifest, revision, installed, before, enabled, pending, verdict>>
  BY DEF GraphStep
<1>b. m \in Tables /\ Valid(m) /\ CompTypeOK
  BY DEF CompInv, CompTypeOK, RequestInv
<1>c. count \in [Ids -> Nat] /\ Listed(m) \in SUBSET Ids
  BY <1>b DEF CompTypeOK, Listed
<1>d. /\ ready \subseteq {j \in Listed(m) : count[j] = 0}
      /\ \A j \in Listed(m) : count[j] = Cardinality(open(j))
      /\ resolved = Cardinality(Settled)
      /\ Grounded(m, Settled)
  BY <1>a DEF CompInv, GraphInv
<1>e. \A j \in Listed(m) : m[j].requires \in SUBSET (Listed(m) \ {j}) /\ open(j) \in SUBSET Ids
  BY <1>b, <1>c, ValidRequires
<1>f. i \in Listed(m) /\ count[i] = 0 /\ i \notin Settled /\ Settled \in SUBSET Ids
  BY <1>a, <1>c, <1>d DEF Settled
<1>g. \A j \in Listed(m) : count[j] = 0 => m[j].requires \subseteq Settled
  BY <1>d, <1>e, NoneLeft
<1>h. Dependents(i) = {j \in Listed(m) : i \in m[j].requires}
  BY DEF Dependents
<1>i. \A j \in Dependents(i) : j # i /\ count[j] # 0
  BY <1>e, <1>f, <1>g, <1>h
<1>j. /\ count' \in [Ids -> Nat]
      /\ \A j \in Dependents(i) : count'[j] = count[j] - 1
      /\ \A j \in Ids \ Dependents(i) : count'[j] = count[j]
  <2>1. count' = [j \in Ids |-> IF j \in Dependents(i) THEN count[j] - 1 ELSE count[j]]
    BY DEF GraphStep
  <2>2. \A j \in Ids : (IF j \in Dependents(i) THEN count[j] - 1 ELSE count[j]) \in Nat
    BY <1>c, <1>i
  <2> QED BY <1>c, <1>h, <2>1, <2>2
<1>k. ready' \subseteq {j \in Listed(m) : count'[j] = 0}
  BY <1>a, <1>c, <1>d, <1>h, <1>i, <1>j DEF Released
<1>l. Settled' = Settled \cup {i}
  <2>1. Settled' = {j \in Listed(m) : count'[j] = 0} \ ready'
    BY <1>a DEF Settled
  <2>2. i \in Settled'
    BY <1>a, <1>c, <1>f, <1>i, <1>j, <2>1 DEF Released
  <2>3. ASSUME NEW j \in Settled PROVE j \in Settled'
    <3>1. j \in Listed(m) /\ count[j] = 0 /\ j \notin ready /\ j \notin Dependents(i)
      BY <1>i, <2>3 DEF Settled
    <3> QED BY <1>a, <1>c, <1>j, <2>1, <3>1 DEF Released
  <2>4. ASSUME NEW j \in Settled', j # i PROVE j \in Settled
    <3>1. j \in Listed(m) /\ count'[j] = 0 /\ j \notin Released(i) /\ j \notin ready
      BY <1>a, <2>1, <2>4
    <3>2. j \notin Dependents(i)
      BY <1>c, <1>j, <3>1 DEF Released
    <3> QED BY <1>c, <1>j, <3>1, <3>2 DEF Settled
  <2> QED BY <2>2, <2>3, <2>4
<1>1. GraphInv'
  <2>1. ASSUME NEW j \in Listed(m) PROVE count'[j] = Cardinality(m[j].requires \ Settled')
    <3>1. CASE j \in Dependents(i)
      <4>1. m[j].requires \ Settled' = open(j) \ {i} /\ i \in open(j)
        BY <1>f, <1>h, <1>l, <3>1
      <4>2. Cardinality(open(j) \ {i}) = Cardinality(open(j)) - 1
        BY <1>e, <4>1, OneLess
      <4> QED BY <1>d, <1>j, <3>1, <4>1, <4>2
    <3>2. CASE j \notin Dependents(i)
      <4>1. m[j].requires \ Settled' = open(j)
        BY <1>h, <1>l, <3>2
      <4> QED BY <1>c, <1>d, <1>j, <3>2, <4>1
    <3> QED BY <3>1, <3>2
  <2>2. resolved' = Cardinality(Settled')
    BY <1>a, <1>d, <1>f, <1>l, OneMore
  <2>3. Grounded(m, Settled')
    <3>1. \A k \in Settled : i \notin m[k].requires
      BY <1>f, <1>g DEF Settled
    <3>2. i \notin m[i].requires
      BY <1>e, <1>f
    <3> QED BY <1>d, <1>l, <3>1, <3>2, GroundedGrows
  <2>4. GraphInv' <=>
          /\ ready' \subseteq {j \in Listed(m) : count'[j] = 0}
          /\ \A j \in Listed(m) : count'[j] = Cardinality(m[j].requires \ Settled')
          /\ resolved' = Cardinality(Settled')
          /\ Grounded(m, Settled')
    BY <1>a DEF GraphInv
  <2> QED BY <1>k, <2>1, <2>2, <2>3, <2>4
<1>2. CompTypeOK'
  <2>1. ready' \subseteq Ids
    BY <1>c, <1>k
  <2> QED BY <1>a, <1>b, <1>j, <2>1 DEF CompTypeOK, installed
<1>3. VerdictInv' /\ ActiveConsistent' /\ ToggleHonoured'
  BY <1>a DEF CompInv, RequestInv, VerdictInv, ActiveConsistent, ToggleHonoured, installed
<1>4. ExpandInv' /\ ApplyInv' /\ BeforeInv' /\ FilesFollow' /\ RequestInv'
  BY <1>a, StillResolving
<1> QED BY <1>1, <1>2, <1>3, <1>4 DEF CompInv

Befores == [choices : [Ids -> {"unset", "on", "off"}], active : SUBSET Ids,
            origin : Tables, files : SUBSET Ids]

\* An operation that ends without success, and what it leaves.
LEMMA EndKeeps ==
    ASSUME CompInv, NEW how \in {"cycle", "conflict", "needed", "stale", "failed", "killed"},
           End(how), UNCHANGED <<active, origin>>,
           how = "cycle" => ~ Acyclic(request.table),
           choices' \in [Ids -> {"unset", "on", "off"}], files' \in SUBSET Ids, before' \in Befores,
           how = "killed" => Consistent(before'.origin, before'.active)
    PROVE  CompInv'
<1> USE DEF End
<1>0. /\ request'.what = request.what /\ request'.ids = request.ids /\ request'.table = request.table
      /\ phase' = "idle" /\ verdict' = how
  BY DEF CompInv, CompTypeOK
<1>1. CompTypeOK'
  <2>1. request' \in [what : {"none", "install", "update", "enable", "disable"}, ids : SUBSET Ids,
                      table : Tables, revision : Nat, choices : [Ids -> {"unset", "on", "off"}]]
    BY DEF CompInv, CompTypeOK, Undecided
  <2> QED BY <2>1 DEF CompInv, CompTypeOK, Befores
<1>2. RequestInv' /\ GraphInv' /\ ExpandInv' /\ ApplyInv'
  BY <1>0 DEF CompInv, RequestInv, GraphInv, ExpandInv, ApplyInv, Accepted
<1>3. VerdictInv' /\ ToggleHonoured' /\ FilesFollow'
  BY <1>0 DEF VerdictInv, ToggleHonoured, FilesFollow
<1>4. ActiveConsistent' /\ BeforeInv'
  BY <1>0 DEF CompInv, ActiveConsistent, BeforeInv, Changing
<1> QED BY <1>1, <1>2, <1>3, <1>4 DEF CompInv

\* When the queue is empty, what is left waits for itself: there is a cycle exactly
\* when something is left.
LEMMA GraphDoneKeeps ==
    ASSUME CompInv, GraphDone
    PROVE  CompInv'
<1> DEFINE m == request.table
<1>a. phase = "graph" /\ ready = {} /\ CompTypeOK
  BY DEF GraphDone, CompInv
<1>b. m \in Tables /\ Valid(m)
  BY DEF CompInv, CompTypeOK, RequestInv
<1>c. /\ \A j \in Listed(m) : count[j] = Cardinality(m[j].requires \ Settled)
      /\ resolved = Cardinality(Settled)
      /\ Grounded(m, Settled)
  BY <1>a DEF CompInv, GraphInv
<1>d. Settled \in SUBSET Listed(m) /\ Listed(m) \in SUBSET Ids
  BY DEF Settled, Listed
<1>1. CASE resolved = Cardinality(Listed(m))
  <2>a. /\ phase' = "expand" /\ enabled' = Selected(m, request.choices) /\ pending' = enabled'
        /\ UNCHANGED <<manifest, revision, request, count, ready, resolved, verdict>>
        /\ UNCHANGED <<installed, before>>
    BY <1>1 DEF GraphDone
  <2> HIDE DEF m
  <2>b. Cardinality(Settled) = Cardinality(Listed(m))
    BY <1>1, <1>c
  <2>1. Settled = Listed(m)
    BY <1>d, <2>b, AllThere
  <2> USE DEF m
  <2>2. Acyclic(m)
    BY <1>c, <2>1 DEF Acyclic, Grounded
  <2>3. enabled' \subseteq Listed(m)
    BY <2>a DEF Selected
  <2>4. CompTypeOK'
    BY <1>a, <1>d, <2>a, <2>3 DEF CompTypeOK, installed
  <2>5. ExpandInv'
    BY <2>2, <2>3, <2>a DEF ExpandInv
  <2>6. GraphInv' /\ ApplyInv' /\ RequestInv' /\ BeforeInv' /\ FilesFollow'
    BY <1>a, <2>a, StillResolving DEF GraphInv
  <2>7. VerdictInv' /\ ActiveConsistent' /\ ToggleHonoured'
    BY <1>a, <2>a DEF CompInv, RequestInv, VerdictInv, ActiveConsistent, ToggleHonoured, installed
  <2> QED BY <2>4, <2>5, <2>6, <2>7 DEF CompInv
<1>2. CASE resolved # Cardinality(Listed(m))
  <2>a. End("cycle") /\ UNCHANGED <<installed, before>>
    BY <1>2 DEF GraphDone
  <2> DEFINE S == Listed(m) \ Settled
  <2>1. S # {} /\ S \in SUBSET Listed(m)
    BY <1>2, <1>c, <1>d
  <2>2. ASSUME NEW j \in S PROVE m[j].requires \cap S # {}
    <3>1. count[j] # 0 /\ m[j].requires \in SUBSET Listed(m)
      BY <1>a, <1>b, <2>2, ValidRequires DEF Settled
    <3>2. m[j].requires \ Settled # {}
      BY <1>c, <1>d, <2>2, <3>1, NoneLeft
    <3> QED BY <3>1, <3>2
  <2>3. ~ Acyclic(m)
    BY <2>1, <2>2 DEF Acyclic
  <2> QED BY <1>a, <2>3, <2>a, EndKeeps DEF CompTypeOK, installed, Befores
<1> QED BY <1>1, <1>2

-----------------------------------------------------------------------------
\* One turn of the expansion: the dependencies of i are enabled, and belong to every
\* closed set that i belongs to.
LEMMA ExpandKeeps ==
    ASSUME CompInv, NEW i \in Ids, Expand(i)
    PROVE  CompInv'
<1> DEFINE m == request.table
<1>a. /\ phase = "expand" /\ phase' = "expand" /\ i \in pending
      /\ enabled' = enabled \cup m[i].requires
      /\ pending' = (pending \ {i}) \cup (m[i].requires \ enabled)
      /\ UNCHANGED <<manifest, revision, installed, before, request, count, ready, resolved, verdict>>
  BY DEF Expand, Discovered
<1>b. m \in Tables /\ Valid(m) /\ CompTypeOK /\ i \in enabled
  BY <1>a DEF CompInv, CompTypeOK, RequestInv
<1>c. /\ Selected(m, request.choices) \subseteq enabled
      /\ enabled \subseteq Listed(m)
      /\ \A j \in enabled \ pending : m[j].requires \subseteq enabled
      /\ \A S \in SUBSET Ids :
          Selected(m, request.choices) \subseteq S /\ Closed(m, S) => enabled \subseteq S
      /\ Acyclic(m)
  BY <1>a DEF CompInv, ExpandInv
<1>d. m[i].requires \subseteq Listed(m) /\ Listed(m) \subseteq Ids
  BY <1>b, <1>c, ValidRequires DEF Listed
<1>1. CompTypeOK'
  BY <1>a, <1>b, <1>d DEF CompTypeOK, installed
<1>2. ExpandInv'
  <2>1. ASSUME NEW j \in enabled' \ pending' PROVE m[j].requires \subseteq enabled'
    BY <1>a, <1>c, <2>1
  <2>2. ASSUME NEW S \in SUBSET Ids, Selected(m, request.choices) \subseteq S, Closed(m, S)
        PROVE  enabled' \subseteq S
    BY <1>a, <1>b, <1>c, <2>2 DEF Closed
  <2> QED BY <1>a, <1>c, <1>d, <2>1, <2>2 DEF ExpandInv
<1>3. GraphInv' /\ ApplyInv' /\ RequestInv' /\ BeforeInv' /\ FilesFollow'
  BY <1>a, StillResolving DEF GraphInv
<1>4. VerdictInv' /\ ActiveConsistent' /\ ToggleHonoured'
  BY <1>a DEF CompInv, RequestInv, VerdictInv, ActiveConsistent, ToggleHonoured, installed
<1> QED BY <1>1, <1>2, <1>3, <1>4 DEF CompInv

\* An operation with its lock: everything the resolver found still stands.
LEMMA StillAccepted ==
    ASSUME CompInv, phase \in Accepted, phase' \in Accepted, verdict = "none",
           UNCHANGED <<manifest, revision, request, loops, verdict>>
    PROVE  GraphInv' /\ ExpandInv' /\ ApplyInv' /\ VerdictInv' /\ ToggleHonoured' /\ FilesFollow'
<1> USE DEF loops, Accepted
<1>1. ExpandInv'
  BY DEF CompInv, ExpandInv
<1>2. GraphInv' /\ ApplyInv' /\ VerdictInv'
  BY DEF CompInv, GraphInv, ApplyInv, Conflict, StillNeeded, VerdictInv
<1>3. ToggleHonoured' /\ FilesFollow'
  BY DEF ToggleHonoured, FilesFollow
<1> QED BY <1>1, <1>2, <1>3

LEMMA ExpandDoneKeeps ==
    ASSUME CompInv, ExpandDone
    PROVE  CompInv'
<1>a. phase = "expand" /\ pending = {} /\ UNCHANGED <<installed, before>> /\ CompTypeOK
  BY DEF ExpandDone, CompInv
<1>1. CASE End("conflict") \/ End("needed")
  BY <1>1, <1>a, EndKeeps DEF CompTypeOK, installed, Befores
<1>2. CASE /\ ~ Conflict /\ ~ StillNeeded /\ phase' = "apply"
           /\ UNCHANGED <<manifest, revision, request, loops, verdict>>
  <2> USE <1>2, <1>a DEF loops, installed, Accepted
  <2>1. CompTypeOK'
    BY DEF CompTypeOK
  <2>2. ExpandInv'
    BY DEF CompInv, ExpandInv
  <2>3. GraphInv' /\ ApplyInv'
    BY DEF GraphInv, ApplyInv, Conflict, StillNeeded
  <2>4. RequestInv' /\ VerdictInv' /\ ActiveConsistent' /\ ToggleHonoured'
    BY DEF CompInv, RequestInv, OldChoices, Changing, VerdictInv, ActiveConsistent, ToggleHonoured
  <2>5. BeforeInv' /\ FilesFollow'
    BY DEF CompInv, RequestInv, BeforeInv, Changing, FilesFollow
  <2> QED BY <2>1, <2>2, <2>3, <2>4, <2>5 DEF CompInv
<1> QED BY <1>1, <1>2 DEF ExpandDone

\* Under the lock, an operation ends or notes what it found.
LEMMA ApplyKeeps ==
    ASSUME CompInv, Apply
    PROVE  CompInv'
<1>a. phase = "apply" /\ CompTypeOK /\ UNCHANGED <<choices, files>> /\ verdict = "none"
  BY DEF Apply, CompInv, RequestInv
<1>1. CASE End("stale") /\ UNCHANGED <<before, active, origin>>
  BY <1>1, <1>a, EndKeeps DEF CompTypeOK, Befores
<1>2. CASE /\ before' = [choices |-> choices, active |-> active, origin |-> origin, files |-> files]
           /\ phase' = IF Installing THEN "save" ELSE "move"
           /\ UNCHANGED <<manifest, revision, request, loops, verdict>>
           /\ UNCHANGED <<active, origin>> \/ BaseIndex
  <2>0. active' \in SUBSET Ids /\ origin' \in Tables
    <3>1. NoTable \in Tables
      BY DEF NoTable, Tables, Component
    <3> QED BY <1>2, <1>a, <3>1 DEF CompTypeOK, BaseIndex
  <2>1. CompTypeOK'
    BY <1>2, <1>a, <2>0 DEF CompTypeOK, loops, Accepted
  <2>2. RequestInv'
    <3>1. OldChoices = choices /\ OldChoices' = choices
      BY <1>2, <1>a DEF OldChoices, Changing
    <3> QED BY <1>2, <1>a, <3>1 DEF CompInv, RequestInv
  <2>3. ActiveConsistent'
    BY <1>2, BaseConsistent DEF CompInv, ActiveConsistent
  <2>4. BeforeInv'
    <3>1. /\ before'.origin = origin /\ before'.active = active
          /\ before'.choices = choices /\ before'.files = files
      BY <1>2
    <3>2. Consistent(before'.origin, before'.active)
      BY <3>1 DEF CompInv, ActiveConsistent
    <3> QED BY <1>2, <1>a, <3>1, <3>2 DEF BeforeInv, Changing, Listing, Installing
  <2> QED BY <1>2, <1>a, <2>1, <2>2, <2>3, <2>4, StillAccepted DEF CompInv, Accepted
<1> QED BY <1>1, <1>2 DEF Apply, GoTo

\* The two halves of write_selections.
LEMMA ChoicesKeep ==
    ASSUME CompInv, RemoveChoices \/ RenameChoices
    PROVE  CompInv'
<1>a. /\ phase \in {"save", "rename"} /\ UNCHANGED <<active, origin, files, before>> /\ CompTypeOK
      /\ phase' = IF phase = "save" THEN "rename" ELSE IF Installing THEN "move" ELSE "commit"
      /\ choices' \in {Undecided, request.choices} /\ verdict = "none"
      /\ UNCHANGED <<manifest, revision, request, loops, verdict>>
  BY DEF RemoveChoices, RenameChoices, GoTo, CompInv, RequestInv
<1>1. CompTypeOK'
  <2>1. choices' \in [Ids -> {"unset", "on", "off"}]
    BY <1>a DEF CompTypeOK, Undecided
  <2> QED BY <1>a, <2>1 DEF CompTypeOK, loops, Accepted
<1>2. RequestInv'
  <2>1. OldChoices' = OldChoices
    BY <1>a DEF OldChoices, Changing
  <2> QED BY <1>a, <2>1 DEF CompInv, RequestInv
<1>3. BeforeInv' /\ ActiveConsistent'
  BY <1>a DEF CompInv, ActiveConsistent, BeforeInv, Changing, Listing, Installing, loops
<1> QED BY <1>a, <1>1, <1>2, <1>3, StillAccepted DEF CompInv, Accepted

\* The files of the enabled components are in the instance; what the index did not
\* list is still there.
LEMMA MoveKeeps ==
    ASSUME CompInv, MoveFiles
    PROVE  CompInv'
<1>a. /\ phase = "move" /\ phase' = "index" /\ UNCHANGED <<choices, active, origin, before>>
      /\ UNCHANGED <<manifest, revision, request, loops, verdict>> /\ CompTypeOK /\ verdict = "none"
  BY DEF MoveFiles, GoTo, CompInv, RequestInv
<1>b. files = before.files
  BY <1>a DEF CompInv, BeforeInv, Changing, Listing
<1>1. /\ files' \in SUBSET Ids
      /\ IF Installing THEN files' = before.files \cup enabled
                       ELSE files' \ enabled = Leftover(before)
  <2>1. CASE Installing
    BY <1>a, <1>b, <2>1 DEF MoveFiles, CompTypeOK
  <2>2. CASE ~ Installing
    <3>1. PICK renewed \in SUBSET (enabled \cap before.active) :
             files' = (files \ (before.active \ enabled)) \cup (enabled \ before.active) \cup renewed
      BY <2>2 DEF MoveFiles
    <3>2. (enabled \ before.active) \cap files = {}
      BY <2>2 DEF MoveFiles
    <3> QED BY <1>a, <1>b, <2>2, <3>1, <3>2 DEF CompTypeOK, Leftover
  <2> QED BY <2>1, <2>2
<1>2. CompTypeOK'
  BY <1>a, <1>1 DEF CompTypeOK, loops, Accepted
<1>3. RequestInv'
  BY <1>a DEF CompInv, RequestInv, OldChoices, Changing
<1>4. BeforeInv' /\ ActiveConsistent'
  BY <1>a, <1>b, <1>1 DEF CompInv, ActiveConsistent, BeforeInv, Changing, Listing, Installing, loops
<1> QED BY <1>a, <1>2, <1>3, <1>4, StillAccepted DEF CompInv, Accepted

\* What is enabled fits together.
LEMMA EnabledConsistent ==
    ASSUME CompInv, phase \in Accepted
    PROVE  /\ Consistent(request.table, enabled)
           /\ request.what = "enable" => request.ids \subseteq enabled
           /\ request.what = "disable" => request.ids \cap enabled = {}
<1> DEFINE m == request.table
<1>a. /\ Selected(m, request.choices) \subseteq enabled /\ enabled \subseteq Listed(m)
      /\ \A i \in enabled : m[i].requires \subseteq enabled
      /\ ~ Conflict /\ ~ StillNeeded /\ phase # "idle"
  BY DEF CompInv, ExpandInv, ApplyInv, Accepted
<1>1. {i \in Listed(m) : m[i].required} \subseteq enabled
  BY <1>a DEF Selected
<1>2. Closed(m, enabled) /\ \A i \in enabled : m[i].conflicts \cap enabled = {}
  BY <1>a DEF Closed, Conflict
<1>3. request.what = "enable" => request.ids \subseteq enabled
  BY <1>a DEF CompInv, RequestInv, Selected
<1>4. request.what = "disable" => request.ids \cap enabled = {}
  BY <1>a DEF StillNeeded
<1> QED BY <1>a, <1>1, <1>2, <1>3, <1>4 DEF Consistent

LEMMA IndexKeeps ==
    ASSUME CompInv, WriteIndex
    PROVE  CompInv'
<1>a. /\ phase = "index" /\ enabled \subseteq files /\ active' = enabled /\ origin' = request.table
      /\ phase' = IF Installing THEN "commit" ELSE "save"
      /\ UNCHANGED <<choices, files, before>> /\ CompTypeOK /\ verdict = "none"
      /\ UNCHANGED <<manifest, revision, request, loops, verdict>>
  BY DEF WriteIndex, GoTo, CompInv, RequestInv
<1>1. CompTypeOK'
  BY <1>a DEF CompTypeOK, loops, Accepted
<1>2. RequestInv'
  BY <1>a DEF CompInv, RequestInv, OldChoices, Changing
<1>3. ActiveConsistent'
  BY <1>a, EnabledConsistent DEF ActiveConsistent, Accepted
<1>4. BeforeInv'
  <2>1. ~ Installing => choices = before.choices
    BY <1>a DEF CompInv, BeforeInv, Changing
  <2> QED BY <1>a, <2>1 DEF CompInv, BeforeInv, Changing, Listing, Installing, loops
<1> QED BY <1>a, <1>1, <1>2, <1>3, <1>4, StillAccepted DEF CompInv, Accepted

\* Success: the index is the enabled set, its files are there.
LEMMA SucceedKeeps ==
    ASSUME CompInv, Succeed
    PROVE  CompInv'
<1>a. /\ phase = "commit" /\ End("done") /\ CompTypeOK /\ UNCHANGED installed
      /\ before' = [before EXCEPT !.choices = Undecided, !.origin = NoTable]
  BY DEF Succeed, CompInv
<1>b. /\ request'.what = request.what /\ request'.ids = request.ids /\ request'.table = request.table
      /\ phase' = "idle" /\ verdict' = "done"
      /\ before'.files = before.files /\ before'.active = before.active
  BY <1>a DEF CompTypeOK, End
<1>c. /\ active = enabled /\ enabled \subseteq files
      /\ IF Installing THEN files = before.files \cup enabled ELSE files \ enabled = Leftover(before)
  BY <1>a DEF CompInv, BeforeInv, Changing, Listing
<1>1. CompTypeOK'
  <2>1. request' \in [what : {"none", "install", "update", "enable", "disable"}, ids : SUBSET Ids,
                      table : Tables, revision : Nat, choices : [Ids -> {"unset", "on", "off"}]]
    BY <1>a DEF CompTypeOK, Undecided, End
  <2>2. before' \in Befores
    BY <1>a DEF CompTypeOK, Undecided, NoTable, Tables, Component, Befores
  <2> QED BY <1>a, <2>1, <2>2 DEF CompTypeOK, Befores, End, installed
<1>2. RequestInv' /\ GraphInv' /\ ExpandInv' /\ ApplyInv' /\ VerdictInv'
  BY <1>a, <1>b DEF End, CompInv, RequestInv, GraphInv, ExpandInv, ApplyInv, VerdictInv, Accepted
<1>3. ActiveConsistent' /\ BeforeInv'
  BY <1>a, <1>b DEF CompInv, ActiveConsistent, BeforeInv, Changing, installed
<1>4. ToggleHonoured'
  BY <1>a, <1>b, <1>c, EnabledConsistent DEF ToggleHonoured, Accepted, installed
<1>5. FilesFollow'
  BY <1>a, <1>b, <1>c DEF FilesFollow, Installing, Leftover, installed
<1> QED BY <1>1, <1>2, <1>3, <1>4, <1>5 DEF CompInv

\* An error or a kill ends it with what it has done.
LEMMA InterruptedKeeps ==
    ASSUME CompInv, NEW how \in {"failed", "killed"}, Interrupted(how)
    PROVE  CompInv'
<1>a. /\ phase \in {"apply"} \cup Changing /\ End(how) /\ UNCHANGED <<choices, active, origin>>
      /\ before' \in {before, Nothing} /\ CompTypeOK
      /\ how = "killed" => Consistent(before.origin, before.active)
  BY DEF Interrupted, CompInv, BeforeInv, Changing
<1>1. files' \in SUBSET Ids
  <2>1. files' = files \/ files' \in Partial
    BY DEF Interrupted
  <2>2. before.files \in SUBSET Ids /\ enabled \in SUBSET Ids
    BY <1>a DEF CompTypeOK
  <2>3. ASSUME NEW D \in Partial PROVE D \in SUBSET Ids
    <3>1. CASE Installing
      BY <2>2, <2>3, <3>1 DEF Partial
    <3>2. CASE ~ Installing
      <4>1. PICK S \in (SUBSET (before.files \cap before.active)) \cup (SUBSET enabled) :
               D = Leftover(before) \cup S
        BY <2>3, <3>2 DEF Partial
      <4> QED BY <2>2, <4>1 DEF Leftover
    <3> QED BY <3>1, <3>2
  <2> QED BY <1>a, <2>1, <2>3 DEF CompTypeOK
<1>2. Nothing \in Befores /\ Consistent(Nothing.origin, Nothing.active)
  BY DEF Nothing, Befores, NoTable, Tables, Component, Undecided, Consistent, Listed, Closed
<1> QED BY <1>a, <1>1, <1>2, EndKeeps DEF CompTypeOK, Befores

\* The recovery puts back the index that the killed update found.
LEMMA RecoverKeeps ==
    ASSUME CompInv, RecoverUpdate
    PROVE  CompInv'
<1>a. /\ phase = "idle" /\ phase' = "idle" /\ verdict = "killed" /\ verdict' = "none"
      /\ active' = before.active /\ origin' = before.origin /\ files' = files \cup before.files
      /\ UNCHANGED <<manifest, revision, choices, before, request, loops>> /\ CompTypeOK
  BY DEF RecoverUpdate, CompInv
<1>1. CompTypeOK'
  BY <1>a DEF CompTypeOK, loops
<1>2. RequestInv' /\ GraphInv' /\ ExpandInv' /\ ApplyInv' /\ VerdictInv' /\ ToggleHonoured' /\ FilesFollow'
  BY <1>a DEF CompInv, RequestInv, GraphInv, ExpandInv, ApplyInv, VerdictInv, ToggleHonoured,
     FilesFollow, Accepted
<1>3. ActiveConsistent' /\ BeforeInv'
  BY <1>a DEF CompInv, ActiveConsistent, BeforeInv, Changing
<1> QED BY <1>1, <1>2, <1>3 DEF CompInv

\* The invariant is inductive.
LEMMA CompStep ==
    ASSUME CompInv, [CompNext]_compVars
    PROVE  CompInv'
<1>1. CASE UNCHANGED compVars
  BY <1>1 DEF compVars, CompInv, CompTypeOK, RequestInv, OldChoices, GraphInv, Settled, ExpandInv, ApplyInv,
        Conflict, StillNeeded, VerdictInv, ActiveConsistent, ToggleHonoured, BeforeInv, Listing,
        Installing, FilesFollow
<1>2. ASSUME Applying PROVE CompInv'
  BY <1>2, ApplyKeeps, ChoicesKeep, MoveKeeps, IndexKeeps, SucceedKeeps, InterruptedKeeps DEF Applying
<1> QED BY <1>1, <1>2, PublishKeeps, RequestKeeps, GraphStepKeeps, GraphDoneKeeps, ExpandKeeps,
        ExpandDoneKeeps, RecoverKeeps DEF CompNext, Resolving

LEMMA CompInvariant == CompSpec => []CompInv
BY InitKeeps, CompStep, PTL DEF CompSpec

-----------------------------------------------------------------------------
\* validate_dependency_graph accepts the graphs without a cycle and refuses the
\* others, for every manifest and whatever order its queue has.
THEOREM KahnCorrect == CompSpec => []CyclesFound
<1>1. CompInv => CyclesFound
  BY DEF CompInv, CyclesFound, ExpandInv, VerdictInv, Accepted
<1> QED BY <1>1, CompInvariant, PTL

\* resolve_components enables the least closed set with the chosen components.
THEOREM ExpansionLeast == CompSpec => []EnabledIsLeast
<1>1. CompInv => EnabledIsLeast
  BY DEF CompInv, EnabledIsLeast, ExpandInv, ApplyInv, Closed, Accepted
<1> QED BY <1>1, CompInvariant, PTL

\* What the index lists fits the manifest it was resolved from; an operation reported
\* as done had the effect of its toggle, has the files of what is listed, and has left
\* only the files that the index did not list (or, installing, no longer lists), after
\* any sequence of installations, updates, toggles, refusals, errors, kills and
\* recoveries.  Every variable keeps its type, dependency_count in particular is never
\* decremented below zero.
THEOREM ActiveHolds == CompSpec => []ActiveCorrect
<1>1. CompInv => ActiveCorrect
  BY DEF CompInv, ActiveCorrect
<1> QED BY <1>1, CompInvariant, PTL

\* components.json changes only by being removed and by being replaced with the choices
\* that were in it, but for a toggle's own.
THEOREM ChoicesKept == CompSpec => ChoiceKept
<1> DEFINE Removed == phase' = "rename" /\ choices = before.choices /\ choices' = Undecided
           Renamed == /\ phase = "rename"
                      /\ \A i \in Ids : before.choices[i] \notin {"unset", choices'[i]} =>
                            request.what \in {"enable", "disable"} /\ request.ids = {i}
           A == choices' # choices => Removed \/ Renamed
<1>1. ASSUME CompInv, [CompNext]_compVars PROVE [A]_compVars
  <2>1. CASE choices' = choices
    BY <2>1
  <2>2. CASE choices' # choices
    <3>1. RemoveChoices \/ RenameChoices
      BY <1>1, <2>2 DEF CompNext, Resolving, Applying, Publish, InstallFiles, PlanUpdate, SetComponent,
         StartResolution, GraphStep, Expand, GraphDone, ExpandDone, Apply, MoveFiles, WriteIndex,
         Succeed, Interrupted, RecoverUpdate, installed, compVars
    <3>2. CASE RemoveChoices
      BY <1>1, <3>2 DEF RemoveChoices, GoTo, CompInv, BeforeInv, Changing
    <3>3. CASE RenameChoices
      BY <1>1, <3>3 DEF RenameChoices, CompInv, RequestInv, OldChoices, Changing
    <3> QED BY <3>1, <3>2, <3>3
  <2> QED BY <2>1, <2>2
<1> QED BY <1>1, CompInvariant, PTL DEF CompSpec, ChoiceKept
=============================================================================
