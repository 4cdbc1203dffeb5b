------------------------ MODULE ComponentResolution ------------------------
(***************************************************************************)
(* providers/components.rs and its callers: the components of a provider   *)
(* instance, from the published manifest and the user's persisted choices  *)
(* to the set that an installation, an update or a toggle makes active.    *)
(* The two loops of the resolver, Kahn's algorithm over the dependencies   *)
(* and the expansion of the chosen set, take one component at a time, in   *)
(* any order (the code's queues are one of them).  Then the files, the     *)
(* index and components.json change one after the other, and an error or a *)
(* kill may come between any two.  Revisions are published at any moment.  *)
(***************************************************************************)
EXTENDS Naturals, FiniteSets

CONSTANTS
    Ids,            \* component ids
    Manifests,      \* the manifests a provider may publish, valid or not
    MaxRevision     \* bound: revisions published

Component == [present : BOOLEAN, required : BOOLEAN, default : BOOLEAN,
              requires : SUBSET Ids, conflicts : SUBSET Ids]

Tables == [Ids -> Component]

ASSUME ComponentAssumption == IsFiniteSet(Ids) /\ Manifests \subseteq Tables /\ MaxRevision \in Nat

VARIABLES
    manifest,   \* the component table of the latest snapshot
    revision,   \* its revision, counted from the installed one
    choices,    \* runtime/components.json: component -> "unset", "on" or "off"
    active,     \* the components whose files managed-files.json lists
    origin,     \* the table they were resolved from
    files,      \* the components whose files are in the instance, listed or not
    before,     \* what the operation under way found there when it had the lock
    request,    \* the operation under way, or the last one
    phase,      \* where it is
    count,      \* dependency_count: component -> dependencies not yet settled
    ready,      \* components with none left
    resolved,   \* how many were settled
    enabled,    \* the enabled set so far
    pending,    \* its members still to be expanded
    verdict     \* how the last operation ended

compVars == <<manifest, revision, choices, active, origin, files, before, request, phase, count,
              ready, resolved, enabled, pending, verdict>>

\* What the operations change on disk.
installed == <<choices, active, origin, files>>

loops == <<count, ready, resolved, enabled, pending>>

Listed(m) == {i \in Ids : m[i].present}

\* RawInstanceManifest::validate, of the components: a reference names another
\* component of the manifest; required components are enabled by default.
Valid(m) ==
    \A i \in Listed(m) :
        /\ m[i].requires \cup m[i].conflicts \subseteq Listed(m) \ {i}
        /\ m[i].required => m[i].default

\* mutant: the default of the newest revision wins over an old choice
InitializeAll(m, s) ==
    [i \in Ids |-> IF i \in Listed(m) /\ ~ m[i].required
                   THEN IF m[i].default THEN "on" ELSE "off" ELSE s[i]]

\* initialize_selections: the default of an optional component without a choice.
Initialize(m, s) ==
    [i \in Ids |-> IF i \in Listed(m) /\ ~ m[i].required /\ s[i] = "unset"
                   THEN IF m[i].default THEN "on" ELSE "off" ELSE s[i]]

\* resolve_components: required, chosen, or enabled by default.
Selected(m, s) ==
    {i \in Listed(m) : m[i].required \/ s[i] = "on" \/ (s[i] = "unset" /\ m[i].default)}

NoTable == [i \in Ids |-> [present |-> FALSE, required |-> FALSE, default |-> FALSE,
                           requires |-> {}, conflicts |-> {}]]

Undecided == [i \in Ids |-> "unset"]

Nothing == [choices |-> Undecided, active |-> {}, origin |-> NoTable, files |-> {}]

\* An instance of a manifest without components, as the first ones were.
CompInit ==
    /\ manifest = NoTable
    /\ revision = 0
    /\ choices = Undecided
    /\ active = {}
    /\ origin = NoTable
    /\ files = {}
    /\ before = Nothing
    /\ request = [what |-> "none", ids |-> {}, table |-> NoTable, revision |-> 0, choices |-> Undecided]
    /\ phase = "idle"
    /\ count = [i \in Ids |-> 0]
    /\ ready = {}
    /\ resolved = 0
    /\ enabled = {}
    /\ pending = {}
    /\ verdict = "none"

\* sync replaces the snapshot by a manifest that validates.
Publish(m) ==
    /\ revision < MaxRevision
    /\ Valid(m)
    /\ manifest' = m
    /\ revision' = revision + 1
    /\ UNCHANGED <<installed, before, request, phase, loops, verdict>>

\* dependency_count, of every component.
DependencyCount(m) == [i \in Ids |-> Cardinality(m[i].requires)]

\* validate_dependency_graph: the counts and the first ready components.
StartResolution(what, ids, s) ==
    /\ phase = "idle"
    /\ request' = [what |-> what, ids |-> ids, table |-> manifest, revision |-> revision, choices |-> s]
    /\ phase' = "graph"
    /\ count' = DependencyCount(manifest)
    /\ ready' = {i \in Listed(manifest) : manifest[i].requires = {}}
    /\ resolved' = 0
    /\ enabled' = {}
    /\ pending' = {}
    /\ verdict' = "none"
    /\ before' = Nothing
    /\ UNCHANGED <<manifest, revision, choices, files>>

\* persist_managed_index: the index of a base installation lists no provider file.
BaseIndex == active' = {} /\ origin' = NoTable

\* install_mode: the base, then install_provider_files.
InstallFiles == StartResolution("install", {}, Initialize(manifest, choices)) /\ BaseIndex

\* plan_update_mode.
PlanUpdate ==
    /\ StartResolution("update", {}, Initialize(manifest, choices))
    /\ UNCHANGED <<active, origin>>

\* set_component_enabled; a required component is not disabled.
SetComponent(i, on) ==
    /\ i \in Listed(manifest)
    /\ on \/ ~ manifest[i].required
    /\ StartResolution(IF on THEN "enable" ELSE "disable", {i},
               [Initialize(manifest, choices) EXCEPT ![i] = IF on THEN "on" ELSE "off"])
    /\ UNCHANGED <<active, origin>>

\* The operation returns; the resolver's variables were its own.
End(how) ==
    /\ phase' = "idle"
    /\ verdict' = how
    /\ count' = [i \in Ids |-> 0]
    /\ ready' = {}
    /\ resolved' = 0
    /\ enabled' = {}
    /\ pending' = {}
    /\ request' = [request EXCEPT !.choices = Undecided]
    /\ UNCHANGED <<manifest, revision>>

Dependents(i) == {j \in Listed(request.table) : i \in request.table[j].requires}

\* mutant: a component is ready as soon as one dependency is settled
SomeSettled(i) == Dependents(i)

\* The dependents whose last dependency this was.
Released(i) == {j \in Dependents(i) : count[j] = 1}

GraphStep(i) ==
    /\ phase = "graph"
    /\ i \in ready
    /\ count' = [j \in Ids |-> IF j \in Dependents(i) THEN count[j] - 1 ELSE count[j]]
    /\ ready' = (ready \ {i}) \cup Released(i)
    /\ resolved' = resolved + 1
    /\ UNCHANGED <<manifest, revision, installed, before, request, phase, enabled, pending, verdict>>

\* Every component was settled, or there is a cycle.
GraphDone ==
    /\ phase = "graph"
    /\ ready = {}
    /\ IF resolved = Cardinality(Listed(request.table))
       THEN /\ phase' = "expand"
            /\ enabled' = Selected(request.table, request.choices)
            /\ pending' = enabled'
            /\ UNCHANGED <<manifest, revision, request, count, ready, resolved, verdict>>
       ELSE End("cycle")
    /\ UNCHANGED <<installed, before>>

\* mutant: only the direct dependencies of what was chosen
DirectOnly(i) == {}

\* The dependencies that were not enabled before are expanded in their turn.
Discovered(i) == request.table[i].requires \ enabled

Expand(i) ==
    /\ phase = "expand"
    /\ i \in pending
    /\ enabled' = enabled \cup request.table[i].requires
    /\ pending' = (pending \ {i}) \cup Discovered(i)
    /\ UNCHANGED <<manifest, revision, installed, before, request, phase,
                   count, ready, resolved, verdict>>

\* mutant: a conflict counts only between chosen components
ChosenConflict ==
    LET chosen == Selected(request.table, request.choices)
    IN \E i \in chosen : request.table[i].conflicts \cap chosen # {}

Conflict == \E i \in enabled : request.table[i].conflicts \cap enabled # {}

\* set_component_enabled refuses to disable what an enabled component requires.
StillNeeded == request.what = "disable" /\ request.ids \cap enabled # {}

\* The conflicts, and what set_component_enabled makes of the result.
ExpandDone ==
    /\ phase = "expand"
    /\ pending = {}
    /\ \/ Conflict /\ End("conflict")
       \/ ~ Conflict /\ StillNeeded /\ End("needed")
       \/ /\ ~ Conflict
          /\ ~ StillNeeded
          /\ phase' = "apply"
          /\ UNCHANGED <<manifest, revision, request, loops, verdict>>
    /\ UNCHANGED <<installed, before>>

Installing == request.what = "install"

\* An operation goes on to its next phase.
GoTo(next) == phase' = next /\ UNCHANGED <<manifest, revision, request, loops, verdict>>

\* The lock is held.  apply_update refuses a plan for a revision that is no longer
\* the latest, and installs the base first if the revision has another one; an
\* installation goes on, and writes the choices first.
Apply ==
    /\ phase = "apply"
    /\ IF ~ Installing /\ request.revision # revision
       THEN End("stale") /\ UNCHANGED <<before, active, origin>>
       ELSE /\ before' = [choices |-> choices, active |-> active, origin |-> origin, files |-> files]
            /\ GoTo(IF Installing THEN "save" ELSE "move")
            /\ UNCHANGED <<active, origin>> \/ (~ Installing /\ BaseIndex)
    /\ UNCHANGED <<choices, files>>

\* write_selections: the temporary is written and components.json removed, ...
RemoveChoices ==
    /\ phase = "save"
    /\ choices' = Undecided
    /\ GoTo("rename")
    /\ UNCHANGED <<active, origin, files, before>>

\* ... and the temporary renamed.
RenameChoices ==
    /\ phase = "rename"
    /\ choices' = request.choices
    /\ GoTo(IF Installing THEN "move" ELSE "commit")
    /\ UNCHANGED <<active, origin, files, before>>

\* Files that managed-files.json does not list: an installation left them when it no
\* longer enabled their component, or a failed update.
Leftover(w) == w.files \ w.active

\* install_provider_files copies the enabled components over what is there and takes
\* nothing away.  apply_update takes away what the index listed when it was planned and
\* is no longer enabled, renews some of the rest, and adds what the index did not list:
\* a file in its place stops it.
MoveFiles ==
    /\ phase = "move"
    /\ IF Installing
       THEN files' = files \cup enabled
       ELSE /\ (enabled \ before.active) \cap files = {}
            /\ \E renewed \in SUBSET (enabled \cap before.active) :
                files' = (files \ (before.active \ enabled)) \cup (enabled \ before.active) \cup renewed
    /\ GoTo("index")
    /\ UNCHANGED <<choices, active, origin, before>>

\* verify_index, then write_managed_index.
WriteIndex ==
    /\ phase = "index"
    /\ enabled \subseteq files
    /\ active' = enabled
    /\ origin' = request.table
    /\ GoTo(IF Installing THEN "commit" ELSE "save")
    /\ UNCHANGED <<choices, files, before>>

\* replace_spec_unlocked and the marks; the operation reports success.
Succeed ==
    /\ phase = "commit"
    /\ End("done")
    /\ before' = [before EXCEPT !.choices = Undecided, !.origin = NoTable]
    /\ UNCHANGED installed

\* The files that an error or a kill among the moves may leave.  An installation has
\* copied some.  An update has moved some listed ones to the backup, or all that it
\* takes away and added some of the enabled ones; the rollback goes the same way back.
Partial ==
    IF Installing
    THEN {before.files \cup S : S \in SUBSET enabled}
    ELSE {Leftover(before) \cup S : S \in (SUBSET (before.files \cap before.active)) \cup (SUBSET enabled)}

\* Any error or cancellation from the lock on, or a kill.  Before the index is
\* written the files may have been rolled back or not; after it, everything done so
\* far stays.  (Before anything changed, a kill ends it as an error does.)
Interrupted(how) ==
    /\ phase \in {"save", "rename", "move", "index", "commit"} \/ (phase = "apply" /\ how = "failed")
    /\ IF phase \in {"move", "index"} THEN files' \in Partial ELSE files' = files
    /\ End(how)
    /\ before' = IF how = "killed" /\ ~ Installing THEN before ELSE Nothing
    /\ UNCHANGED <<choices, active, origin>>

\* recover_update_backups, after a kill: the index of before and the files of the
\* backup return; what was added stays, and so does components.json.
RecoverUpdate ==
    /\ phase = "idle"
    /\ verdict = "killed"
    /\ ~ Installing
    /\ active' = before.active
    /\ origin' = before.origin
    /\ files' = files \cup before.files
    /\ verdict' = "none"
    /\ UNCHANGED <<manifest, revision, choices, before, request, phase, loops>>

Resolving ==
    \/ \E i \in Ids : GraphStep(i) \/ Expand(i)
    \/ GraphDone \/ ExpandDone

Applying ==
    \/ Apply \/ RemoveChoices \/ RenameChoices \/ MoveFiles \/ WriteIndex \/ Succeed
    \/ \E how \in {"failed", "killed"} : Interrupted(how)

CompNext ==
    \/ \E m \in Manifests : Publish(m)
    \/ InstallFiles \/ PlanUpdate
    \/ \E i \in Ids, on \in BOOLEAN : SetComponent(i, on)
    \/ Resolving \/ Applying \/ RecoverUpdate

CompSpec == CompInit /\ [][CompNext]_compVars

-----------------------------------------------------------------------------
\* The phases of an operation whose resolution was accepted.
Accepted == {"apply", "save", "rename", "move", "index", "commit"}

CompTypeOK ==
    /\ manifest \in Tables /\ origin \in Tables /\ files \in SUBSET Ids
    /\ before \in [choices : [Ids -> {"unset", "on", "off"}], active : SUBSET Ids,
                   origin : Tables, files : SUBSET Ids]
    /\ revision \in Nat
    /\ choices \in [Ids -> {"unset", "on", "off"}]
    /\ request \in [what : {"none", "install", "update", "enable", "disable"}, ids : SUBSET Ids,
                    table : Tables, revision : Nat, choices : [Ids -> {"unset", "on", "off"}]]
    /\ phase \in {"idle", "graph", "expand"} \cup Accepted
    /\ count \in [Ids -> Nat]
    /\ resolved \in Nat
    /\ active \subseteq Ids /\ ready \subseteq Ids
    /\ enabled \subseteq Ids /\ pending \subseteq enabled
    /\ verdict \in {"none", "cycle", "conflict", "needed", "stale", "failed", "killed", "done"}

\* No component depends on itself through others: every group of components has
\* one that requires nothing of the group.
Acyclic(m) == \A S \in SUBSET Listed(m) : S # {} => \E i \in S : m[i].requires \cap S = {}

\* validate_dependency_graph accepts exactly the graphs without a cycle, in
\* whatever order its queue offers the components: a cycle never reaches the
\* expansion, and none is reported where there is none.
CyclesFound ==
    /\ phase \in {"expand"} \cup Accepted => Acyclic(request.table)
    /\ verdict = "cycle" => ~ Acyclic(request.table)

Closed(m, S) == \A i \in S : m[i].requires \subseteq S

\* resolve_components enables the least set that contains what is required,
\* chosen or on by default and is closed under requires: every dependency, at
\* any depth, and nothing else.
EnabledIsLeast ==
    phase \in Accepted =>
        /\ Selected(request.table, request.choices) \subseteq enabled
        /\ Closed(request.table, enabled)
        /\ \A S \in SUBSET Ids :
            Selected(request.table, request.choices) \subseteq S /\ Closed(request.table, S) => enabled \subseteq S

\* The components of a table that are installed together: every required component,
\* every dependency, and no two in conflict.
Consistent(m, S) ==
    /\ {i \in Listed(m) : m[i].required} \subseteq S
    /\ S \subseteq Listed(m)
    /\ Closed(m, S)
    /\ \A i \in S : m[i].conflicts \cap S = {}

\* What the index lists fits together, under the manifest it was resolved from,
\* whatever was published, toggled, refused or interrupted since.
ActiveConsistent == Consistent(origin, active)

\* An accepted toggle had the effect it reports: the component is, or is not,
\* among the listed ones, dependencies included (set_component_enabled).
ToggleHonoured ==
    verdict = "done" =>
        /\ request.what = "enable" => request.ids \subseteq active
        /\ request.what = "disable" => request.ids \cap active = {}

\* An operation that reports success leaves every listed component's files in the
\* instance.  The other files there are, after an update or a toggle, exactly those
\* the index did not list before either; after an installation, also those of the
\* components it no longer enables.
FilesFollow ==
    verdict = "done" =>
        /\ active \subseteq files
        /\ IF Installing
           THEN files = before.files \cup active
           ELSE files \ active = Leftover(before)

\* What is installed is what the manifest and the accepted toggle ask for, through
\* stale plans, errors and kills between the files, the index and the choices,
\* recoveries and new revisions (apply_update, install_provider_files).
ActiveCorrect == CompTypeOK /\ ActiveConsistent /\ ToggleHonoured /\ FilesFollow

\* components.json is removed before it is replaced, and what replaces it keeps every
\* choice that was there when the operation got the lock, but for a toggle of that
\* component: not a later default, a revision without the component nor one in which
\* it is required changes it (initialize_selections).  An error or a kill between
\* the two leaves no choices at all (write_selections).
ChoiceKept ==
    [][choices' # choices =>
        \/ phase' = "rename" /\ choices = before.choices /\ choices' = Undecided
        \/ /\ phase = "rename"
           /\ \A i \in Ids : before.choices[i] \notin {"unset", choices'[i]} =>
                request.what \in {"enable", "disable"} /\ request.ids = {i}]_compVars

=============================================================================
