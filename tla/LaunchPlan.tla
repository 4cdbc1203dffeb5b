----------------------------- MODULE LaunchPlan -----------------------------
(***************************************************************************)
(* The launch plan of one instance (minecraft/launch.rs and what it uses)  *)
(* against the installations and updates that change its base, the game    *)
(* version and the loader.  A launch takes no instance lock: every file it *)
(* reads is a step, and a transaction may run between two of them.         *)
(* The overlay is runtime/loader-plan.json, which a base installation      *)
(* writes and a launch composes with the cached version metadata.          *)
(* Provider files, indexes and processes are InstanceTransactions' and     *)
(* ProcessManager's; instance.json is replaced in one step here.           *)
(***************************************************************************)
EXTENDS Naturals, Sequences, FiniteSets

CONSTANTS
    Versions,       \* Minecraft versions
    Metadata,       \* version -> its cached metadata, a GameMetadata
    Loaders,        \* exact loader versions
    LoaderMinimum,  \* loader -> minimum_java_major, 0 where there is none
    NoLoader,       \* a Vanilla instance
    Bases,          \* the bases the provider publishes
    Accounts,       \* authentication providers of the sessions launched with
    Hosts,          \* the machines and Java policies considered
    NoRuntime,      \* no runtime given
    MaxUpdates      \* bound: transactions begun

Base == [version : Versions, loader : Loaders \cup {NoLoader}, auth : SUBSET Accounts]

\* a rule's condition on the host (name, architecture and version together) and on
\* the feature has_custom_resolution
Rule == [allow : BOOLEAN, host : BOOLEAN, feature : {"any", "set", "unset"}]

\* a library is native by its coordinate or not
Library == [id : STRING, rules : Seq(Rule), nativeName : BOOLEAN]

GameMetadata == [java : Nat, minor : Nat, patch : Nat, libraries : Seq(Library), arguments : BOOLEAN]

Runtime == [major : Nat, arch : BOOLEAN, source : {"managed", "system", "explicit", "new"}]

Policy == [managed : BOOLEAN, auto : BOOLEAN, preferManaged : BOOLEAN, preferSystem : BOOLEAN,
           preferred : Nat, selected : Runtime \cup {NoRuntime}]

\* a machine: the runtimes there, the one the caller named, and the policy
Host == [policy : Policy, explicit : Runtime \cup {NoRuntime},
         managed : SUBSET Runtime, system : SUBSET Runtime]

ASSUME LaunchAssumption ==
    /\ \A v \in Versions : Metadata[v] \in GameMetadata
    /\ \A l \in Loaders : LoaderMinimum[l] \in Nat
    /\ Bases \subseteq Base
    /\ NoLoader \notin Loaders \cup [version : Versions, loader : Loaders]
    /\ MaxUpdates \in Nat
    /\ NoRuntime \notin Runtime

\* what is found in the managed directory is managed, what is found elsewhere is not,
\* and an explicit path is neither
ASSUME HostAssumption ==
    \A h \in Hosts :
        /\ h \in Host
        /\ \A r \in h.managed : r.source = "managed"
        /\ \A r \in h.system : r.source = "system"
        /\ h.explicit # NoRuntime => h.explicit.source = "explicit"

VARIABLES
    base,       \* instance.json: the base it asks for
    state,      \* install-state.json: status and version
    overlay,    \* loader-plan.json, or NoLoader
    index,      \* managed-files.json: the version it lists
    natives,    \* the version whose natives the last installation extracted, all its files
                \* being in the cache
    leftover,   \* the staging directories of updates that did not end
    txn,        \* the transaction under the instance lock
    disturbed,  \* history: an update that changes the base, or the writing of a loader
                \* plan, was abandoned, and no base was installed since with every
                \* staging directory gone
    updates,    \* transactions so far
    host,       \* the machine and the policy
    launch      \* the launch under way, or the last one; history: the machine (host)
                \* on which it chose its runtime

launchVars == <<base, state, overlay, index, natives, leftover, txn, disturbed, updates, host, launch>>

instanceVars == <<base, state, overlay, index, natives, leftover>>

NoLaunch == [at |-> "idle", handle |-> CHOOSE b \in Bases : TRUE, overlay |-> NoLoader,
             runtime |-> NoRuntime, host |-> NoRuntime, resolution |-> FALSE, classpath |-> <<>>]

NoTxn(b) == [what |-> "install", at |-> "idle", from |-> b, to |-> b, index |-> b.version]

-----------------------------------------------------------------------------
(***************************************************************************)
(* Java: the requirement and the runtime (java/mod.rs, version.rs).        *)
(***************************************************************************)

\* legacy_java_requirement, for metadata without javaVersion: 1.minor.patch
LegacyMajor(m) ==
    IF m.minor >= 21 \/ (m.minor = 20 /\ m.patch >= 5) THEN 21
    ELSE IF m.minor >= 18 THEN 17
    ELSE IF m.minor = 17 THEN 16 ELSE 8

RequiredMajor(m) == IF m.java # 0 THEN m.java ELSE LegacyMajor(m)

\* with_loader_minimum: the greater of the two.
WithLoaderMinimum(major, loader) ==
    IF loader # NoLoader /\ LoaderMinimum[loader] > major THEN LoaderMinimum[loader] ELSE major

\* JavaPolicy::validate; a policy that fails it never gets a CentralCore.
PolicyValid(p) == ~ (p.preferManaged /\ p.preferSystem) /\ (p.auto => p.managed)

\* runtime_compatible
RuntimeCompatible(r, major) == r.major >= major /\ r.arch

\* min_by_key of the major: any of the lowest.
Lowest(S) == {r \in S : \A q \in S : r.major <= q.major}

SelectManaged(major) == Lowest({r \in host.managed : RuntimeCompatible(r, major)})

\* select_best_java: the preferred major when it satisfies the requirement, else the lowest.
SelectSystem(major) ==
    LET wanted == {r \in host.system : r.major = host.policy.preferred /\ r.arch}
    IN IF host.policy.preferred >= major /\ wanted # {} THEN wanted
       ELSE Lowest({r \in host.system : RuntimeCompatible(r, major)})

ManagedFirst == host.policy.managed /\ host.policy.preferManaged /\ ~ host.policy.preferSystem

Given == IF host.explicit # NoRuntime THEN {host.explicit} ELSE {host.policy.selected} \ {NoRuntime}

\* What install brings: the runtime that the distribution was published for.
Installable(major) ==
    IF host.policy.managed /\ host.policy.auto
    THEN {[major |-> major, arch |-> TRUE, source |-> "new"]} ELSE {}

FirstOf(S, T) == IF S # {} THEN S ELSE T

\* resolve_runtime: the candidates for the requirement; none is an error.  A runtime
\* the user named is taken or refused, never replaced by another one.
ResolveRuntime(major) ==
    IF Given # {}
    THEN {r \in Given : RuntimeCompatible(r, major) /\ (r = host.explicit \/ r \in host.managed)}
    ELSE LET m == IF host.policy.managed THEN SelectManaged(major) ELSE {}
             s == SelectSystem(major)
         IN FirstOf(IF ManagedFirst THEN FirstOf(m, s) ELSE FirstOf(s, m), Installable(major))

-----------------------------------------------------------------------------
(***************************************************************************)
(* Rules, libraries and the classpath (rules.rs, libraries.rs).            *)
(***************************************************************************)

\* RuleContext::matches
Matches(rule, resolution) ==
    /\ rule.host
    /\ rule.feature # "any" => resolution = (rule.feature = "set")

\* mutant: the first rule that matches decides
FirstAllows(rules, resolution) ==
    rules = <<>> \/ \E n \in DOMAIN rules :
        /\ rules[n].allow /\ Matches(rules[n], resolution)
        /\ \A k \in DOMAIN rules : k < n => ~ Matches(rules[k], resolution)

\* RuleContext::allows: every rule in turn, the verdict of the last that matches.
Allows(rules, resolution) ==
    LET allowed[n \in 0..Len(rules)] ==
            IF n = 0 THEN FALSE
            ELSE IF Matches(rules[n], resolution) THEN rules[n].allow ELSE allowed[n - 1]
    IN rules = <<>> \/ allowed[Len(rules)]

\* resolve_libraries: the places of the libraries it keeps.
ResolveLibraries(m, resolution) ==
    {n \in DOMAIN m.libraries : Allows(m.libraries[n].rules, resolution)}

\* finish_install_plan: an installation downloads, and extracts the natives of, the
\* libraries that the rules allow without any of a launch's options.
InstallLibraries(m) == ResolveLibraries(m, FALSE)

\* resolve_library: a coordinate natives-* has no artifact for the classpath.
OnClasspath(l) == ~ l.nativeName

\* The artifacts of the libraries kept, one library after the other, duplicates included.
Artifacts(libraries, kept) ==
    LET entries[n \in 0..Len(libraries)] ==
            IF n = 0 THEN <<>>
            ELSE IF n \in kept /\ OnClasspath(libraries[n])
            THEN Append(entries[n - 1], libraries[n].id) ELSE entries[n - 1]
    IN entries[Len(libraries)]

\* The resolved artifacts, the loader's additions, and last the client.
Classpath(m, loader, resolution) ==
    Artifacts(m.libraries, ResolveLibraries(m, resolution))
        \o (IF loader = NoLoader THEN <<>> ELSE <<"loader">>) \o <<"client">>

-----------------------------------------------------------------------------
(***************************************************************************)
(* The launch.                                                             *)
(***************************************************************************)
\* launch_instance: the instance and the identity; the authentication provider of
\* the session must be one the instance allows.
BeginLaunch(account) ==
    /\ launch.at = "idle"
    /\ account \in base.auth
    /\ launch' = [NoLaunch EXCEPT !.at = "status", !.handle = base]
    /\ UNCHANGED <<instanceVars, txn, disturbed, updates, host>>

\* The launch goes on with what it has read, or returns an error.
Check(here, ok, next) ==
    /\ launch.at = here
    /\ launch' = IF ok THEN next ELSE NoLaunch

\* installed_version: the status,
LaunchStatus ==
    /\ Check("status", state.status = "Installed", [launch EXCEPT !.at = "version"])
    /\ UNCHANGED <<instanceVars, txn, disturbed, updates, host>>

\* then, from the file read again, the version (build_launch_plan_with_cancellation).
LaunchVersion ==
    /\ Check("version", state.version = launch.handle.version, [launch EXCEPT !.at = "overlay"])
    /\ UNCHANGED <<instanceVars, txn, disturbed, updates, host>>

\* mutant: an instance with a loader takes whatever plan there is
AnyOverlay(handle, plan) == (handle.loader = NoLoader) = (plan = NoLoader)

\* The plan of exactly this loader for exactly this version, and none for Vanilla.
OverlayFits(handle, plan) ==
    IF handle.loader = NoLoader THEN plan = NoLoader
    ELSE plan # NoLoader /\ plan.loader = handle.loader /\ plan.version = handle.version

\* load_loader_plan and its check against the handle.
LaunchOverlay ==
    /\ Check("overlay", OverlayFits(launch.handle, overlay),
             [launch EXCEPT !.at = "java", !.overlay = overlay])
    /\ UNCHANGED <<instanceVars, txn, disturbed, updates, host>>

LoaderOf(plan) == IF plan = NoLoader THEN NoLoader ELSE plan.loader

Requirement ==
    WithLoaderMinimum(RequiredMajor(Metadata[launch.handle.version]), LoaderOf(launch.overlay))

\* A runtime that resolve_runtime installed is a managed one from then on.
HostWith(r) ==
    IF r.source = "new" THEN [host EXCEPT !.managed = @ \cup {[r EXCEPT !.source = "managed"]}] ELSE host

\* build_launch_plan, to the runtime.
LaunchJava ==
    /\ launch.at = "java"
    /\ \/ /\ ResolveRuntime(Requirement) = {}
          /\ launch' = NoLaunch
          /\ UNCHANGED host
       \/ \E r \in ResolveRuntime(Requirement) :
            /\ launch' = [launch EXCEPT !.at = "build", !.runtime = r, !.host = host]
            /\ host' = HostWith(r)
    /\ UNCHANGED <<instanceVars, txn, disturbed, updates>>

\* build_launch_plan, the rest, with the caller's options: no file of the instance is
\* read any more.  The natives are named by their directory, whatever it holds.
LaunchBuild(resolution) ==
    LET m == Metadata[launch.handle.version]
    IN /\ Check("build", m.arguments,
                [launch EXCEPT !.at = "ready", !.resolution = resolution,
                               !.classpath = Classpath(m, LoaderOf(launch.overlay), resolution)])
       /\ UNCHANGED <<instanceVars, txn, disturbed, updates, host>>

\* The plan goes to ProcessManager.
Launched ==
    /\ launch.at = "ready"
    /\ launch' = NoLaunch
    /\ UNCHANGED <<instanceVars, txn, disturbed, updates, host>>

-----------------------------------------------------------------------------
(***************************************************************************)
(* Transactions, under the instance lock.                                  *)
(***************************************************************************)
At(step, next) == txn.at = step /\ txn' = [txn EXCEPT !.at = next]

Mark(status, version) == state' = [status |-> status, version |-> version]

SameBase(b, c) == b.version = c.version /\ b.loader = c.loader

\* apply_update: the plan compares instance.json with the definition; the staging
\* directory keeps instance.json and the index.
BeginUpdate(to) ==
    /\ txn.at = "idle"
    /\ updates < MaxUpdates
    /\ updates' = updates + 1
    /\ txn' = [what |-> "update", at |-> IF SameBase(base, to) THEN "commit" ELSE "spec",
               from |-> base, to |-> to, index |-> index]
    /\ Mark("Updating", base.version)
    /\ UNCHANGED <<base, overlay, index, natives, leftover, disturbed, host, launch>>

\* A new installation of the instance, over whatever is there.
BeginInstall ==
    /\ txn.at = "idle"
    /\ updates < MaxUpdates
    /\ updates' = updates + 1
    /\ txn' = [what |-> "install", at |-> "base", from |-> base, to |-> base,
               index |-> index]
    /\ UNCHANGED <<instanceVars, disturbed, host, launch>>

\* A new base: replace_spec_unlocked, before anything of it is there,
ReplaceSpec ==
    /\ At("spec", "base")
    /\ base' = txn.to
    /\ UNCHANGED <<state, overlay, index, natives, leftover, disturbed, updates, host, launch>>

\* then install_mode_unlocked: the mark and the downloads, the natives (under the rules
\* of InstallLibraries), the loader, the index.
InstallBase ==
    /\ At("base", "natives")
    /\ Mark("Installing", txn.to.version)
    /\ UNCHANGED <<base, overlay, index, natives, leftover, disturbed, updates, host, launch>>

CommitNatives ==
    /\ At("natives", "loader")
    /\ natives' = txn.to.version
    /\ UNCHANGED <<base, state, overlay, index, leftover, disturbed, updates, host, launch>>

\* mutant: a plan that is there is taken for the one of this base
PlanMissing(to) == to.loader # NoLoader /\ overlay = NoLoader

\* A plan is written for a base with a loader, and none is removed for one without.
PlanWanted(to) == to.loader # NoLoader

\* execute_loader_plan: a plan with processors needs a Java for the loader alone.
ExecuteLoaderPlan ==
    /\ At("loader", IF PlanWanted(txn.to) THEN "replace" ELSE "index")
    /\ \/ UNCHANGED host
       \/ /\ txn.to.loader # NoLoader
          /\ \E r \in ResolveRuntime(WithLoaderMinimum(8, txn.to.loader)) : host' = HostWith(r)
    /\ UNCHANGED <<instanceVars, disturbed, updates, launch>>

\* write_loader_plan: the old plan is removed,
RemoveLoaderPlan ==
    /\ At("replace", "plan")
    /\ overlay' = NoLoader
    /\ UNCHANGED <<base, state, index, natives, leftover, disturbed, updates, host, launch>>

\* and the rename of the new one.
RenameLoaderPlan ==
    /\ At("plan", "index")
    /\ overlay' = [version |-> txn.to.version, loader |-> txn.to.loader]
    /\ UNCHANGED <<base, state, index, natives, leftover, disturbed, updates, host, launch>>

PersistIndex ==
    /\ At("index", "mark")
    /\ index' = txn.to.version
    /\ UNCHANGED <<base, state, overlay, natives, leftover, disturbed, updates, host, launch>>

\* mark_installed, also in the midst of an update,
InstalledBase ==
    /\ At("mark", IF txn.what = "install" THEN "commit" ELSE "remark")
    /\ Mark("Installed", txn.to.version)
    /\ disturbed' = (leftover # {})
    /\ UNCHANGED <<base, overlay, index, natives, leftover, updates, host, launch>>

\* which marks Updating again and applies its files.
RemarkUpdating ==
    /\ At("remark", "commit")
    /\ Mark("Updating", txn.to.version)
    /\ UNCHANGED <<base, overlay, index, natives, leftover, disturbed, updates, host, launch>>

\* The verification against the index, the documents, and the end.
CommitTxn ==
    /\ At("commit", "idle")
    /\ natives = index
    /\ base' = txn.to
    /\ Mark("Installed", txn.to.version)
    /\ UNCHANGED <<overlay, index, natives, leftover, disturbed, updates, host, launch>>

Staged == IF txn.what = "update" THEN {[base |-> txn.from, index |-> txn.index]} ELSE {}

\* The transaction ends where it is: instance.json, the natives and the loader plan
\* stay, and so does the staging directory of an update.
Abandon ==
    /\ txn.at # "idle"
    /\ txn' = [txn EXCEPT !.at = "idle"]
    /\ leftover' = leftover \cup Staged
    /\ disturbed' = (disturbed \/ ~ SameBase(txn.from, txn.to) \/ txn.at = "plan")
    /\ UNCHANGED <<base, overlay, index, natives, updates, host, launch>>

\* The error arms of the update and of the installation,
TxnFails ==
    /\ Abandon
    /\ IF txn.what = "update" THEN Mark("Interrupted", txn.from.version)
       ELSE \E status \in {"Broken", "Interrupted"} : Mark(status, txn.to.version)

\* and a kill.
TxnKilled == Abandon /\ UNCHANGED state

\* A startup restores instance.json and the index from the staging directories, in
\* any order, and promotes the instance when the index verifies (recover).
Recovery ==
    /\ txn.at = "idle"
    /\ state.status \in {"Installing", "Updating", "Interrupted"}
    /\ \E r \in IF leftover = {} THEN {[base |-> base, index |-> index]} ELSE leftover :
        /\ base' = r.base
        /\ index' = r.index
        /\ Mark(IF natives = r.index THEN "Installed" ELSE "Interrupted", r.base.version)
    /\ leftover' = {}
    /\ UNCHANGED <<overlay, natives, txn, disturbed, updates, host, launch>>

LaunchInit ==
    /\ host \in {h \in Hosts : PolicyValid(h.policy)}
    /\ base \in Bases
    /\ state = [status |-> "Installed", version |-> base.version]
    /\ overlay = IF base.loader = NoLoader THEN NoLoader
                 ELSE [version |-> base.version, loader |-> base.loader]
    /\ index = base.version
    /\ natives = base.version
    /\ leftover = {}
    /\ txn = NoTxn(base)
    /\ disturbed = FALSE
    /\ updates = 0
    /\ launch = NoLaunch

LaunchNext ==
    \/ \E account \in Accounts : BeginLaunch(account)
    \/ LaunchStatus \/ LaunchVersion \/ LaunchOverlay \/ LaunchJava
    \/ (\E resolution \in BOOLEAN : LaunchBuild(resolution)) \/ Launched
    \/ (\E to \in Bases : BeginUpdate(to)) \/ BeginInstall
    \/ ReplaceSpec \/ InstallBase \/ CommitNatives
    \/ ExecuteLoaderPlan \/ RemoveLoaderPlan \/ RenameLoaderPlan \/ PersistIndex
    \/ InstalledBase \/ RemarkUpdating \/ CommitTxn \/ TxnFails \/ TxnKilled \/ Recovery

LaunchSpec == LaunchInit /\ [][LaunchNext]_launchVars

-----------------------------------------------------------------------------
\* Every version in the documents is one the provider published a base for, and a
\* plan is ready only with a runtime.
LaunchTypeOK ==
    /\ base \in Bases
    /\ state \in [status : {"Installed", "Updating", "Installing", "Interrupted", "Broken"}, version : Versions]
    /\ overlay \in [version : Versions, loader : Loaders] \cup {NoLoader}
    /\ natives \in Versions /\ index \in Versions
    /\ launch.at = "ready" => launch.runtime # NoRuntime

\* A plan that is ready is of one base, although nothing is locked and an update may
\* run between the reads: its loader is the one of the instance the caller read, for
\* the same game version (build_launch_plan_with_cancellation).
PlanCoherent ==
    launch.at = "ready" => LoaderOf(launch.overlay) = launch.handle.loader
                           /\ (launch.overlay # NoLoader => launch.overlay.version = launch.handle.version)

\* An installation of base b brought its files and extracted its natives.
BaseThere(b) == natives = b.version

\* A ready plan of the base that is, still or again, the installed one finds that
\* base's natives and libraries, and its loader plan is the one on disk.  (A transaction
\* may replace the natives or the plan after the launch has read the documents, and
\* nothing tells the launch: of a plan whose base is no longer the installed one only
\* PlanCoherent is promised.)
PlanCurrent ==
    /\ launch.at = "ready"
    /\ txn.at = "idle" /\ ~ disturbed /\ state.status = "Installed" /\ SameBase(base, launch.handle)
    => /\ BaseThere(launch.handle)
       /\ launch.handle.loader # NoLoader => launch.overlay = overlay

\* What the documented order names on machine h, for a game and a loader: a runtime the
\* user named or none, an installed one before a download, the preferred source first,
\* the lowest that fits (of the system's, the preferred major first); nothing is
\* downloaded unless the policy allows it.
RightRuntime(r, h, m, loader) ==
    LET named == IF h.explicit # NoRuntime THEN h.explicit ELSE h.policy.selected
        first == h.policy.managed /\ h.policy.preferManaged /\ ~ h.policy.preferSystem
        fits(q) == /\ q.arch /\ q.major >= RequiredMajor(m)
                   /\ loader # NoLoader => q.major >= LoaderMinimum[loader]
        local == (IF h.policy.managed THEN h.managed ELSE {}) \cup h.system
    IN  /\ fits(r)
        /\ named # NoRuntime => r = named
        /\ named = NoRuntime =>
              /\ r.source = "new" => h.policy.auto /\ \A q \in local : ~ fits(q)
              /\ r.source = "system" => ~ (first /\ \E q \in h.managed : fits(q))
              /\ r.source = "managed" => first \/ \A q \in h.system : ~ fits(q)
              /\ r.source # "new" => r \in local
              /\ \A q \in local : q.source = r.source /\ fits(q) =>
                    r.major <= q.major \/ r.major = h.policy.preferred

\* The runtime of a plan fits the game, the loader and the machine, and is the one the
\* documented order names on the machine as the launch found it (resolve_runtime,
\* docs/java.md:25-27).  It has the required major exactly when its source, the
\* managed or the system's runtimes, offers that and no other major is preferred;
\* a greater one of the first source goes before the exact one of the second.
RuntimeFits ==
    launch.at = "ready" =>
        RightRuntime(launch.runtime, launch.host, Metadata[launch.handle.version], launch.handle.loader)

\* A rule list allows exactly when it is empty or some allowing rule matches and none
\* that matches comes after it.
Permitted(rules, resolution) ==
    rules = <<>> \/ \E n \in DOMAIN rules :
        /\ rules[n].allow /\ Matches(rules[n], resolution)
        /\ \A k \in DOMAIN rules : k > n => ~ Matches(rules[k], resolution)

\* A ready plan has the libraries its rules allow on this host on the classpath and no
\* other, in the order of the metadata and as often as it lists them, then the loader's
\* of the instance the caller read, and the client last; native coordinates are never
\* on the classpath (resolve_libraries, build_launch_plan).  An installation of that
\* version has downloaded each of them, unless its rules ask for an option that the
\* launch sets: no installation knows the options (finish_install_plan).
ClasspathComplete ==
    LET libraries == Metadata[launch.handle.version].libraries
        permitted == {n \in DOMAIN libraries : Permitted(libraries[n].rules, launch.resolution)}
        jars == {n \in permitted : ~ libraries[n].nativeName}
        last == IF launch.handle.loader = NoLoader THEN <<"client">> ELSE <<"loader", "client">>
        cp == launch.classpath
    IN launch.at = "ready" =>
        /\ Len(cp) = Cardinality(jars) + Len(last)
        /\ \A n \in jars : cp[Cardinality(jars \cap 1..n)] = libraries[n].id
        /\ \A k \in DOMAIN last : cp[Cardinality(jars) + k] = last[k]
        /\ \A n \in jars :
              \/ n \in InstallLibraries(Metadata[launch.handle.version])
              \/ launch.resolution /\ \E k \in DOMAIN libraries[n].rules :
                                        libraries[n].rules[k].feature # "any"

\* The types, and that a plan, although nothing is locked while it is made, is of one
\* base, finds that base's files unless another one was installed meanwhile, and has
\* the runtime that base asks for (build_launch_plan, resolve_runtime).
LaunchInv == LaunchTypeOK /\ PlanCoherent /\ PlanCurrent /\ RuntimeFits

\* After any sequence of installations and updates, and of updates that failed over
\* their own files, an instance that says Installed has the natives of its version
\* and, with a loader, the plan of exactly that loader, so that it launches.  An update that changes the base and
\* is abandoned disturbs that, and so does a kill between the removal of the old
\* plan and the rename of the new one, until every staging directory is gone and a
\* base is installed (write_loader_plan).
CommittedOverlayFits ==
    /\ txn.at = "idle" /\ ~ disturbed
    /\ state.status = "Installed"
    => BaseThere(base) /\ (base.loader # NoLoader => OverlayFits(base, overlay))

\* (docs/update.md) A launch plan launches the installed state: the loader plan of an
\* instance that says Installed is the one its launch will accept.
InstalledLaunches == txn.at = "idle" /\ state.status = "Installed" => OverlayFits(base, overlay)
=============================================================================
