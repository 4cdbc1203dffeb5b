---------------------------- MODULE LaunchProofs ----------------------------
(***************************************************************************)
(* Proofs about what a launch rests on: the managed runtimes (ManagedJava, *)
(* for any number of processes, operations and faults and any files of a   *)
(* runtime) and the launch plan (LaunchPlan, for any versions, loaders,    *)
(* bases, machines, policies and transactions).                            *)
(***************************************************************************)
EXTENDS ManagedJava, LaunchPlan, FiniteSetTheorems, WellFoundedInduction, TLAPS

Labels == {"down", "recover", "idle", "lock", "verify", "download", "extract", "probe", "commit",
           "removeLock", "find", "removing", "deselect", "select", "spawn"}

\* The types that JavaTypeOK leaves open, and a directory that is gone is empty.
MoreTypes ==
    /\ at \in [Processes -> Labels]
    /\ left \in [Processes -> SUBSET (Parts \cup Processes)]
    /\ games \subseteq Processes
    /\ selected \in BOOLEAN
    /\ runtime.there \/ runtime = Gone

\* What an installation relies on until it commits, unless a recovery swept its
\* staging directory: each file was extracted or is still to be, and the manifest
\* is written before the commit.
StagingInv ==
    \A p \in Processes :
        at[p] \in {"extract", "probe", "commit"} /\ "recovery" \notin excused =>
            /\ Parts \subseteq staging[p].parts \cup left[p]
            /\ at[p] = "commit" => staging[p].manifest

\* A removal on its way to the lock is in the position of one that has it.
WaitingInv ==
    \A p \in Processes : at[p] = "removeLock" /\ games # {} => p \in late

JavaIInv == JavaInv /\ MoreTypes /\ StagingInv /\ WaitingInv

-----------------------------------------------------------------------------
\* remove_dir_all only ever takes away.
LEMMA FewerShrinks ==
    ASSUME NEW d \in Directories, NEW e \in Fewer(d)
    PROVE  /\ e \in Directories
           /\ e.parts \subseteq d.parts
           /\ e.manifest => d.manifest
           /\ e = Gone \/ e.there = d.there
<1>1. CASE \E part \in d.parts : e = [d EXCEPT !.parts = @ \ {part}]
  BY <1>1 DEF Directories
<1>2. CASE d.manifest /\ e = [d EXCEPT !.manifest = FALSE]
  BY <1>2 DEF Directories
<1>3. CASE e = Gone
  BY <1>3 DEF Directories, Gone
<1> QED BY <1>1, <1>2, <1>3 DEF Fewer, Directories

\* A smaller runtime verifies only if the larger one did.
LEMMA VerifiedShrinks ==
    ASSUME runtime \in Directories, runtime' \in Directories,
           runtime'.parts \subseteq runtime.parts, runtime'.manifest => runtime.manifest,
           Verified'
    PROVE  Verified
BY DEF Verified, Found, Runs

LEMMA JavaStarts == JavaInit => JavaIInv
<1> SUFFICES ASSUME JavaInit PROVE JavaIInv
  OBVIOUS
<1>1. runtime \in Directories /\ Gone \in Directories /\ (runtime.there \/ runtime = Gone)
  <2>1. Gone \in Directories /\ Whole \in Directories /\ Whole.there
    BY DEF Gone, Whole, Directories
  <2> QED BY <2>1 DEF JavaInit
<1>2. CommittedWhole
  BY DEF JavaInit, CommittedWhole, Gone, Whole
<1>3. JavaTypeOK /\ MoreTypes
  BY <1>1 DEF JavaInit, JavaTypeOK, MoreTypes, Labels
<1>4. SelectedExists /\ WorkingRuntimeKept /\ RunningRuntimeKept /\ StagingInv /\ WaitingInv
  BY DEF JavaInit, SelectedExists, WorkingRuntimeKept, RunningRuntimeKept, StagingInv, WaitingInv
<1> QED BY <1>2, <1>3, <1>4 DEF JavaIInv, JavaInv

-----------------------------------------------------------------------------
\* Steps that leave the directories and the selection alone.
LEMMA LabelSteps ==
    ASSUME JavaIInv, NEW p \in Processes,
           \/ Install(p) \/ InstallCached(p) \/ Repair(p) \/ Remove(p) \/ Select(p) \/ Resolve(p)
           \/ Lock(p) \/ VerifyFirst(p) \/ Extracted(p) \/ FindToRemove(p) \/ Spawn(p)
           \/ GameEnds(p) \/ Kill(p) \/ Start(p) \/ Recovered(p)
    PROVE  JavaIInv'
<1> USE DEF JavaIInv, JavaInv, Advance, Finish, DropLock, Begin, disk, counters, history
<1>1. runtime' = runtime /\ staging' = staging /\ selected' = selected /\ excused' = excused
  BY DEF Install, InstallCached, Repair, Remove, Select, Resolve, Lock, VerifyFirst, Extracted,
     FindToRemove, Spawn, GameEnds, Kill, Start, Recovered
<1>2. MoreTypes'
  BY <1>1 DEF MoreTypes, Install, InstallCached, Repair, Remove, Select, Resolve, Lock, VerifyFirst,
     Extracted, FindToRemove, Spawn, GameEnds, Kill, Start, Recovered, Labels
<1>3. JavaTypeOK'
  BY <1>1, JavaAssumption DEF JavaTypeOK, MoreTypes, Install, InstallCached, Repair, Remove, Select,
     Resolve, Lock, Free, VerifyFirst, Extracted, FindToRemove, Spawn, GameEnds, Kill, Start, Recovered
<1>4. CommittedWhole' /\ SelectedExists'
  BY <1>1 DEF CommittedWhole, SelectedExists, Found
<1>5. WorkingRuntimeKept'
  BY <1>1 DEF WorkingRuntimeKept, MoreTypes, Verified, Found, Runs, AlreadyInstalled, Install,
     InstallCached, Repair, Remove, Select, Resolve, Lock, VerifyFirst, Extracted, FindToRemove,
     Spawn, GameEnds, Kill, Start, Recovered
<1>6. StagingInv'
  BY <1>1 DEF StagingInv, JavaTypeOK, MoreTypes, Install, InstallCached, Repair, Remove, Select, Resolve,
     Lock, VerifyFirst, Extracted, ExtractedAll, FindToRemove, Spawn, GameEnds, Kill, Start, Recovered
<1>7. RunningRuntimeKept' /\ WaitingInv'
  BY <1>1 DEF RunningRuntimeKept, WaitingInv, MoreTypes, NotRunning, Install, InstallCached, Repair,
     Remove, Select, Resolve, Lock, VerifyFirst, Extracted, FindToRemove, Spawn, GameEnds, Kill,
     Start, Recovered
<1> QED BY <1>2, <1>3, <1>4, <1>5, <1>6, <1>7

\* An installation up to its commit writes its staging directory.
LEMMA StagingSteps ==
    ASSUME JavaIInv, NEW p \in Processes,
           \/ Download(p) \/ (\E part \in Parts : Extract(p, part)) \/ Probe(p) \/ InstallFails(p)
           \/ \E q \in Processes : Recover(p, q)
    PROVE  JavaIInv'
<1> USE DEF JavaIInv, JavaInv, Advance, Finish, DropLock, disk, counters, history
<1>1. runtime' = runtime /\ selected' = selected /\ games' = games /\ late' = late
  BY DEF Download, Extract, Probe, InstallFails, Recover
<1>2. excused \subseteq excused' /\ excused' \subseteq excused \cup {"recovery"}
  BY DEF Download, Extract, Probe, InstallFails, Recover
<1>3. CommittedWhole' /\ SelectedExists'
  BY <1>1, <1>2 DEF CommittedWhole, SelectedExists, Found
<1>4. at' \in [Processes -> Labels] /\ left' \in [Processes -> SUBSET (Parts \cup Processes)]
  <2>1. CASE Download(p) \/ Probe(p) \/ InstallFails(p)
    BY <2>1 DEF MoreTypes, Labels, Download, Probe, InstallFails
  <2>2. CASE \E part \in Parts : Extract(p, part)
    BY <2>2 DEF MoreTypes, Extract
  <2>3. CASE \E q \in Processes : Recover(p, q)
    <3>1. PICK q \in Processes : Recover(p, q)
      BY <2>3
    <3>2. at' \in [Processes -> Labels]
      BY <3>1 DEF MoreTypes, Labels, Recover, StartFails
    <3>3. left' \in {left, [left EXCEPT ![p] = @ \ {q}], [left EXCEPT ![p] = {}]}
      BY <3>1 DEF Recover, StartFails
    <3> QED BY <3>2, <3>3 DEF MoreTypes
  <2> QED BY <2>1, <2>2, <2>3
<1>5. staging' \in [Processes -> Directories]
  <2>1. CASE \E q \in Processes : Recover(p, q)
    BY <2>1, FewerShrinks DEF Recover, JavaTypeOK
  <2>2. CASE \E part \in Parts : Extract(p, part)
    <3>1. PICK part \in Parts : Extract(p, part)
      BY <2>2
    <3>2. [staging[p] EXCEPT !.there = TRUE, !.parts = @ \cup {part}] \in Directories
      BY DEF JavaTypeOK, Directories
    <3> QED BY <3>1, <3>2 DEF JavaTypeOK, Extract
  <2>3. CASE Download(p) \/ InstallFails(p)
    <3>1. Gone \in Directories /\ Empty \in Directories
      BY DEF Gone, Empty, Directories
    <3> QED BY <2>3, <3>1 DEF JavaTypeOK, Download, InstallFails
  <2>4. CASE Probe(p)
    <3>1. [staging[p] EXCEPT !.manifest = TRUE] \in Directories
      BY DEF JavaTypeOK, Directories
    <3> QED BY <2>4, <3>1 DEF JavaTypeOK, Probe
  <2> QED BY <2>1, <2>2, <2>3, <2>4
<1>6. JavaTypeOK' /\ MoreTypes'
  BY <1>1, <1>4, <1>5, JavaAssumption DEF JavaTypeOK, MoreTypes, Download, Extract, Probe,
     InstallFails, Recover, StartFails
<1>7. WorkingRuntimeKept' /\ RunningRuntimeKept' /\ WaitingInv'
  BY <1>1 DEF WorkingRuntimeKept, RunningRuntimeKept, WaitingInv, MoreTypes, Verified, Found, Runs,
     Download, Extract, Probe, InstallFails, Recover, StartFails
<1>8. StagingInv'
  <2>1. CASE \E q \in Processes : Recover(p, q)
    BY <2>1 DEF StagingInv, MoreTypes, JavaTypeOK, Recover, StartFails
  <2>2. CASE Download(p)
    BY <2>2 DEF StagingInv, MoreTypes, JavaTypeOK, Download, Empty, Gone
  <2>3. CASE \E part \in Parts : Extract(p, part)
    <3>1. PICK part \in Parts : Extract(p, part)
      BY <2>3
    <3>2. /\ at' = at /\ excused' = excused
          /\ staging'[p].parts = staging[p].parts \cup {part} /\ left'[p] = left[p] \ {part}
          /\ at[p] = "extract"
          /\ \A q \in Processes : q # p => staging'[q] = staging[q] /\ left'[q] = left[q]
      BY <3>1 DEF MoreTypes, JavaTypeOK, Extract, Directories
    <3> QED BY <3>2 DEF StagingInv
  <2>4. CASE Probe(p) \/ InstallFails(p)
    BY <2>4 DEF StagingInv, MoreTypes, JavaTypeOK, Probe, InstallFails, Directories
  <2> QED BY <2>1, <2>2, <2>3, <2>4
<1> QED BY <1>3, <1>6, <1>7, <1>8

\* Files of the runtime go: a replacement, a removal, damage.
LEMMA ShrinkSteps ==
    ASSUME JavaIInv, Damage \/ \E p \in Processes : Clear(p) \/ Removing(p)
    PROVE  JavaIInv'
<1> USE DEF JavaIInv, JavaInv, Advance, DropLock
<1>1. /\ runtime' \in Directories /\ runtime'.parts \subseteq runtime.parts
      /\ runtime'.manifest => runtime.manifest
      /\ runtime'.there \/ runtime' = Gone
  <2>1. CASE Damage
    BY <2>1 DEF Damage, JavaTypeOK, MoreTypes, Directories, Gone
  <2>2. CASE \E p \in Processes : Clear(p) \/ Removing(p)
    BY <2>2, FewerShrinks DEF Clear, Removing, JavaTypeOK, MoreTypes, Fewer, Gone, Empty
  <2> QED BY <2>1, <2>2
<1>2. /\ staging' = staging /\ selected' = selected /\ games' = games /\ late' = late /\ left' = left
      /\ "recovery" \notin excused' => "recovery" \notin excused
      /\ excused \subseteq excused'
      /\ runtime' = runtime \/ "damage" \in excused' \/ "removal" \in excused'
      /\ runtime'.manifest = runtime.manifest \/ "removal" \in excused'
  BY DEF Damage, Clear, Removing, JavaTypeOK, Directories
<1>3. /\ lock' \in Processes \cup {NoProcess}
      /\ at' \in [Processes -> Labels]
      /\ \A p \in Processes : at'[p] = at[p] \/ at'[p] = "deselect"
  BY DEF Damage, Clear, Removing, JavaTypeOK, MoreTypes, Labels
<1>4. JavaTypeOK' /\ MoreTypes'
  BY <1>1, <1>2, <1>3, JavaAssumption DEF JavaTypeOK, MoreTypes, Damage, Clear, Removing
<1>5. CommittedWhole' /\ SelectedExists'
  BY <1>1, <1>2 DEF CommittedWhole, SelectedExists, Found, JavaTypeOK, Directories
<1>6. WorkingRuntimeKept'
  <2>1. Verified' => Verified
    BY <1>1, VerifiedShrinks DEF JavaTypeOK
  <2> QED BY <1>3, <2>1 DEF WorkingRuntimeKept
<1>7. StagingInv' /\ RunningRuntimeKept' /\ WaitingInv'
  BY <1>2, <1>3 DEF StagingInv, RunningRuntimeKept, WaitingInv
<1> QED BY <1>4, <1>5, <1>6, <1>7

\* The commit puts a whole runtime in place, unless its staging directory was swept.
LEMMA CommitStep ==
    ASSUME JavaIInv, NEW p \in Processes, Commit(p)
    PROVE  JavaIInv'
<1> USE DEF JavaIInv, JavaInv, Advance, Finish, DropLock, Commit
<1>1. at[p] = "commit" /\ lock = p /\ left[p] = {} /\ runtime = Gone
  BY DEF JavaTypeOK, MoreTypes
<1>2. JavaTypeOK' /\ MoreTypes'
  <2>1. runtime' \in Directories /\ staging' \in [Processes -> Directories] /\ Gone \in Directories
    BY <1>1 DEF JavaTypeOK, Directories, Gone
  <2>2. runtime'.there \/ runtime' = Gone
    BY <1>1
  <2>3. at' = [at EXCEPT ![p] = "idle"] /\ left' = left /\ lock' = NoProcess
    BY <1>1
  <2> QED BY <1>1, <2>1, <2>2, <2>3, JavaAssumption DEF JavaTypeOK, MoreTypes, Labels
<1>3. CommittedWhole'
  <2>1. CASE staging[p].there
    <3>1. "recovery" \notin excused => Parts \subseteq staging[p].parts
      BY <1>1 DEF StagingInv
    <3>2. "recovery" \in excused => "recovery" \in excused'
      BY <2>1
    <3>3. staging[p].parts \subseteq Parts /\ runtime' = staging[p]
      BY <2>1 DEF JavaTypeOK, Directories
    <3> QED BY <3>1, <3>2, <3>3 DEF CommittedWhole
  <2>2. CASE ~ staging[p].there
    BY <2>2 DEF CommittedWhole
  <2> QED BY <2>1, <2>2
<1>4. SelectedExists'
  BY <1>1 DEF SelectedExists, StagingInv, Found, Gone
<1>5. WorkingRuntimeKept'
  BY <1>1 DEF WorkingRuntimeKept, JavaTypeOK, MoreTypes
<1>6. StagingInv'
  BY <1>1 DEF StagingInv, MoreTypes, JavaTypeOK
<1>7. RunningRuntimeKept' /\ WaitingInv'
  BY <1>1 DEF RunningRuntimeKept, WaitingInv, MoreTypes
<1> QED BY <1>2, <1>3, <1>4, <1>5, <1>6, <1>7

\* The configuration follows a removal, or a selection.
LEMMA SelectionSteps ==
    ASSUME JavaIInv, NEW p \in Processes, Deselect(p) \/ WriteSelection(p)
    PROVE  JavaIInv'
<1> USE DEF JavaIInv, JavaInv, Advance, Deselect, WriteSelection
<1>1. JavaTypeOK' /\ MoreTypes'
  BY DEF JavaTypeOK, MoreTypes, Labels, ClearedSelection
<1>2. CommittedWhole' /\ SelectedExists'
  BY DEF CommittedWhole, SelectedExists, Found, ClearedSelection, MoreTypes, Gone
<1>3. WorkingRuntimeKept' /\ StagingInv' /\ RunningRuntimeKept' /\ WaitingInv'
  BY DEF WorkingRuntimeKept, StagingInv, RunningRuntimeKept, WaitingInv, MoreTypes, Verified, Found,
     Runs
<1> QED BY <1>1, <1>2, <1>3

LEMMA JavaStep == JavaIInv /\ [JavaNext]_javaVars => JavaIInv'
<1> SUFFICES ASSUME JavaIInv, [JavaNext]_javaVars PROVE JavaIInv'
  OBVIOUS
<1>1. CASE UNCHANGED javaVars
  BY <1>1 DEF javaVars, disk, counters, history, JavaIInv, JavaInv, JavaTypeOK, CommittedWhole,
     WorkingRuntimeKept, SelectedExists, RunningRuntimeKept, MoreTypes, StagingInv, WaitingInv,
     Verified, Found, Runs
<1>2. CASE JavaNext
  BY <1>2, LabelSteps, StagingSteps, ShrinkSteps, CommitStep, SelectionSteps DEF JavaNext, Work
<1> QED BY <1>1, <1>2

-----------------------------------------------------------------------------
\* However many processes install, repair, remove, select and use a managed runtime and
\* are killed: what is committed is whole, a working runtime is never cleared, a
\* selection names a runtime that exists and a removal spares the games it could see.
THEOREM RuntimeKept == JavaSpec => []JavaInv
<1>1. JavaIInv => JavaInv
  BY DEF JavaIInv
<1> QED BY <1>1, JavaStarts, JavaStep, PTL DEF JavaSpec

-----------------------------------------------------------------------------
(***************************************************************************)
(* The launch plan.  A plan is of one base because what a launch has read  *)
(* (Chosen) was compared with the handle it began with; the types carry    *)
(* the sources of the runtimes, by which the order of the candidates is    *)
(* told apart.                                                             *)
(***************************************************************************)
\* A set of numbers that is not empty has a least one.
LEMMA LeastNumber ==
    ASSUME NEW T \in SUBSET Nat, T # {} PROVE \E x \in T : \A y \in T : x <= y
<1> DEFINE R == OpToRel(<, Nat)
<1>1. IsWellFoundedOn(R, Nat)
  BY NatLessThanWellFounded
<1>2. R = {ss \in Nat \X Nat : ss[1] < ss[2]}
  BY DEF OpToRel
<1> HIDE DEF R
<1>3. PICK x \in T : \A y \in T : ~ (<<y, x>> \in R)
  BY <1>1, WFMin
<1>4. ASSUME NEW y \in T PROVE x <= y
  <2>1. <<y, x>> \in Nat \X Nat /\ <<y, x>>[1] = y /\ <<y, x>>[2] = x
    OBVIOUS
  <2>2. y < x => <<y, x>> \in R
    BY <1>2, <2>1
  <2> QED BY <1>3, <2>2
<1> QED BY <1>4

TxnLabels ==
    {"idle", "spec", "base", "natives", "loader", "replace", "plan", "index", "mark", "remark",
     "commit"}

Txn == [what : {"install", "update"}, at : TxnLabels, from : Bases, to : Bases, index : Versions]

Overlay == [version : Versions, loader : Loaders] \cup {NoLoader}

\* the sources of the runtimes of a machine
Sorted(h) ==
    /\ h \in Host
    /\ \A r \in h.managed : r.source = "managed"
    /\ \A r \in h.system : r.source = "system"
    /\ h.explicit # NoRuntime => h.explicit.source = "explicit"

\* The types that LaunchTypeOK leaves open.
Shape ==
    /\ launch \in [at : {"idle", "status", "version", "overlay", "java", "build", "ready"},
                   handle : Bases, overlay : Overlay, runtime : Runtime \cup {NoRuntime},
                   host : Host \cup {NoRuntime}, resolution : {launch.resolution},
                   classpath : {launch.classpath}]
    /\ txn \in Txn
    /\ txn.at \in {"replace", "plan"} => txn.to.loader # NoLoader
    /\ leftover \subseteq [base : Bases, index : Versions]
    /\ disturbed \in BOOLEAN
    /\ Sorted(host)

\* What a launch has read and chosen so far.
Chosen ==
    /\ launch.at \in {"java", "build", "ready"} => OverlayFits(launch.handle, launch.overlay)
    /\ launch.at \in {"build", "ready"} =>
          /\ launch.runtime \in Runtime
          /\ RightRuntime(launch.runtime, launch.host, Metadata[launch.handle.version],
                          launch.handle.loader)

LaunchIInv == LaunchTypeOK /\ Shape /\ Chosen

\* A base is a version and a loader, or none.
LEMMA BaseTyped ==
    ASSUME NEW b \in Bases PROVE b.version \in Versions /\ b.loader \in Loaders \cup {NoLoader}
BY LaunchAssumption DEF LaunchAssumption, Base

LEMMA NoLaunchTyped ==
    ASSUME base \in Bases
    PROVE  /\ NoLaunch.at = "idle" /\ NoLaunch.handle \in Bases /\ NoLaunch.overlay = NoLoader
           /\ NoLaunch \in [at : {"idle"}, handle : Bases, overlay : {NoLoader},
                            runtime : {NoRuntime}, host : {NoRuntime}, resolution : {FALSE},
                            classpath : {<<>>}]
<1>1. (CHOOSE b \in Bases : TRUE) \in Bases
  OBVIOUS
<1> QED BY <1>1 DEF NoLaunch

\* A requirement is a number, at least the game's and the loader's.
LEMMA RequirementBounds ==
    ASSUME NEW m \in GameMetadata, NEW loader \in Loaders \cup {NoLoader},
           NEW n, n = WithLoaderMinimum(RequiredMajor(m), loader)
    PROVE  /\ n \in Nat /\ RequiredMajor(m) \in Nat
           /\ \A k \in Nat : k >= n <=> /\ k >= RequiredMajor(m)
                                        /\ loader # NoLoader => k >= LoaderMinimum[loader]
<1>1. RequiredMajor(m) \in Nat
  BY DEF GameMetadata, RequiredMajor, LegacyMajor
<1>2. loader # NoLoader => LoaderMinimum[loader] \in Nat
  BY LaunchAssumption DEF LaunchAssumption
<1> QED BY <1>1, <1>2 DEF WithLoaderMinimum

\* Where a runtime is compatible there is a lowest one.
LEMMA LowestFound ==
    ASSUME NEW S \in SUBSET Runtime, S # {} PROVE Lowest(S) # {}
<1> DEFINE T == {r.major : r \in S}
<1>1. T \in SUBSET Nat /\ T # {}
  BY DEF Runtime
<1>2. PICK x \in T : \A y \in T : x <= y
  BY <1>1, LeastNumber
<1>3. PICK r \in S : r.major = x
  OBVIOUS
<1> QED BY <1>2, <1>3 DEF Lowest

\* resolve_runtime returns what the documented order names.
LEMMA ResolvesRight ==
    ASSUME Sorted(host), NEW m \in GameMetadata, NEW loader \in Loaders \cup {NoLoader},
           NEW r \in ResolveRuntime(WithLoaderMinimum(RequiredMajor(m), loader))
    PROVE  r \in Runtime /\ RightRuntime(r, host, m, loader)
<1> DEFINE n == WithLoaderMinimum(RequiredMajor(m), loader)
           named == IF host.explicit # NoRuntime THEN host.explicit ELSE host.policy.selected
           local == (IF host.policy.managed THEN host.managed ELSE {}) \cup host.system
           fits(q) == /\ q.arch /\ q.major >= RequiredMajor(m)
                      /\ loader # NoLoader => q.major >= LoaderMinimum[loader]
<1>1. n \in Nat /\ \A q \in Runtime : RuntimeCompatible(q, n) <=> fits(q)
  BY RequirementBounds DEF RuntimeCompatible, Runtime
<1>2. /\ host.managed \subseteq Runtime /\ host.system \subseteq Runtime
      /\ host.policy \in Policy /\ host.explicit \in Runtime \cup {NoRuntime}
      /\ named \in Runtime \cup {NoRuntime}
  BY DEF Sorted, Host, Policy
<1>3. Given = {named} \ {NoRuntime}
  BY DEF Given
<1>4. NoRuntime \notin Runtime
  BY LaunchAssumption DEF LaunchAssumption
<1>5. CASE named # NoRuntime
  <2>1. r = named /\ RuntimeCompatible(r, n)
    BY <1>3, <1>5 DEF ResolveRuntime
  <2>2. r \in Runtime /\ fits(r)
    BY <1>1, <1>2, <1>5, <2>1
  <2> QED BY <1>5, <2>1, <2>2 DEF RightRuntime
<1>6. CASE named = NoRuntime
  <2> DEFINE ms == IF host.policy.managed THEN SelectManaged(n) ELSE {}
             ss == SelectSystem(n)
  <2>1. r \in FirstOf(IF ManagedFirst THEN FirstOf(ms, ss) ELSE FirstOf(ss, ms), Installable(n))
    BY <1>3, <1>6 DEF ResolveRuntime
  <2>2. \A q \in ms : /\ q \in Runtime /\ q.source = "managed" /\ q \in local /\ fits(q)
                      /\ \A p \in host.managed : fits(p) => q.major <= p.major
    BY <1>1, <1>2 DEF SelectManaged, Lowest, Sorted
  <2>3. \A q \in ss : /\ q \in Runtime /\ q.source = "system" /\ q \in local /\ fits(q)
                      /\ \/ q.major = host.policy.preferred
                         \/ \A p \in host.system : fits(p) => q.major <= p.major
    <3> SUFFICES ASSUME NEW q \in ss
                 PROVE  /\ q \in Runtime /\ q.source = "system" /\ q \in local /\ fits(q)
                        /\ \/ q.major = host.policy.preferred
                           \/ \A p \in host.system : fits(p) => q.major <= p.major
      OBVIOUS
    <3> DEFINE wanted == {p \in host.system : p.major = host.policy.preferred /\ p.arch}
               low == Lowest({p \in host.system : RuntimeCompatible(p, n)})
    <3>1. \/ q \in wanted /\ host.policy.preferred >= n
          \/ q \in low
      BY DEF SelectSystem
    <3>2. CASE q \in wanted /\ host.policy.preferred >= n
      <4>1. q \in Runtime /\ RuntimeCompatible(q, n)
        BY <1>2, <3>2 DEF RuntimeCompatible
      <4> QED BY <1>1, <1>2, <3>2, <4>1 DEF Sorted
    <3>3. CASE q \in low
      <4>1. /\ q \in host.system /\ RuntimeCompatible(q, n)
            /\ \A p \in host.system : RuntimeCompatible(p, n) => q.major <= p.major
        BY <3>3 DEF Lowest
      <4> QED BY <1>1, <1>2, <4>1 DEF Sorted
    <3> QED BY <3>1, <3>2, <3>3
  <2>4. host.policy.managed /\ ms = {} => \A p \in host.managed : ~ fits(p)
    BY <1>1, <1>2, LowestFound DEF SelectManaged
  <2>5. ss = {} => \A p \in host.system : ~ fits(p)
    BY <1>1, <1>2, LowestFound DEF SelectSystem
  <2> HIDE DEF n
  <2>6. \A q \in Installable(n) :
           /\ q = [major |-> n, arch |-> TRUE, source |-> "new"]
           /\ host.policy.managed /\ host.policy.auto
    BY DEF Installable
  <2>7. \A q \in Installable(n) : q \in Runtime /\ fits(q) /\ q.source = "new"
    <3> SUFFICES ASSUME NEW q \in Installable(n)
                 PROVE  q \in Runtime /\ fits(q) /\ q.source = "new"
      OBVIOUS
    <3>1. n \in Nat /\ q = [major |-> n, arch |-> TRUE, source |-> "new"]
      BY <1>1, <2>6
    <3>2. q \in Runtime /\ q.source = "new" /\ q.arch = TRUE /\ q.major >= n
      BY ONLY <3>1 DEF Runtime
    <3> QED BY <1>1, <3>2 DEF RuntimeCompatible
  <2> HIDE DEF ms, ss
  <2>8. \/ r \in ms /\ (ManagedFirst \/ ss = {})
        \/ r \in ss /\ (ManagedFirst => ms = {})
        \/ r \in Installable(n) /\ ms = {} /\ ss = {}
    BY <2>1 DEF FirstOf
  <2>9. r \in Runtime /\ fits(r)
    BY <2>2, <2>3, <2>7, <2>8
  <2>10. CASE r \in ms /\ (ManagedFirst \/ ss = {})
    BY <1>6, <2>2, <2>5, <2>9, <2>10 DEF RightRuntime, ManagedFirst, Sorted
  <2>11. CASE r \in ss /\ (ManagedFirst => ms = {})
    BY <1>6, <2>3, <2>4, <2>9, <2>11 DEF RightRuntime, ManagedFirst, Sorted
  <2>12. CASE r \in Installable(n) /\ ms = {} /\ ss = {}
    BY <1>6, <2>4, <2>5, <2>6, <2>7, <2>9, <2>12 DEF RightRuntime
  <2> QED BY <2>8, <2>10, <2>11, <2>12
<1> QED BY <1>5, <1>6

(***************************************************************************)
(* Launches.                                                               *)
(***************************************************************************)
\* A machine that gains the runtime it installed is still a machine.
LEMMA HostWithTyped ==
    ASSUME Sorted(host), NEW r \in Runtime, host' = HostWith(r) PROVE Sorted(host)'
<1>1. CASE r.source = "new"
  <2>1. PICK m : m = [r EXCEPT !.source = "managed"]
    OBVIOUS
  <2>2. m \in Runtime /\ m.source = "managed"
    BY <2>1 DEF Runtime
  <2>3. host' = [host EXCEPT !.managed = @ \cup {m}]
    BY <1>1, <2>1 DEF HostWith
  <2>4. host \in Host
    BY DEF Sorted
  <2>5. /\ host' \in Host /\ host'.managed = host.managed \cup {m} /\ host'.system = host.system
        /\ host'.explicit = host.explicit
    BY <2>2, <2>3, <2>4 DEF Host
  <2> QED BY <2>2, <2>5 DEF Sorted
<1>2. CASE r.source # "new"
  BY <1>2 DEF HostWith
<1> QED BY <1>1, <1>2

\* What is required of any runtime resolved.
LEMMA ResolvedTyped ==
    ASSUME Sorted(host), NEW n \in Nat, NEW r \in ResolveRuntime(n) PROVE r \in Runtime
<1>1. /\ host.managed \subseteq Runtime /\ host.system \subseteq Runtime
      /\ Given \subseteq Runtime
  BY DEF Sorted, Host, Policy, Given
<1>2. SelectManaged(n) \subseteq Runtime /\ SelectSystem(n) \subseteq Runtime
  BY <1>1 DEF SelectManaged, SelectSystem, Lowest
<1>3. Installable(n) \subseteq Runtime
  <2>1. [major |-> n, arch |-> TRUE, source |-> "new"] \in Runtime
    BY DEF Runtime
  <2> QED BY <2>1 DEF Installable
<1> QED BY <1>1, <1>2, <1>3 DEF ResolveRuntime, FirstOf

\* A step of the launch keeps what it has read and chosen.
LEMMA LaunchKeeps ==
    ASSUME LaunchIInv,
           \/ \E account \in Accounts : BeginLaunch(account)
           \/ LaunchStatus \/ LaunchVersion \/ LaunchOverlay \/ LaunchJava
           \/ (\E resolution \in BOOLEAN : LaunchBuild(resolution)) \/ Launched
    PROVE  LaunchIInv'
<1> DEFINE Rec(l) ==
              l \in [at : {"idle", "status", "version", "overlay", "java", "build", "ready"},
                     handle : Bases, overlay : Overlay, runtime : Runtime \cup {NoRuntime},
                     host : Host \cup {NoRuntime}, resolution : {l.resolution},
                     classpath : {l.classpath}]
<1>1. /\ UNCHANGED <<base, state, overlay, index, natives, leftover, txn, disturbed, updates>>
      /\ base \in Bases /\ overlay \in Overlay /\ Rec(launch) /\ Sorted(host)
  BY DEF LaunchIInv, LaunchTypeOK, Shape, Overlay, instanceVars, BeginLaunch, LaunchStatus,
         LaunchVersion, LaunchOverlay, LaunchJava, LaunchBuild, Launched
<1>2. NoRuntime \notin Runtime
  BY LaunchAssumption DEF LaunchAssumption
<1>3. SUFFICES /\ Rec(launch') /\ Sorted(host)' /\ Chosen'
  BY <1>1, <1>2, <1>3 DEF LaunchIInv, LaunchTypeOK, Shape, Chosen
<1>4. ASSUME launch' = NoLaunch, host' = host PROVE Rec(launch') /\ Sorted(host)' /\ Chosen'
  <2>1. /\ launch'.at = "idle"
        /\ launch' \in [at : {"idle"}, handle : Bases, overlay : {NoLoader},
                        runtime : {NoRuntime}, host : {NoRuntime}, resolution : {FALSE},
                        classpath : {<<>>}]
    BY <1>1, <1>4, NoLaunchTyped
  <2>2. Rec(launch')
    BY <2>1 DEF Overlay
  <2> QED BY <1>1, <1>4, <2>1, <2>2 DEF Chosen
<1>5. CASE \E account \in Accounts : BeginLaunch(account)
  <2>1. launch' = [NoLaunch EXCEPT !.at = "status", !.handle = base] /\ host' = host
    BY <1>5 DEF BeginLaunch
  <2>2. /\ launch'.at = "status"
        /\ launch' \in [at : {"status"}, handle : Bases, overlay : {NoLoader},
                        runtime : {NoRuntime}, host : {NoRuntime}, resolution : {FALSE},
                        classpath : {<<>>}]
    BY <1>1, <2>1, NoLaunchTyped
  <2>3. Rec(launch')
    BY <2>2 DEF Overlay
  <2> QED BY <1>1, <2>1, <2>2, <2>3 DEF Chosen
<1>6. CASE LaunchStatus \/ LaunchVersion
  <2>1. /\ host' = host
        /\ \/ launch' = NoLaunch
           \/ \E a \in {"version", "overlay"} : launch' = [launch EXCEPT !.at = a]
    BY <1>6 DEF LaunchStatus, LaunchVersion, Check
  <2>2. CASE \E a \in {"version", "overlay"} : launch' = [launch EXCEPT !.at = a]
    <3>1. launch'.at \in {"version", "overlay"} /\ Rec(launch')
      BY <1>1, <2>2
    <3> QED BY <1>1, <2>1, <3>1 DEF Chosen
  <2> QED BY <1>4, <2>1, <2>2
<1>7. CASE LaunchOverlay
  <2>1. /\ host' = host
        /\ \/ launch' = NoLaunch
           \/ /\ launch' = [launch EXCEPT !.at = "java", !.overlay = overlay]
              /\ OverlayFits(launch.handle, overlay)
    BY <1>7 DEF LaunchOverlay, Check
  <2>2. CASE launch' = [launch EXCEPT !.at = "java", !.overlay = overlay]
             /\ OverlayFits(launch.handle, overlay)
    <3>1. /\ launch'.at = "java" /\ launch'.overlay = overlay /\ launch'.handle = launch.handle
          /\ Rec(launch')
      BY <1>1, <2>2
    <3> QED BY <1>1, <2>1, <2>2, <3>1 DEF Chosen, OverlayFits
  <2> QED BY <1>4, <2>1, <2>2
<1>8. CASE LaunchJava
  <2>1. CASE launch' = NoLaunch /\ host' = host
    BY <1>4, <2>1
  <2>2. CASE launch.at = "java" /\ \E r \in ResolveRuntime(Requirement) :
                /\ launch' = [launch EXCEPT !.at = "build", !.runtime = r, !.host = host]
                /\ host' = HostWith(r)
    <3>1. PICK r \in ResolveRuntime(Requirement) :
             /\ launch' = [launch EXCEPT !.at = "build", !.runtime = r, !.host = host]
             /\ host' = HostWith(r)
      BY <2>2
    <3> DEFINE m == Metadata[launch.handle.version]
               loader == launch.handle.loader
    <3>2. m \in GameMetadata /\ loader \in Loaders \cup {NoLoader}
      BY <1>1, BaseTyped, LaunchAssumption DEF LaunchAssumption
    <3>3. LoaderOf(launch.overlay) = loader
      BY <2>2 DEF LaunchIInv, Chosen, OverlayFits, LoaderOf
    <3>4. Requirement = WithLoaderMinimum(RequiredMajor(m), loader)
      BY <3>3 DEF Requirement
    <3>5. r \in Runtime /\ RightRuntime(r, host, m, loader)
      BY <1>1, <3>1, <3>2, <3>4, ResolvesRight
    <3>6. host \in Host
      BY <1>1 DEF Sorted
    <3>7. /\ launch'.at = "build" /\ launch'.overlay = launch.overlay
          /\ launch'.handle = launch.handle /\ launch'.runtime = r /\ launch'.host = host
          /\ Rec(launch')
      BY <1>1, <3>1, <3>5, <3>6
    <3>8. Sorted(host)'
      BY <1>1, <3>1, <3>5, HostWithTyped
    <3>9. OverlayFits(launch.handle, launch.overlay)
      BY <2>2 DEF LaunchIInv, Chosen
    <3> QED BY <3>5, <3>7, <3>8, <3>9 DEF Chosen, OverlayFits, RightRuntime
  <2> QED BY <1>8, <2>1, <2>2 DEF LaunchJava
<1>9. CASE \E resolution \in BOOLEAN : LaunchBuild(resolution)
  <2>0. PICK b \in BOOLEAN : LaunchBuild(b)
    BY <1>9
  <2>1. PICK cp : cp = Classpath(Metadata[launch.handle.version], LoaderOf(launch.overlay), b)
    OBVIOUS
  <2>2. /\ launch.at = "build" /\ host' = host
        /\ \/ launch' = NoLaunch
           \/ launch' = [launch EXCEPT !.at = "ready", !.resolution = b, !.classpath = cp]
    BY <2>0, <2>1 DEF LaunchBuild, Check
  <2>3. CASE launch' = [launch EXCEPT !.at = "ready", !.resolution = b, !.classpath = cp]
    <3>2. /\ launch'.at = "ready" /\ launch'.overlay = launch.overlay
          /\ launch'.handle = launch.handle /\ launch'.runtime = launch.runtime
          /\ launch'.host = launch.host /\ Rec(launch')
      BY <1>1, <2>3
    <3>3. Chosen'
      BY <2>2, <3>2 DEF LaunchIInv, Chosen, OverlayFits
    <3> QED BY <1>1, <2>2, <3>2, <3>3
  <2> QED BY <1>4, <2>2, <2>3
<1>10. CASE Launched
  BY <1>4, <1>10 DEF Launched
<1> QED BY <1>5, <1>6, <1>7, <1>8, <1>9, <1>10

\* A step of a transaction keeps the documents typed and the launch as it is.
LEMMA TxnKeeps ==
    ASSUME LaunchIInv,
           \/ (\E to \in Bases : BeginUpdate(to)) \/ BeginInstall
           \/ ReplaceSpec \/ InstallBase \/ CommitNatives
           \/ ExecuteLoaderPlan \/ RemoveLoaderPlan \/ RenameLoaderPlan \/ PersistIndex
           \/ InstalledBase \/ RemarkUpdating \/ CommitTxn \/ TxnFails \/ TxnKilled \/ Recovery
    PROVE  LaunchIInv'
<1> DEFINE Status == {"Installed", "Updating", "Installing", "Interrupted", "Broken"}
           State == [status : Status, version : Versions]
           Left == [base : Bases, index : Versions]
<1>1. /\ base \in Bases /\ state \in State /\ overlay \in Overlay
      /\ natives \in Versions /\ index \in Versions /\ txn \in Txn /\ leftover \subseteq Left
      /\ disturbed \in BOOLEAN /\ Sorted(host)
  BY DEF LaunchIInv, LaunchTypeOK, Shape, Overlay
<1>2. /\ txn.from \in Bases /\ txn.to \in Bases /\ txn.index \in Versions
      /\ txn.what \in {"install", "update"}
  BY <1>1 DEF Txn
<1>3. /\ base.version \in Versions /\ txn.from.version \in Versions
      /\ txn.to.version \in Versions /\ txn.to.loader \in Loaders \cup {NoLoader}
  BY <1>1, <1>2, BaseTyped
<1>4. launch' = launch
  BY DEF BeginUpdate, BeginInstall, ReplaceSpec, InstallBase, CommitNatives, ExecuteLoaderPlan,
         RemoveLoaderPlan, RenameLoaderPlan, PersistIndex, InstalledBase, RemarkUpdating, CommitTxn,
         TxnFails, TxnKilled, Abandon, Recovery
<1>5. SUFFICES /\ base' \in Bases /\ state' \in State /\ overlay' \in Overlay
               /\ natives' \in Versions /\ index' \in Versions /\ txn' \in Txn
               /\ leftover' \subseteq Left /\ disturbed' \in BOOLEAN /\ Sorted(host)'
               /\ txn'.at \in {"replace", "plan"} => txn'.to.loader # NoLoader
  <2>1. LaunchTypeOK'
    BY <1>4, <1>5 DEF LaunchIInv, LaunchTypeOK, Overlay
  <2>2. Shape'
    BY <1>4, <1>5 DEF LaunchIInv, Shape
  <2>3. Chosen'
    BY <1>4 DEF LaunchIInv, Chosen, OverlayFits
  <2> QED BY <2>1, <2>2, <2>3 DEF LaunchIInv
<1>6. ASSUME NEW s \in Status, NEW v \in Versions, Mark(s, v) PROVE state' \in State
  BY <1>6 DEF Mark
<1>7. ASSUME NEW step, NEW next \in TxnLabels, At(step, next)
      PROVE  txn' \in Txn /\ txn.at = step /\ txn'.at = next /\ txn'.to = txn.to
  BY <1>1, <1>7 DEF At, Txn
<1>8. CASE \E to \in Bases : BeginUpdate(to)
  <2>1. PICK to \in Bases : BeginUpdate(to)
    BY <1>8
  <2>2. txn' \in Txn /\ txn'.at \in {"commit", "spec"}
    BY <1>1, <2>1 DEF BeginUpdate, Txn, TxnLabels
  <2>3. state' \in State
    BY <1>3, <1>6, <2>1 DEF BeginUpdate
  <2> QED BY <1>1, <2>1, <2>2, <2>3 DEF BeginUpdate
<1>9. CASE BeginInstall
  <2>1. txn' \in Txn /\ txn'.at = "base"
    BY <1>1, <1>9 DEF BeginInstall, Txn, TxnLabels
  <2> QED BY <1>1, <1>9, <2>1 DEF BeginInstall, instanceVars
<1>10. CASE ReplaceSpec \/ CommitNatives \/ PersistIndex \/ RemoveLoaderPlan
  <2>1. /\ txn' \in Txn /\ txn'.at \in {"base", "loader", "mark", "plan"} /\ txn'.to = txn.to
        /\ txn'.at = "plan" => txn.at = "replace"
    BY <1>7, <1>10 DEF ReplaceSpec, CommitNatives, PersistIndex, RemoveLoaderPlan, TxnLabels
  <2>2. txn'.at \in {"replace", "plan"} => txn'.to.loader # NoLoader
    BY <2>1 DEF LaunchIInv, Shape
  <2> QED BY <1>1, <1>2, <1>3, <1>10, <2>1, <2>2
          DEF ReplaceSpec, CommitNatives, PersistIndex, RemoveLoaderPlan, Overlay
<1>11. CASE InstallBase \/ InstalledBase \/ RemarkUpdating \/ CommitTxn
  <2>1. txn' \in Txn /\ txn'.at \in {"natives", "commit", "remark", "idle"}
    BY <1>7, <1>11 DEF InstallBase, InstalledBase, RemarkUpdating, CommitTxn, TxnLabels
  <2>2. state' \in State
    BY <1>3, <1>6, <1>11 DEF InstallBase, InstalledBase, RemarkUpdating, CommitTxn
  <2>3. base' \in Bases /\ disturbed' \in BOOLEAN
    BY <1>1, <1>2, <1>11 DEF InstallBase, InstalledBase, RemarkUpdating, CommitTxn
  <2> QED BY <1>1, <1>11, <2>1, <2>2, <2>3
          DEF InstallBase, InstalledBase, RemarkUpdating, CommitTxn
<1>12. CASE ExecuteLoaderPlan
  <2>1. txn' \in Txn /\ (txn'.at = "replace" => txn'.to.loader # NoLoader) /\ txn'.at # "plan"
    BY <1>7, <1>12 DEF ExecuteLoaderPlan, PlanWanted, TxnLabels
  <2>2. Sorted(host)'
    <3>1. CASE host' = host
      BY <1>1, <3>1
    <3>2. CASE txn.to.loader # NoLoader
               /\ \E r \in ResolveRuntime(WithLoaderMinimum(8, txn.to.loader)) : host' = HostWith(r)
      <4>1. WithLoaderMinimum(8, txn.to.loader) \in Nat
        BY <1>3, <3>2, LaunchAssumption DEF LaunchAssumption, WithLoaderMinimum
      <4>2. PICK r \in ResolveRuntime(WithLoaderMinimum(8, txn.to.loader)) : host' = HostWith(r)
        BY <3>2
      <4> QED BY <1>1, <4>1, <4>2, ResolvedTyped, HostWithTyped
    <3> QED BY <1>12, <3>1, <3>2 DEF ExecuteLoaderPlan
  <2> QED BY <1>1, <1>12, <2>1, <2>2 DEF ExecuteLoaderPlan, instanceVars
<1>13. CASE RenameLoaderPlan
  <2>1. txn' \in Txn /\ txn'.at = "index"
    BY <1>7, <1>13 DEF RenameLoaderPlan, TxnLabels
  <2>2. txn.to.loader # NoLoader
    BY <1>13 DEF RenameLoaderPlan, At, LaunchIInv, Shape
  <2> QED BY <1>1, <1>3, <1>13, <2>1, <2>2 DEF RenameLoaderPlan, Overlay
<1>14. CASE TxnFails \/ TxnKilled
  <2>1. Abandon /\ (TxnFails \/ UNCHANGED state)
    BY <1>14 DEF TxnFails, TxnKilled
  <2>2. txn' \in Txn /\ txn'.at = "idle"
    BY <1>1, <2>1 DEF Abandon, Txn, TxnLabels
  <2>3. state' \in State
    BY <1>1, <1>3, <1>6, <2>1 DEF TxnFails
  <2>4. leftover' \subseteq Left /\ disturbed' \in BOOLEAN
    BY <1>1, <1>2, <2>1 DEF Abandon, Staged
  <2> QED BY <1>1, <2>1, <2>2, <2>3, <2>4 DEF Abandon
<1>15. CASE Recovery
  <2>1. PICK r \in Left :
          /\ base' = r.base /\ index' = r.index
          /\ Mark(IF natives = r.index THEN "Installed" ELSE "Interrupted", r.base.version)
    BY <1>1, <1>15 DEF Recovery
  <2>2. state' \in State
    BY <1>6, <2>1, BaseTyped
  <2> QED BY <1>1, <1>15, <2>1, <2>2 DEF Recovery, LaunchIInv, Shape
<1> QED BY <1>8, <1>9, <1>10, <1>11, <1>12, <1>13, <1>14, <1>15

(***************************************************************************)
(* The loader plan of an installed instance.  A base is named in two       *)
(* places, instance.json and the transaction; unless an abandoned update   *)
(* changed it (disturbed), everything there agrees with one of them.       *)
(***************************************************************************)
FitsBase(b) == b.loader # NoLoader => OverlayFits(b, overlay)

\* every staging directory left behind would restore a base like b
LeftLike(b) == \A r \in leftover : SameBase(r.base, b)

\* the transaction does not change the base
SameTxn == txn.at = "idle" \/ SameBase(txn.from, txn.to)

OverlayHeld ==
    /\ txn.what = "install" => txn.from = txn.to
    /\ txn.at = "spec" => ~ SameBase(txn.from, txn.to)
    /\ txn.at # "idle" /\ SameTxn => SameBase(base, txn.to)
    /\ ~ disturbed /\ SameTxn => /\ LeftLike(base)
                                 /\ txn.at # "plan" => FitsBase(base)
    /\ txn.at \in {"index", "mark"} => FitsBase(txn.to)
    /\ txn.at \in {"remark", "commit"} /\ ~ disturbed => LeftLike(txn.to) /\ FitsBase(txn.to)

\* The natives of an installed instance, along the same line.
BaseHeld ==
    /\ ~ disturbed /\ SameTxn => BaseThere(base)
    /\ txn.at \in {"loader", "replace", "plan", "index", "mark"} => BaseThere(txn.to)
    /\ txn.at \in {"remark", "commit"} /\ ~ disturbed => BaseThere(txn.to)

\* A loader plan is not the mark that there is none.
LEMMA PlanIsThere == ASSUME NEW o \in [version : Versions, loader : Loaders] PROVE o # NoLoader
BY LaunchAssumption DEF LaunchAssumption

LEMMA LaunchStarts == LaunchInit => LaunchIInv /\ OverlayHeld /\ BaseHeld
<1> SUFFICES ASSUME LaunchInit PROVE LaunchIInv /\ OverlayHeld /\ BaseHeld
  OBVIOUS
<1>1. /\ base \in Bases /\ base.version \in Versions /\ base.loader \in Loaders \cup {NoLoader}
      /\ index = base.version /\ natives = base.version /\ leftover = {} /\ disturbed = FALSE
      /\ launch = NoLaunch /\ state = [status |-> "Installed", version |-> base.version]
  BY BaseTyped DEF LaunchInit
<1>2. txn = [what |-> "install", at |-> "idle", from |-> base, to |-> base, index |-> base.version]
  BY DEF LaunchInit, NoTxn
<1>3. txn \in Txn /\ txn.at = "idle" /\ txn.from = txn.to
  BY <1>1, <1>2 DEF Txn, TxnLabels
<1>4. Sorted(host)
  BY HostAssumption DEF LaunchInit, HostAssumption, Sorted
<1>5. overlay \in Overlay /\ FitsBase(base)
  <2>1. CASE base.loader = NoLoader
    BY <2>1 DEF LaunchInit, Overlay, FitsBase
  <2>2. CASE base.loader # NoLoader
    <3>1. /\ overlay = [version |-> base.version, loader |-> base.loader]
          /\ overlay \in [version : Versions, loader : Loaders]
      BY <1>1, <2>2 DEF LaunchInit
    <3> QED BY <3>1, PlanIsThere DEF Overlay, FitsBase, OverlayFits
  <2> QED BY <2>1, <2>2
<1>6. /\ launch.at = "idle"
      /\ launch \in [at : {"idle"}, handle : Bases, overlay : {NoLoader},
                     runtime : {NoRuntime}, host : {NoRuntime}, resolution : {FALSE},
                     classpath : {<<>>}]
  BY <1>1, NoLaunchTyped
<1>7. LaunchTypeOK
  BY <1>1, <1>5, <1>6 DEF LaunchTypeOK, Overlay
<1>8. Shape
  <2>1. launch \in [at : {"idle", "status", "version", "overlay", "java", "build", "ready"},
                    handle : Bases, overlay : Overlay, runtime : Runtime \cup {NoRuntime},
                    host : Host \cup {NoRuntime}, resolution : {launch.resolution},
                    classpath : {launch.classpath}]
    BY <1>6 DEF Overlay
  <2> QED BY <1>1, <1>3, <1>4, <2>1 DEF Shape
<1>9. Chosen
  BY <1>6 DEF Chosen
<1>10. OverlayHeld
  BY <1>1, <1>3, <1>5 DEF OverlayHeld, LeftLike
<1>11. BaseHeld
  BY <1>1, <1>3 DEF BaseHeld, BaseThere
<1> QED BY <1>7, <1>8, <1>9, <1>10, <1>11 DEF LaunchIInv

LEMMA LaunchInductive == LaunchIInv /\ [LaunchNext]_launchVars => LaunchIInv'
<1> SUFFICES ASSUME LaunchIInv, [LaunchNext]_launchVars PROVE LaunchIInv'
  OBVIOUS
<1>1. CASE UNCHANGED launchVars
  <2>1. LaunchTypeOK' /\ Shape'
    BY <1>1 DEF launchVars, LaunchIInv, LaunchTypeOK, Shape
  <2>2. Chosen'
    BY <1>1 DEF launchVars, LaunchIInv, Chosen, OverlayFits
  <2> QED BY <2>1, <2>2 DEF LaunchIInv
<1> QED BY <1>1, LaunchKeeps, TxnKeeps DEF LaunchNext

\* Bases alike fit the same plan.
LEMMA AlikeFits == \A b, d : SameBase(b, d) /\ FitsBase(d) => FitsBase(b)
BY DEF SameBase, FitsBase, OverlayFits

LEMMA OverlayInductive ==
    LaunchIInv /\ OverlayHeld /\ [LaunchNext]_launchVars => OverlayHeld'
<1> SUFFICES ASSUME LaunchIInv, OverlayHeld, [LaunchNext]_launchVars PROVE OverlayHeld'
  OBVIOUS
<1>1. txn \in Txn /\ disturbed \in BOOLEAN
  BY DEF LaunchIInv, Shape
<1>2. ASSUME UNCHANGED <<base, overlay, leftover, txn, disturbed>> PROVE OverlayHeld'
  BY <1>2 DEF OverlayHeld, SameTxn, LeftLike, FitsBase, OverlayFits, SameBase
<1>3. ASSUME NEW step, NEW next, At(step, next)
      PROVE  /\ txn.at = step /\ txn'.at = next /\ txn'.what = txn.what
             /\ txn'.from = txn.from /\ txn'.to = txn.to
  BY <1>1, <1>3 DEF At, Txn
<1>4. CASE \/ (\E account \in Accounts : BeginLaunch(account))
           \/ LaunchStatus \/ LaunchVersion \/ LaunchOverlay \/ LaunchJava
           \/ (\E resolution \in BOOLEAN : LaunchBuild(resolution)) \/ Launched
  BY <1>2, <1>4 DEF instanceVars, BeginLaunch, LaunchStatus, LaunchVersion, LaunchOverlay, LaunchJava,
              LaunchBuild, Launched
<1>5. CASE \E to \in Bases : BeginUpdate(to)
  <2>1. PICK to \in Bases : BeginUpdate(to)
    BY <1>5
  <2>2. /\ txn.at = "idle" /\ txn'.what = "update" /\ txn'.from = base /\ txn'.to = to
        /\ txn'.at = IF SameBase(base, to) THEN "commit" ELSE "spec"
        /\ UNCHANGED <<base, overlay, leftover, disturbed>>
    BY <2>1 DEF BeginUpdate
  <2> QED BY <2>2 DEF OverlayHeld, SameTxn, LeftLike, FitsBase, OverlayFits, SameBase
<1>6. CASE BeginInstall
  <2>1. /\ txn.at = "idle" /\ txn'.what = "install" /\ txn'.from = base /\ txn'.to = base
        /\ txn'.at = "base" /\ UNCHANGED <<base, overlay, leftover, disturbed>>
    BY <1>6 DEF BeginInstall, instanceVars
  <2> QED BY <2>1 DEF OverlayHeld, SameTxn, LeftLike, FitsBase, OverlayFits, SameBase
<1>7. CASE ReplaceSpec
  <2>1. /\ txn.at = "spec" /\ txn'.at = "base" /\ txn'.what = txn.what
        /\ txn'.from = txn.from /\ txn'.to = txn.to
    BY <1>3, <1>7 DEF ReplaceSpec
  <2> QED BY <2>1 DEF OverlayHeld, SameTxn, SameBase
<1>8. CASE InstallBase \/ CommitNatives \/ ExecuteLoaderPlan \/ PersistIndex
  <2>1. /\ txn'.what = txn.what /\ txn'.from = txn.from /\ txn'.to = txn.to
        /\ UNCHANGED <<base, overlay, leftover, disturbed>>
        /\ \/ txn.at \in {"base", "natives"} /\ txn'.at \in {"natives", "loader"}
           \/ txn.at = "loader" /\ txn'.at = "replace"
           \/ txn.at = "loader" /\ txn'.at = "index" /\ txn.to.loader = NoLoader
           \/ txn.at = "index" /\ txn'.at = "mark"
    BY <1>3, <1>8
       DEF InstallBase, CommitNatives, ExecuteLoaderPlan, PersistIndex, PlanWanted, instanceVars
  <2> QED BY <2>1 DEF OverlayHeld, SameTxn, LeftLike, FitsBase, OverlayFits, SameBase
<1>9. CASE RemoveLoaderPlan
  <2>1. /\ txn.at = "replace" /\ txn'.at = "plan" /\ txn'.what = txn.what
        /\ txn'.from = txn.from /\ txn'.to = txn.to /\ UNCHANGED <<base, leftover, disturbed>>
    BY <1>3, <1>9 DEF RemoveLoaderPlan
  <2> QED BY <2>1 DEF OverlayHeld, SameTxn, LeftLike, SameBase
<1>10. CASE RenameLoaderPlan
  <2>1. /\ txn.at = "plan" /\ txn'.at = "index" /\ txn'.what = txn.what
        /\ txn'.from = txn.from /\ txn'.to = txn.to /\ UNCHANGED <<base, leftover, disturbed>>
        /\ overlay' = [version |-> txn.to.version, loader |-> txn.to.loader]
    BY <1>3, <1>10 DEF RenameLoaderPlan
  <2>2. overlay'.version = txn.to.version /\ overlay'.loader = txn.to.loader
    BY <2>1
  <2>3. txn.to.loader # NoLoader => overlay' # NoLoader
    <3>1. txn.to \in Bases
      BY <1>1 DEF Txn
    <3>2. txn.to.loader # NoLoader => overlay' \in [version : Versions, loader : Loaders]
      BY <2>1, <3>1, BaseTyped
    <3> QED BY <3>2, PlanIsThere
  <2>4. FitsBase(txn.to)'
    BY <2>1, <2>2, <2>3 DEF FitsBase, OverlayFits
  <2>5. SameBase(base, txn.to) => FitsBase(base)'
    BY <2>1, <2>2, <2>3 DEF FitsBase, OverlayFits, SameBase
  <2> QED BY <2>1, <2>4, <2>5 DEF OverlayHeld, SameTxn, LeftLike, SameBase
<1>11. CASE InstalledBase
  <2>1. /\ txn.at = "mark" /\ txn'.what = txn.what
        /\ txn'.at = IF txn.what = "install" THEN "commit" ELSE "remark"
        /\ txn'.from = txn.from /\ txn'.to = txn.to /\ UNCHANGED <<base, overlay, leftover>>
        /\ disturbed' = (leftover # {})
    BY <1>3, <1>11 DEF InstalledBase
  <2>2. FitsBase(txn.to)' /\ (SameBase(base, txn.to) => FitsBase(base)')
    BY <2>1 DEF OverlayHeld, FitsBase, OverlayFits, SameBase
  <2>3. ~ disturbed' => leftover' = {}
    BY <2>1
  <2> QED BY <2>1, <2>2, <2>3 DEF OverlayHeld, SameTxn, LeftLike, SameBase
<1>12. CASE RemarkUpdating
  <2>1. /\ txn.at = "remark" /\ txn'.at = "commit" /\ txn'.what = txn.what
        /\ txn'.from = txn.from /\ txn'.to = txn.to
        /\ UNCHANGED <<base, overlay, leftover, disturbed>>
    BY <1>3, <1>12 DEF RemarkUpdating
  <2> QED BY <2>1 DEF OverlayHeld, SameTxn, LeftLike, FitsBase, OverlayFits, SameBase
<1>13. CASE CommitTxn
  <2>1. /\ txn.at = "commit" /\ txn'.at = "idle" /\ txn'.what = txn.what
        /\ txn'.from = txn.from /\ txn'.to = txn.to /\ base' = txn.to
        /\ UNCHANGED <<overlay, leftover, disturbed>>
    BY <1>3, <1>13 DEF CommitTxn
  <2> QED BY <2>1 DEF OverlayHeld, SameTxn, LeftLike, FitsBase, OverlayFits, SameBase
<1>14. CASE Abandon
  <2>1. /\ txn.at # "idle" /\ txn'.at = "idle" /\ txn'.what = txn.what
        /\ txn'.from = txn.from /\ txn'.to = txn.to
        /\ UNCHANGED <<base, overlay>>
        /\ disturbed' = (disturbed \/ ~ SameBase(txn.from, txn.to) \/ txn.at = "plan")
    BY <1>1, <1>14 DEF Abandon, Txn
  <2>2. \A r \in leftover' : r \in leftover \/ r.base = txn.from
    BY <1>14 DEF Abandon, Staged
  <2>3. ~ disturbed' => /\ ~ disturbed /\ SameTxn /\ SameBase(base, txn.from)
                        /\ LeftLike(base) /\ FitsBase(base)
    BY <2>1 DEF OverlayHeld, SameTxn, SameBase
  <2>4. ~ disturbed' => LeftLike(base)'
    BY <2>1, <2>2, <2>3 DEF LeftLike, SameBase
  <2>5. ~ disturbed' => FitsBase(base)'
    BY <2>1, <2>3 DEF FitsBase, OverlayFits
  <2> QED BY <2>1, <2>4, <2>5 DEF OverlayHeld
<1>15. CASE Recovery
  <2>1. /\ txn.at = "idle" /\ UNCHANGED <<overlay, txn, disturbed>> /\ leftover' = {}
        /\ base' = base \/ \E r \in leftover : base' = r.base
    BY <1>15 DEF Recovery
  <2>2. ~ disturbed => SameBase(base', base) /\ FitsBase(base)
    BY <2>1 DEF OverlayHeld, SameTxn, LeftLike, SameBase
  <2>3. ~ disturbed => FitsBase(base)'
    BY <2>1, <2>2 DEF FitsBase, OverlayFits, SameBase
  <2> QED BY <2>1, <2>3 DEF OverlayHeld, LeftLike
<1> QED BY <1>2, <1>4, <1>5, <1>6, <1>7, <1>8, <1>9, <1>10, <1>11, <1>12, <1>13, <1>14, <1>15
        DEF LaunchNext, launchVars, TxnFails, TxnKilled

LEMMA BaseInductive ==
    LaunchIInv /\ OverlayHeld /\ BaseHeld /\ [LaunchNext]_launchVars => BaseHeld'
<1> SUFFICES ASSUME LaunchIInv, OverlayHeld, BaseHeld, [LaunchNext]_launchVars PROVE BaseHeld'
  OBVIOUS
<1>1. txn \in Txn /\ disturbed \in BOOLEAN
  BY DEF LaunchIInv, Shape
<1>2. ASSUME UNCHANGED <<base, natives, txn, disturbed>> PROVE BaseHeld'
  BY <1>2 DEF BaseHeld, SameTxn, SameBase, BaseThere
<1>3. ASSUME NEW step, NEW next, At(step, next)
      PROVE  /\ txn.at = step /\ txn'.at = next /\ txn'.what = txn.what
             /\ txn'.from = txn.from /\ txn'.to = txn.to
  BY <1>1, <1>3 DEF At, Txn
<1>4. CASE \/ (\E account \in Accounts : BeginLaunch(account))
           \/ LaunchStatus \/ LaunchVersion \/ LaunchOverlay \/ LaunchJava
           \/ (\E resolution \in BOOLEAN : LaunchBuild(resolution)) \/ Launched
  BY <1>2, <1>4 DEF instanceVars, BeginLaunch, LaunchStatus, LaunchVersion, LaunchOverlay, LaunchJava,
              LaunchBuild, Launched
<1>5. CASE \E to \in Bases : BeginUpdate(to)
  <2>1. PICK to \in Bases : BeginUpdate(to)
    BY <1>5
  <2>2. /\ txn.at = "idle" /\ txn'.from = base /\ txn'.to = to
        /\ txn'.at = IF SameBase(base, to) THEN "commit" ELSE "spec"
        /\ UNCHANGED <<base, natives, disturbed>>
    BY <2>1 DEF BeginUpdate
  <2> QED BY <2>2 DEF BaseHeld, SameTxn, SameBase, BaseThere
<1>6. CASE BeginInstall
  <2>1. /\ txn.at = "idle" /\ txn'.from = base /\ txn'.to = base
        /\ txn'.at = "base" /\ UNCHANGED <<base, natives, disturbed>>
    BY <1>6 DEF BeginInstall, instanceVars
  <2> QED BY <2>1 DEF BaseHeld, SameTxn, SameBase, BaseThere
<1>7. CASE ReplaceSpec
  <2>1. /\ txn.at = "spec" /\ txn'.at = "base" /\ txn'.from = txn.from /\ txn'.to = txn.to
    BY <1>3, <1>7 DEF ReplaceSpec
  <2> QED BY <2>1 DEF OverlayHeld, BaseHeld, SameTxn, SameBase
<1>8. CASE CommitNatives
  <2>1. /\ txn.at = "natives" /\ txn'.at = "loader" /\ txn'.from = txn.from /\ txn'.to = txn.to
        /\ natives' = txn.to.version /\ UNCHANGED <<base, disturbed>>
    BY <1>3, <1>8 DEF CommitNatives
  <2> QED BY <2>1 DEF OverlayHeld, BaseHeld, SameTxn, SameBase, BaseThere
<1>9. CASE \/ InstallBase \/ ExecuteLoaderPlan \/ RemoveLoaderPlan \/ RenameLoaderPlan
           \/ PersistIndex \/ RemarkUpdating
  <2>1. /\ txn'.from = txn.from /\ txn'.to = txn.to /\ UNCHANGED <<base, natives, disturbed>>
        /\ \/ txn.at = "base" /\ txn'.at = "natives"
           \/ /\ txn.at \in {"loader", "replace", "plan", "index"}
              /\ txn'.at \in {"replace", "plan", "index", "mark"}
           \/ txn.at = "remark" /\ txn'.at = "commit"
    BY <1>3, <1>9 DEF InstallBase, ExecuteLoaderPlan, RemoveLoaderPlan, RenameLoaderPlan,
                      PersistIndex, RemarkUpdating, instanceVars
  <2> QED BY <2>1 DEF BaseHeld, SameTxn, SameBase, BaseThere
<1>10. CASE InstalledBase
  <2>1. /\ txn.at = "mark" /\ txn'.at \in {"commit", "remark"}
        /\ txn'.from = txn.from /\ txn'.to = txn.to /\ UNCHANGED <<base, natives>>
    BY <1>3, <1>10 DEF InstalledBase
  <2> QED BY <2>1 DEF OverlayHeld, BaseHeld, SameTxn, SameBase, BaseThere
<1>11. CASE CommitTxn
  <2>1. /\ txn.at = "commit" /\ txn'.at = "idle" /\ base' = txn.to
        /\ UNCHANGED <<natives, disturbed>>
    BY <1>3, <1>11 DEF CommitTxn
  <2> QED BY <2>1 DEF BaseHeld, SameTxn, BaseThere
<1>12. CASE Abandon
  <2>1. /\ txn.at # "idle" /\ txn'.at = "idle" /\ UNCHANGED <<base, natives>>
        /\ disturbed' = (disturbed \/ ~ SameBase(txn.from, txn.to) \/ txn.at = "plan")
    BY <1>1, <1>12 DEF Abandon, Txn
  <2> QED BY <2>1 DEF BaseHeld, SameTxn, BaseThere
<1>13. CASE Recovery
  <2>1. /\ txn.at = "idle" /\ UNCHANGED <<natives, txn, disturbed>>
        /\ base' = base \/ \E r \in leftover : base' = r.base
    BY <1>13 DEF Recovery
  <2>2. ~ disturbed => base'.version = base.version
    BY <2>1 DEF OverlayHeld, SameTxn, LeftLike, SameBase
  <2> QED BY <2>1, <2>2 DEF BaseHeld, SameTxn, BaseThere
<1> QED BY <1>2, <1>4, <1>5, <1>6, <1>7, <1>8, <1>9, <1>10, <1>11, <1>12, <1>13
        DEF LaunchNext, launchVars, TxnFails, TxnKilled

\* What a ready plan has read is what is there while its base is the installed one.
LEMMA PlansCurrent == ASSUME LaunchIInv, OverlayHeld, BaseHeld PROVE PlanCurrent
<1> SUFFICES ASSUME launch.at = "ready", txn.at = "idle", ~ disturbed, SameBase(base, launch.handle)
             PROVE  /\ BaseThere(launch.handle)
                    /\ launch.handle.loader # NoLoader => launch.overlay = overlay
  BY DEF PlanCurrent
<1>1. BaseThere(base) /\ FitsBase(base)
  BY DEF OverlayHeld, BaseHeld, SameTxn
<1>2. BaseThere(launch.handle) /\ FitsBase(launch.handle)
  BY <1>1 DEF BaseThere, FitsBase, OverlayFits, SameBase
<1>3. CASE launch.handle.loader # NoLoader
  <2>1. /\ overlay # NoLoader /\ launch.overlay # NoLoader
        /\ overlay.version = launch.overlay.version /\ overlay.loader = launch.overlay.loader
    BY <1>2, <1>3 DEF FitsBase, LaunchIInv, Chosen, OverlayFits
  <2>2. /\ overlay \in [version : Versions, loader : Loaders]
        /\ launch.overlay \in [version : Versions, loader : Loaders]
    BY <2>1 DEF LaunchIInv, LaunchTypeOK, Shape, Overlay
  <2> QED BY <1>2, <2>1, <2>2
<1> QED BY <1>2, <1>3

\* For every set of versions, loaders, bases, machines and policies: a launch that takes no
\* lock, while updates and installations replace the base between any two of its reads,
\* ends with a plan of one base -- the loader plan is of exactly the loader and version of
\* the instance the caller read -- and with the runtime the documented order names for it;
\* and while that base is the installed one, undisturbed, the plan names natives and a
\* loader plan that are on disk.
THEOREM LaunchesReadOneBase == LaunchSpec => []LaunchInv
<1>1. LaunchIInv /\ OverlayHeld /\ BaseHeld => LaunchInv
  <2> SUFFICES ASSUME LaunchIInv, OverlayHeld, BaseHeld PROVE LaunchInv
    OBVIOUS
  <2>1. PlanCoherent
    BY DEF LaunchIInv, Chosen, PlanCoherent, OverlayFits, LoaderOf
  <2>2. RuntimeFits
    BY DEF LaunchIInv, Chosen, RuntimeFits
  <2> QED BY <2>1, <2>2, PlansCurrent DEF LaunchIInv, LaunchInv
<1> QED BY <1>1, LaunchStarts, LaunchInductive, OverlayInductive, BaseInductive, PTL DEF LaunchSpec

\* After any sequence of installations, updates, failures, kills and recoveries, an
\* undisturbed instance that says Installed has its natives and, with a loader, the plan of
\* exactly that loader: write_loader_plan's removal, rename and the restoring of
\* instance.json by a recovery never leave another one.
THEOREM InstalledOverlayFits == LaunchSpec => []CommittedOverlayFits
<1>1. LaunchIInv /\ OverlayHeld /\ BaseHeld => CommittedOverlayFits
  BY DEF OverlayHeld, BaseHeld, CommittedOverlayFits, SameTxn, FitsBase
<1> QED BY <1>1, LaunchStarts, LaunchInductive, OverlayInductive, BaseInductive, PTL DEF LaunchSpec

-----------------------------------------------------------------------------
(***************************************************************************)
(* The classpath.  Induction over the libraries and over the rules of one  *)
(* is the least-number principle applied to the numbers for which a loop   *)
(* has not done what it should; that the loops are defined is LoopDefined. *)
(***************************************************************************)
\* Counting up: what holds of 0, and of a number's successor with the number, holds up to N.
LEMMA Counting ==
    ASSUME NEW N \in Nat, NEW P, 0 \in P, \A n \in 0..N : n < N /\ n \in P => n + 1 \in P
    PROVE  \A n \in 0..N : n \in P
<1>1. SUFFICES ASSUME (0..N) \ P # {} PROVE FALSE
  OBVIOUS
<1>2. PICK n \in (0..N) \ P : \A y \in (0..N) \ P : n <= y
  <2> DEFINE T == (0..N) \ P
  <2>1. T \in SUBSET Nat /\ T # {}
    BY <1>1
  <2> QED BY <2>1, LeastNumber
<1>3. n # 0 /\ n - 1 \in 0..N /\ n - 1 < N /\ n - 1 + 1 = n /\ ~ (n <= n - 1)
  BY <1>2
<1> QED BY <1>2, <1>3

\* The values of a loop over N items, from a on.
LoopRun(g, S, a, N, step) ==
    g \in [0..N -> S] /\ g[0] = a /\ \A k \in 1..N : g[k] = step[k][g[k - 1]]

\* A loop has a value after each item: what makes a recursive function over them defined.
LEMMA LoopDefined ==
    ASSUME NEW S, NEW a, NEW N, NEW step, a \in S, N \in Nat, step \in [1..N -> [S -> S]]
    PROVE  \E g : LoopRun(g, S, a, N, step)
<1> DEFINE RunsTo(g, n) == /\ g \in [0..n -> S] /\ g[0] = a
                          /\ \A k \in 1..n : g[k] = step[k][g[k - 1]]
           P == {n \in 0..N : \E g : RunsTo(g, n)}
<1>1. 0 \in P
  <2> DEFINE g == [k \in 0..0 |-> a]
  <2>1. g \in [0..0 -> S] /\ g[0] = a
    OBVIOUS
  <2>2. \A k \in 1..0 : FALSE
    OBVIOUS
  <2>3. RunsTo(g, 0)
    BY <2>1, <2>2
  <2> HIDE DEF RunsTo
  <2> QED BY <2>3
<1>2. ASSUME NEW n \in 0..N, n < N, n \in P PROVE n + 1 \in P
  <2>1. n \in Nat /\ n + 1 \in 1..N /\ n \in 0..n
    BY <1>2
  <2>2. PICK g : RunsTo(g, n)
    BY <1>2
  <2> DEFINE c == step[n + 1][g[n]]
             h == [k \in 0..(n + 1) |-> IF k = n + 1 THEN c ELSE g[k]]
  <2>3. c \in S
    <3>1. g[n] \in S /\ step[n + 1] \in [S -> S]
      BY <2>1, <2>2
    <3> QED BY <3>1
  <2> HIDE DEF c
  <2>4. h \in [0..(n + 1) -> S] /\ h[0] = a /\ h[n + 1] = c /\ h[n] = g[n]
    BY <2>1, <2>2, <2>3
  <2>5. \A k \in 1..n : h[k] = g[k] /\ h[k - 1] = g[k - 1]
    BY <2>1
  <2>6. ASSUME NEW k \in 1..(n + 1) PROVE h[k] = step[k][h[k - 1]]
    <3>1. k \in 1..n \/ (k = n + 1 /\ k - 1 = n)
      BY <2>1
    <3>2. CASE k \in 1..n
      BY <3>2, <2>2, <2>5
    <3>3. CASE k = n + 1 /\ k - 1 = n
      BY <3>3, <2>4 DEF c
    <3> QED BY <3>1, <3>2, <3>3
  <2>7. RunsTo(h, n + 1)
    BY <2>4, <2>6
  <2> HIDE DEF RunsTo
  <2> QED BY <2>1, <2>7
<1>3. N \in P
  <2> HIDE DEF P
  <2>1. \A n \in 0..N : n < N /\ n \in P => n + 1 \in P
    BY <1>2
  <2>2. \A n \in 0..N : n \in P
    BY <1>1, <2>1, Counting
  <2> QED BY <2>2
<1> QED BY <1>3 DEF LoopRun

\* RuleContext::allows, the verdict after each rule: of the last that matched.
LEMMA AllowsIsPermitted ==
    ASSUME NEW rules \in Seq(Rule), NEW resolution \in BOOLEAN
    PROVE  Allows(rules, resolution) <=> Permitted(rules, resolution)
<1> DEFINE N == Len(rules)
           M(k) == Matches(rules[k], resolution)
           loop(f) == [n \in 0..N |-> IF n = 0 THEN FALSE ELSE IF M(n) THEN rules[n].allow ELSE f[n - 1]]
           allowed == CHOOSE f : f = loop(f)
           step == [n \in 1..N |-> [b \in BOOLEAN |-> IF M(n) THEN rules[n].allow ELSE b]]
<1>1. N \in Nat /\ DOMAIN rules = 1..N /\ \A n \in 1..N : rules[n] \in Rule
  OBVIOUS
<1>2. \A n \in 1..N : rules[n].allow \in BOOLEAN
  BY <1>1 DEF Rule
<1>3. step \in [1..N -> [BOOLEAN -> BOOLEAN]]
  BY <1>2
<1>4. PICK g \in [0..N -> BOOLEAN] : g[0] = FALSE /\ \A k \in 1..N : g[k] = step[k][g[k - 1]]
  <2> HIDE DEF step, N
  <2>1. PICK S, a : S = BOOLEAN /\ a = FALSE
    OBVIOUS
  <2>2. a \in S /\ N \in Nat /\ step \in [1..N -> [S -> S]]
    BY <1>1, <1>3, <2>1
  <2>3. PICK g : LoopRun(g, S, a, N, step)
    BY <2>2, LoopDefined, Zenon
  <2> QED BY <2>1, <2>3, Zenon DEF LoopRun
<1>5. \A k \in 1..N : g[k] = IF M(k) THEN rules[k].allow ELSE g[k - 1]
  <2> HIDE DEF M
  <2>1. ASSUME NEW k \in 1..N PROVE k - 1 \in 0..N /\ g[k - 1] \in BOOLEAN
    BY <1>1
  <2> QED BY <1>4, <2>1
<1>6. g = loop(g)
  <2> HIDE DEF M
  <2>1. ASSUME NEW n \in 0..N
        PROVE  g[n] = IF n = 0 THEN FALSE ELSE IF M(n) THEN rules[n].allow ELSE g[n - 1]
    <3>1. n = 0 \/ (n # 0 /\ n \in 1..N)
      BY <1>1
    <3> QED BY <3>1, <1>4, <1>5, Zenon
  <2> QED BY <1>4, <2>1
<1>7. allowed = loop(allowed)
  <2> HIDE DEF loop
  <2> QED BY <1>6
<1>8. Allows(rules, resolution) <=> rules = <<>> \/ allowed[N]
  BY Zenon DEF Allows
<1>9. /\ allowed[0] = FALSE
      /\ \A n \in 1..N : allowed[n] = IF M(n) THEN rules[n].allow ELSE allowed[n - 1]
  <2> HIDE DEF allowed, M
  <2> QED BY <1>1, <1>7
<1> HIDE DEF allowed, loop, step, M
<1> DEFINE V(n) == \E j \in 1..n : rules[j].allow /\ M(j) /\ \A k \in 1..n : k > j => ~ M(k)
           P == {n \in 0..N : allowed[n] <=> V(n)}
<1>10. 0 \in P
  BY <1>9
<1>11. ASSUME NEW n \in 0..N, n < N, n \in P PROVE n + 1 \in P
  <2>1. n \in Nat /\ n + 1 \in 1..N /\ (allowed[n] <=> V(n)) /\ n + 1 - 1 = n
    BY <1>1, <1>11
  <2>2. allowed[n + 1] = IF M(n + 1) THEN rules[n + 1].allow ELSE allowed[n]
    BY <2>1, <1>9
  <2>3. CASE M(n + 1)
    BY <2>1, <2>2, <2>3
  <2>4. CASE ~ M(n + 1)
    <3>1. V(n) <=> V(n + 1)
      BY <2>1, <2>4
    <3> QED BY <2>1, <2>2, <2>4, <3>1
  <2> QED BY <2>3, <2>4
<1>12. N \in P
  <2> HIDE DEF P
  <2>1. \A n \in 0..N : n < N /\ n \in P => n + 1 \in P
    BY <1>11
  <2>2. N \in Nat /\ \A n \in 0..N : n \in P
    BY <1>1, <1>10, <2>1, Counting
  <2> QED BY <2>2
<1>13. Permitted(rules, resolution) <=> rules = <<>> \/ V(N)
  BY <1>1 DEF Permitted, M
<1> QED BY <1>1, <1>8, <1>12, <1>13

\* The places of the jars among the first n libraries, and their numbers.
JarsUpTo(libraries, kept, n) == {k \in kept \cap 1..n : OnClasspath(libraries[k])}

LEMMA JarsCounted ==
    ASSUME NEW libraries, NEW kept, NEW n \in Nat
    PROVE  LET J(k) == JarsUpTo(libraries, kept, k)
           IN /\ IsFiniteSet(J(n)) /\ Cardinality(J(n)) \in Nat
              /\ \A k \in J(n) : Cardinality(J(k)) \in 1..Cardinality(J(n))
              /\ J(0) = {} /\ Cardinality(J(0)) = 0
              /\ n + 1 \in kept /\ OnClasspath(libraries[n + 1]) =>
                    /\ J(n + 1) = J(n) \cup {n + 1}
                    /\ Cardinality(J(n + 1)) = Cardinality(J(n)) + 1
              /\ ~ (n + 1 \in kept /\ OnClasspath(libraries[n + 1])) => J(n + 1) = J(n)
<1> DEFINE J(k) == JarsUpTo(libraries, kept, k)
<1>1. ASSUME NEW k \in Nat PROVE IsFiniteSet(J(k)) /\ Cardinality(J(k)) \in Nat
  <2>1. IsFiniteSet(1..k) /\ J(k) \in SUBSET (1..k)
    BY FS_Interval DEF JarsUpTo
  <2>2. IsFiniteSet(J(k))
    BY <2>1, FS_Subset
  <2> QED BY <2>2, FS_CardinalityType
<1>2. ASSUME NEW k \in J(n) PROVE Cardinality(J(k)) \in 1..Cardinality(J(n))
  <2>1. k \in Nat /\ J(k) \in SUBSET J(n) /\ k \in J(k)
    BY DEF JarsUpTo
  <2>2. Cardinality(J(k)) <= Cardinality(J(n))
    BY <1>1, <2>1, FS_Subset
  <2>3. Cardinality(J(k)) # 0
    BY <1>1, <2>1, FS_EmptySet
  <2> QED BY <1>1, <2>1, <2>2, <2>3
<1>3. J(0) = {} /\ Cardinality(J(0)) = 0
  <2>1. J(0) = {}
    BY DEF JarsUpTo
  <2> QED BY <2>1, FS_EmptySet
<1>4. ASSUME n + 1 \in kept, OnClasspath(libraries[n + 1])
      PROVE  J(n + 1) = J(n) \cup {n + 1} /\ Cardinality(J(n + 1)) = Cardinality(J(n)) + 1
  <2>1. J(n + 1) = J(n) \cup {n + 1} /\ n + 1 \notin J(n)
    BY <1>4 DEF JarsUpTo
  <2> QED BY <1>1, <2>1, FS_AddElement
<1>5. ASSUME ~ (n + 1 \in kept /\ OnClasspath(libraries[n + 1])) PROVE J(n + 1) = J(n)
  BY <1>5 DEF JarsUpTo
<1> QED BY <1>1, <1>2, <1>3, <1>4, <1>5

\* build_launch_plan's artifacts: each library kept, jar by jar, at the place its number
\* among them gives it.
LEMMA ArtifactsInOrder ==
    ASSUME NEW libraries, NEW kept, NEW I, Len(libraries) \in Nat,
           \A n \in 1..Len(libraries) : libraries[n].id \in I
    PROVE  LET jars == JarsUpTo(libraries, kept, Len(libraries))
               cp == Artifacts(libraries, kept)
           IN /\ cp \in Seq(I) /\ Len(cp) = Cardinality(jars)
              /\ \A k \in jars : cp[Cardinality(JarsUpTo(libraries, kept, k))] = libraries[k].id
<1> DEFINE N == Len(libraries)
           J(k) == JarsUpTo(libraries, kept, k)
           Taken(k) == k \in kept /\ OnClasspath(libraries[k])
           loop(f) == [n \in 0..N |-> IF n = 0 THEN <<>> ELSE IF Taken(n)
                                      THEN Append(f[n - 1], libraries[n].id) ELSE f[n - 1]]
           entries == CHOOSE f : f = loop(f)
           step == [n \in 1..N |-> [s \in Seq(I) |->
                       IF Taken(n) THEN Append(s, libraries[n].id) ELSE s]]
<1>1. N \in Nat /\ \A n \in 1..N : libraries[n].id \in I
  OBVIOUS
<1> HIDE DEF Taken, N
<1>2. step \in [1..N -> [Seq(I) -> Seq(I)]]
  <2>1. ASSUME NEW n \in 1..N, NEW s \in Seq(I)
        PROVE  (IF Taken(n) THEN Append(s, libraries[n].id) ELSE s) \in Seq(I)
    BY <1>1
  <2> QED BY <2>1, Zenon
<1>3. PICK g \in [0..N -> Seq(I)] : g[0] = <<>> /\ \A k \in 1..N : g[k] = step[k][g[k - 1]]
  <2> HIDE DEF step
  <2>1. <<>> \in Seq(I)
    OBVIOUS
  <2>2. PICK g : LoopRun(g, Seq(I), <<>>, N, step)
    BY <1>1, <1>2, <2>1, LoopDefined, Zenon
  <2> QED BY <2>2, Zenon DEF LoopRun
<1>4. \A k \in 1..N : g[k] = IF Taken(k) THEN Append(g[k - 1], libraries[k].id) ELSE g[k - 1]
  <2>1. ASSUME NEW k \in 1..N PROVE k - 1 \in 0..N /\ g[k - 1] \in Seq(I)
    BY <1>1
  <2> QED BY <1>3, <2>1
<1>5. g = loop(g)
  <2>1. ASSUME NEW n \in 0..N
        PROVE  g[n] = IF n = 0 THEN <<>> ELSE IF Taken(n)
                      THEN Append(g[n - 1], libraries[n].id) ELSE g[n - 1]
    <3>1. n = 0 \/ (n # 0 /\ n \in 1..N)
      BY <1>1
    <3> QED BY <3>1, <1>3, <1>4
  <2> QED BY <1>3, <2>1
<1>6. entries = loop(entries)
  <2> HIDE DEF loop
  <2> QED BY <1>5
<1>7. Artifacts(libraries, kept) = entries[N]
  BY Zenon DEF Artifacts, Taken, N
<1> HIDE DEF entries
<1>8. entries[0] = <<>>
  <2>1. 0 \in 0..N
    BY <1>1
  <2>2. entries[0] = loop(entries)[0]
    BY <1>6, Zenon
  <2> QED BY <2>1, <2>2
<1>9. ASSUME NEW n \in 0..N, n < N
      PROVE  entries[n + 1] = IF Taken(n + 1) THEN Append(entries[n], libraries[n + 1].id) ELSE entries[n]
  <2>1. n + 1 \in 0..N /\ n + 1 # 0 /\ n + 1 - 1 = n
    BY <1>1, <1>9
  <2>2. entries[n + 1] = loop(entries)[n + 1]
    BY <1>6, Zenon
  <2> QED BY <2>1, <2>2
<1> HIDE DEF loop, step
<1> DEFINE Right(n) == /\ entries[n] \in Seq(I) /\ Len(entries[n]) = Cardinality(J(n))
                       /\ \A k \in J(n) : entries[n][Cardinality(J(k))] = libraries[k].id
           P == {n \in 0..N : Right(n)}
<1>10. 0 \in P
  <2>1. J(0) = {} /\ Cardinality(J(0)) = 0
    BY JarsCounted
  <2>2. Right(0)
    <3>1. <<>> \in Seq(I) /\ Len(<<>>) = 0
      OBVIOUS
    <3> HIDE DEF J
    <3> QED BY <1>8, <2>1, <3>1
  <2> HIDE DEF Right
  <2> QED BY <1>1, <2>2
<1>11. ASSUME NEW n \in 0..N, n < N, n \in P PROVE n + 1 \in P
  <2>1. n \in Nat /\ n + 1 \in 1..N /\ n + 1 - 1 = n /\ n + 1 \in 0..N
    BY <1>1, <1>11
  <2>2. Right(n)
    BY <1>11
  <2>3. PICK s \in Seq(I) : s = entries[n]
    BY <2>2
  <2>4. PICK id \in I : id = libraries[n + 1].id
    BY <1>1, <2>1
  <2>5. /\ Cardinality(J(n)) \in Nat
        /\ \A k \in J(n) : Cardinality(J(k)) \in 1..Cardinality(J(n))
        /\ Taken(n + 1) => J(n + 1) = J(n) \cup {n + 1} /\ Cardinality(J(n + 1)) = Cardinality(J(n)) + 1
        /\ ~ Taken(n + 1) => J(n + 1) = J(n)
    BY <2>1, JarsCounted DEF Taken
  <2>6. CASE Taken(n + 1)
    <3>1. entries[n + 1] = Append(s, id)
      BY <1>9, <1>11, <2>3, <2>4, <2>6, Zenon
    <3>2. /\ Append(s, id) \in Seq(I) /\ Len(Append(s, id)) = Len(s) + 1
          /\ \A i \in 1..Len(s) : Append(s, id)[i] = s[i]
          /\ Append(s, id)[Len(s) + 1] = id
      OBVIOUS
    <3>3. Len(s) = Cardinality(J(n)) /\ \A k \in J(n) : s[Cardinality(J(k))] = libraries[k].id
      BY <2>2, <2>3
    <3>4. \A k \in J(n + 1) : Append(s, id)[Cardinality(J(k))] = libraries[k].id
      <4> HIDE DEF J
      <4> QED BY <2>4, <2>5, <2>6, <3>2, <3>3
    <3>5. Right(n + 1)
      BY <2>5, <2>6, <3>1, <3>2, <3>3, <3>4
    <3> HIDE DEF Right
    <3> QED BY <2>1, <3>5
  <2>7. CASE ~ Taken(n + 1)
    <3>1. entries[n + 1] = entries[n] /\ J(n + 1) = J(n)
      BY <1>9, <1>11, <2>5, <2>7
    <3>2. Right(n + 1)
      BY <2>2, <3>1
    <3> HIDE DEF Right
    <3> QED BY <2>1, <3>2
  <2> QED BY <2>6, <2>7
<1>12. Right(N)
  <2> HIDE DEF P
  <2>1. \A n \in 0..N : n < N /\ n \in P => n + 1 \in P
    BY <1>11
  <2>2. N \in Nat /\ \A n \in 0..N : n \in P
    BY <1>1, <1>10, <2>1, Counting
  <2>3. N \in P
    BY <2>2
  <2> HIDE DEF Right
  <2> QED BY <2>3 DEF P
<1> QED BY <1>7, <1>12 DEF N

\* What a plan's classpath ends with.
LastEntries(loader) == IF loader = NoLoader THEN <<"client">> ELSE <<"loader", "client">>

\* Appending to a sequence leaves it where it was.
OneMore(t, s, b) ==
    Len(t) = Len(s) + 1 /\ t[Len(s) + 1] = b /\ \A k \in 1..Len(s) : t[k] = s[k]

LEMMA AppendedOne ==
    ASSUME NEW I, NEW s, NEW b, s \in Seq(I), b \in I
    PROVE  Len(s) \in Nat /\ s \o <<b>> \in Seq(I) /\ OneMore(s \o <<b>>, s, b)
BY DEF OneMore

\* s comes first in cp, and then the last entries.
Ends(cp, s, loader) ==
    /\ Len(cp) = Len(s) + Len(LastEntries(loader))
    /\ \A k \in 1..Len(s) : cp[k] = s[k]
    /\ \A k \in DOMAIN LastEntries(loader) : cp[Len(s) + k] = LastEntries(loader)[k]

LEMMA EndsWith ==
    ASSUME NEW I, NEW s, s \in Seq(I), "loader" \in I, "client" \in I, NEW loader
    PROVE  Ends(s \o (IF loader = NoLoader THEN <<>> ELSE <<"loader">>) \o <<"client">>, s, loader)
<1> DEFINE cp == s \o (IF loader = NoLoader THEN <<>> ELSE <<"loader">>) \o <<"client">>
<1>0. PICK a \in I, b \in I : a = "loader" /\ b = "client"
  OBVIOUS
<1> SUFFICES Ends(cp, s, loader)
  BY Zenon
<1>1. CASE loader = NoLoader
  <2>1. s \o <<>> = s
    OBVIOUS
  <2>2. cp = s \o <<b>>
    BY <1>0, <1>1, <2>1, Zenon
  <2>3. Len(s) \in Nat /\ OneMore(cp, s, b)
    BY <2>2, AppendedOne, Zenon
  <2>4. LastEntries(loader) = <<b>>
    BY <1>0, <1>1, Zenon DEF LastEntries
  <2>5. Len(<<b>>) = 1 /\ DOMAIN <<b>> = {1} /\ <<b>>[1] = b
    OBVIOUS
  <2> HIDE DEF cp
  <2> QED BY <2>3, <2>4, <2>5 DEF OneMore, Ends
<1>2. CASE loader # NoLoader
  <2>1. PICK t : t = s \o <<a>>
    OBVIOUS
  <2>2. cp = t \o <<b>>
    BY <1>0, <1>2, <2>1, Zenon
  <2>3. Len(s) \in Nat /\ t \in Seq(I) /\ OneMore(t, s, a)
    BY <2>1, AppendedOne, Zenon
  <2>4. OneMore(cp, t, b)
    BY <2>2, <2>3, AppendedOne, Zenon
  <2>5. LastEntries(loader) = <<a, b>>
    BY <1>0, <1>2, Zenon DEF LastEntries
  <2>6. /\ Len(<<a, b>>) = 2 /\ DOMAIN <<a, b>> = {1, 2}
        /\ <<a, b>>[1] = a /\ <<a, b>>[2] = b
    OBVIOUS
  <2>7. /\ Len(cp) = Len(s) + 2 /\ cp[Len(s) + 1] = a /\ cp[Len(s) + 2] = b
        /\ \A k \in 1..Len(s) : cp[k] = s[k]
    <3> HIDE DEF cp
    <3> QED BY <2>3, <2>4 DEF OneMore
  <2> HIDE DEF cp
  <2> QED BY <2>3, <2>5, <2>6, <2>7 DEF Ends
<1> QED BY <1>1, <1>2

\* What the rules allow a launch they allow an installation, unless they ask for an option
\* that the launch sets.
LEMMA PermittedAtInstall ==
    ASSUME NEW rules \in Seq(Rule), NEW resolution \in BOOLEAN, Permitted(rules, resolution)
    PROVE  \/ Allows(rules, FALSE)
           \/ resolution /\ \E k \in DOMAIN rules : rules[k].feature # "any"
<1>1. CASE resolution = FALSE
  BY <1>1, AllowsIsPermitted
<1>2. CASE resolution = TRUE /\ \A k \in DOMAIN rules : rules[k].feature = "any"
  <2>1. \A k \in DOMAIN rules : Matches(rules[k], resolution) <=> Matches(rules[k], FALSE)
    BY <1>2 DEF Matches
  <2>2. Permitted(rules, FALSE)
    BY <2>1, Zenon DEF Permitted
  <2> QED BY <2>2, AllowsIsPermitted
<1> QED BY <1>1, <1>2

\* A plan has what its metadata, its loader and the caller's options give.
Built ==
    launch.at = "ready" =>
        LET m == Metadata[launch.handle.version]
        IN /\ launch.resolution \in BOOLEAN
           /\ launch.classpath = Classpath(m, launch.handle.loader, launch.resolution)

LEMMA BuiltIsComplete ==
    ASSUME Built, launch.handle \in Bases PROVE ClasspathComplete
<1> SUFFICES ASSUME launch.at = "ready" PROVE ClasspathComplete
  BY DEF ClasspathComplete
<1> DEFINE libraries == Metadata[launch.handle.version].libraries
           resolution == launch.resolution
<1>1. libraries \in Seq(Library)
  <2>1. launch.handle.version \in Versions
    BY LaunchAssumption DEF LaunchAssumption, Base
  <2>2. Metadata[launch.handle.version] \in GameMetadata
    BY <2>1, LaunchAssumption DEF LaunchAssumption
  <2> QED BY <2>2 DEF GameMetadata
<1>2. resolution \in BOOLEAN
  BY DEF Built
<1> HIDE DEF libraries, resolution
<1> DEFINE N == Len(libraries)
           kept == {n \in DOMAIN libraries : Allows(libraries[n].rules, resolution)}
           permitted == {n \in DOMAIN libraries : Permitted(libraries[n].rules, resolution)}
           jars == {n \in permitted : ~ libraries[n].nativeName}
           arts == Artifacts(libraries, kept)
           last == LastEntries(launch.handle.loader)
           I == {libraries[n].id : n \in 1..N} \cup {"loader", "client"}
           cp == launch.classpath
<1>3. N \in Nat /\ DOMAIN libraries = 1..N /\ \A n \in 1..N : libraries[n] \in Library
  BY <1>1
<1>4. \A n \in 1..N : libraries[n].rules \in Seq(Rule)
  BY <1>3 DEF Library
<1>5. kept = permitted
  BY <1>2, <1>3, <1>4, AllowsIsPermitted
<1>6. kept = ResolveLibraries(Metadata[launch.handle.version], resolution)
  BY DEF ResolveLibraries, libraries
<1> HIDE DEF N
<1>7. /\ jars = JarsUpTo(libraries, kept, N)
      /\ \A n \in jars : n \in 1..N /\ jars \cap 1..n = JarsUpTo(libraries, kept, n)
  <2>1. permitted \subseteq 1..N
    BY <1>3
  <2> HIDE DEF kept, permitted
  <2> QED BY <1>3, <1>5, <2>1 DEF JarsUpTo, OnClasspath
<1>8. /\ arts \in Seq(I) /\ Len(arts) = Cardinality(jars)
      /\ \A n \in jars : arts[Cardinality(jars \cap 1..n)] = libraries[n].id
      /\ \A n \in jars : Cardinality(jars \cap 1..n) \in 1..Len(arts)
  <2>1. Len(libraries) \in Nat /\ \A n \in 1..Len(libraries) : libraries[n].id \in I
    BY <1>3 DEF N
  <2>2. /\ arts \in Seq(I) /\ Len(arts) = Cardinality(JarsUpTo(libraries, kept, N))
        /\ \A k \in JarsUpTo(libraries, kept, N) :
                arts[Cardinality(JarsUpTo(libraries, kept, k))] = libraries[k].id
    <3> HIDE DEF kept, I, arts
    <3> QED BY <2>1, ArtifactsInOrder DEF N, arts
  <2>3. \A k \in JarsUpTo(libraries, kept, N) :
            Cardinality(JarsUpTo(libraries, kept, k)) \in 1..Cardinality(JarsUpTo(libraries, kept, N))
    BY <1>3, JarsCounted
  <2> HIDE DEF kept, I, arts, jars
  <2> QED BY <1>7, <2>2, <2>3
<1>9. cp = arts \o (IF launch.handle.loader = NoLoader THEN <<>> ELSE <<"loader">>) \o <<"client">>
  BY <1>6, Zenon DEF Built, Classpath, libraries, resolution
<1>10. /\ Len(cp) = Len(arts) + Len(last)
       /\ \A k \in 1..Len(arts) : cp[k] = arts[k]
       /\ \A k \in DOMAIN last : cp[Len(arts) + k] = last[k]
  <2>1. "loader" \in I /\ "client" \in I
    OBVIOUS
  <2>2. arts \in Seq(I)
    BY <1>8
  <2> HIDE DEF arts, I, cp
  <2>3. Ends(cp, arts, launch.handle.loader)
    BY <1>9, <2>1, <2>2, EndsWith, Zenon
  <2> QED BY <2>3 DEF Ends
<1>11. \A n \in jars :
          \/ n \in InstallLibraries(Metadata[launch.handle.version])
          \/ launch.resolution /\ \E k \in DOMAIN libraries[n].rules :
                                    libraries[n].rules[k].feature # "any"
  <2>1. InstallLibraries(Metadata[launch.handle.version])
          = {n \in DOMAIN libraries : Allows(libraries[n].rules, FALSE)}
    BY DEF InstallLibraries, ResolveLibraries, libraries
  <2>2. \A n \in DOMAIN libraries :
          Permitted(libraries[n].rules, resolution)
            => Allows(libraries[n].rules, FALSE)
               \/ (resolution /\ \E k \in DOMAIN libraries[n].rules :
                                   libraries[n].rules[k].feature # "any")
    BY <1>2, <1>3, <1>4, PermittedAtInstall
  <2>3. \A n \in jars : n \in DOMAIN libraries /\ Permitted(libraries[n].rules, resolution)
    OBVIOUS
  <2> HIDE DEF jars
  <2> QED BY <2>1, <2>2, <2>3, Zenon DEF resolution
<1>12. /\ Len(cp) = Cardinality(jars) + Len(last)
       /\ \A n \in jars : cp[Cardinality(jars \cap 1..n)] = libraries[n].id
       /\ \A k \in DOMAIN last : cp[Cardinality(jars) + k] = last[k]
  <2> HIDE DEF arts, I, last, jars, cp
  <2> QED BY <1>8, <1>10
<1> HIDE DEF arts, kept, I
<1>13. last = IF launch.handle.loader = NoLoader THEN <<"client">> ELSE <<"loader", "client">>
  BY DEF LastEntries
<1> HIDE DEF last
<1> QED BY <1>11, <1>12, <1>13, ZenonT(30) DEF ClasspathComplete, last, LastEntries, libraries, resolution

\* Only LaunchBuild makes a plan ready, from what the launch has read.
LEMMA BuiltInductive == LaunchIInv /\ Built /\ [LaunchNext]_launchVars => Built'
<1> SUFFICES ASSUME LaunchIInv, Built, [LaunchNext]_launchVars PROVE Built'
  OBVIOUS
<1>1. CASE launch' = launch
  BY <1>1 DEF Built
<1>2. CASE launch' = NoLaunch
  BY <1>2 DEF Built, NoLaunch
<1>3. CASE \E account \in Accounts : BeginLaunch(account)
  <2>1. launch' = [NoLaunch EXCEPT !.at = "status", !.handle = base]
    BY <1>3 DEF BeginLaunch
  <2>2. launch'.at = "status"
    BY <2>1 DEF NoLaunch
  <2> QED BY <2>2 DEF Built
<1>4. /\ launch.handle \in Bases
      /\ launch = [at |-> launch.at, handle |-> launch.handle, overlay |-> launch.overlay,
                   runtime |-> launch.runtime, host |-> launch.host,
                   resolution |-> launch.resolution, classpath |-> launch.classpath]
  BY DEF LaunchIInv, Shape
<1>5. CASE LaunchStatus \/ LaunchVersion \/ LaunchOverlay \/ LaunchJava
  <2>1. \/ launch' = NoLaunch
        \/ launch' = [launch EXCEPT !.at = "version"]
        \/ launch' = [launch EXCEPT !.at = "overlay"]
        \/ launch' = [launch EXCEPT !.at = "java", !.overlay = overlay]
        \/ \E r : launch' = [launch EXCEPT !.at = "build", !.runtime = r, !.host = host]
    BY <1>5 DEF LaunchStatus, LaunchVersion, LaunchOverlay, LaunchJava, Check
  <2>2. launch' = NoLaunch \/ launch'.at # "ready"
    BY <1>4, <2>1
  <2> QED BY <1>2, <2>2 DEF Built
<1>6. CASE \E resolution \in BOOLEAN : LaunchBuild(resolution)
  <2>1. PICK b \in BOOLEAN : LaunchBuild(b)
    BY <1>6
  <2>2. PICK m : m = Metadata[launch.handle.version]
    OBVIOUS
  <2>3. PICK cp : cp = Classpath(m, LoaderOf(launch.overlay), b)
    OBVIOUS
  <2>4. /\ launch.at = "build"
        /\ \/ launch' = NoLaunch
           \/ launch' = [launch EXCEPT !.at = "ready", !.resolution = b, !.classpath = cp]
    BY <2>1, <2>2, <2>3 DEF LaunchBuild, Check
  <2>5. LoaderOf(launch.overlay) = launch.handle.loader
    BY <2>4 DEF LaunchIInv, Chosen, OverlayFits, LoaderOf
  <2>6. CASE launch' = [launch EXCEPT !.at = "ready", !.resolution = b, !.classpath = cp]
    <3>1. /\ launch'.handle = launch.handle /\ launch'.resolution = b
          /\ launch'.classpath = cp
      BY <1>4, <2>6
    <3> QED BY <2>2, <2>3, <2>5, <3>1 DEF Built
  <2> QED BY <1>2, <2>4, <2>6
<1>7. CASE Launched
  BY <1>2, <1>7 DEF Launched
<1>8. \/ launch' = launch
      \/ \E account \in Accounts : BeginLaunch(account)
      \/ LaunchStatus \/ LaunchVersion \/ LaunchOverlay \/ LaunchJava
      \/ (\E resolution \in BOOLEAN : LaunchBuild(resolution)) \/ Launched
  <2>1. CASE UNCHANGED launchVars
    BY <2>1 DEF launchVars
  <2>2. CASE \/ (\E to \in Bases : BeginUpdate(to)) \/ BeginInstall
             \/ ReplaceSpec \/ InstallBase \/ CommitNatives
             \/ ExecuteLoaderPlan \/ RemoveLoaderPlan \/ RenameLoaderPlan \/ PersistIndex
             \/ InstalledBase \/ RemarkUpdating \/ CommitTxn \/ TxnFails \/ TxnKilled \/ Recovery
    BY <2>2 DEF BeginUpdate, BeginInstall, ReplaceSpec, InstallBase, CommitNatives,
                ExecuteLoaderPlan, RemoveLoaderPlan, RenameLoaderPlan, PersistIndex,
                InstalledBase, RemarkUpdating, CommitTxn, TxnFails, TxnKilled, Abandon, Recovery
  <2> QED BY <2>1, <2>2 DEF LaunchNext
<1> QED BY <1>1, <1>3, <1>5, <1>6, <1>7, <1>8

\* For metadata with any number of libraries, rules and duplicates: a ready plan has every
\* library its rules allow on this host at its place on the classpath and no other, then
\* the loader's and the client; and each is one that an installation of the version
\* brought, or has a rule about an option that the launch sets (resolve_libraries,
\* RuleContext::allows, build_launch_plan, finish_install_plan).
THEOREM ClasspathsComplete == LaunchSpec => []ClasspathComplete
<1>1. LaunchInit => Built
  BY DEF LaunchInit, NoLaunch, Built
<1>2. LaunchIInv /\ Built => ClasspathComplete
  <2>1. LaunchIInv => launch.handle \in Bases
    BY DEF LaunchIInv, Shape
  <2> QED BY <2>1, BuiltIsComplete
<1> QED BY <1>1, <1>2, LaunchStarts, LaunchInductive, BuiltInductive, PTL DEF LaunchSpec
=============================================================================
