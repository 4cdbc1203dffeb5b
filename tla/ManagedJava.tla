---------------------------- MODULE ManagedJava ----------------------------
(***************************************************************************)
(* java/managed.rs: the managed Java runtimes, for one runtime id (the     *)
(* lock, the directories and the cached distribution are per id).          *)
(* Processes install, repair, remove, select and launch it, and at their   *)
(* start remove abandoned staging directories; any of them may be killed.  *)
(* Directories are written and removed file by file: a payload is a set of *)
(* parts, of which `java -version` needs only some.                        *)
(***************************************************************************)
EXTENDS Naturals, FiniteSets

CONSTANTS
    Processes,      \* the CentralCore processes that share the data directory
    Parts,          \* the files of the runtime
    Needed,         \* the parts without which `java -version` fails
    NoProcess,      \* the lock is free
    MaxOps,         \* bound: operations started
    MaxFaults       \* bound: kills, errors and damage

ASSUME JavaAssumption ==
    /\ Needed \subseteq Parts
    /\ NoProcess \notin Processes
    /\ MaxOps \in Nat /\ MaxFaults \in Nat

VARIABLES
    runtime,    \* the runtime's directory
    staging,    \* process -> its .install-* directory
    cached,     \* the verified archive and its distribution sidecar are in the cache
    selected,   \* java.selected_runtime of the configuration names the runtime
    lock,       \* the holder of java-runtime:<id>
    at,         \* process -> where its operation is
    left,       \* process -> the archive entries, or at its start the staging
                \* directories of processes, that its loop has still to visit
    games,      \* processes with a game running on this runtime
    ops,        \* operations so far
    faults,     \* faults so far
    late,       \* history: removers whose check a game start has overtaken
    excused     \* history: why the runtime may be incomplete

disk == <<runtime, staging, cached, selected>>

counters == <<ops, faults>>

history == <<late, excused>>

javaVars == <<disk, lock, at, left, games, counters, history>>

\* A directory that does not exist, an empty one, and a complete runtime.
Gone == [there |-> FALSE, parts |-> {}, manifest |-> FALSE]

Empty == [Gone EXCEPT !.there = TRUE]

Whole == [there |-> TRUE, parts |-> Parts, manifest |-> TRUE]

\* What remove_dir_all leaves after one more file, or the directory itself, is gone.
Fewer(d) ==
    {[d EXCEPT !.parts = @ \ {part}] : part \in d.parts}
        \cup {[d EXCEPT !.manifest = FALSE] : m \in {d.manifest} \cap {TRUE}}
        \cup {Gone : e \in {d} \cap {Empty}}

\* inspect: the executable starts.
Runs(d) == Needed \subseteq d.parts

\* find_runtime_directory looks for the manifest.
Found == runtime.manifest

\* verify: the manifest is there and its executable runs.
Verified == Found /\ Runs(runtime)

Advance(p, label) == at' = [at EXCEPT ![p] = label]

\* The operation drops the lock it may hold.
DropLock(p) == lock' = IF lock = p THEN NoProcess ELSE lock

Finish(p) == Advance(p, "idle") /\ DropLock(p)

JavaInit ==
    /\ runtime \in {Gone, Whole}
    /\ staging = [p \in Processes |-> Gone]
    /\ cached \in BOOLEAN
    /\ selected = FALSE
    /\ lock = NoProcess
    /\ at = [p \in Processes |-> "down"]
    /\ left = [p \in Processes |-> {}]
    /\ games = {}
    /\ ops = 0
    /\ faults = 0
    /\ late = {}
    /\ excused = {}

Begin(p, label) ==
    /\ at[p] = "idle"
    /\ ops < MaxOps
    /\ ops' = ops + 1
    /\ Advance(p, label)
    /\ UNCHANGED <<disk, lock, left, games, faults>>

-----------------------------------------------------------------------------
(***************************************************************************)
(* Installation and repair.                                                *)
(***************************************************************************)

\* install: a distribution comes from the cache or from a registered provider.
Install(p) == Begin(p, "lock") /\ UNCHANGED history

\* install_cached asks no provider.
InstallCached(p) == cached /\ Begin(p, "lock") /\ UNCHANGED history

\* repair reads the manifest of the runtime, outside the lock.
Repair(p) == Found /\ Begin(p, "lock") /\ UNCHANGED history

Free == lock = NoProcess

\* acquire_exclusive: the lock, or after its timeout an error.
Lock(p) ==
    /\ at[p] \in {"lock", "removeLock"}
    /\ \/ /\ Free
          /\ lock' = p
          /\ Advance(p, IF at[p] = "lock" THEN "verify" ELSE "find")
       \/ /\ lock # NoProcess
          /\ Finish(p)
    /\ UNCHANGED <<disk, left, games, counters, history>>

\* install_distribution asks again under the lock whether there is anything to do.
AlreadyInstalled == Verified

VerifyFirst(p) ==
    /\ at[p] = "verify"
    /\ IF AlreadyInstalled THEN Finish(p) ELSE Advance(p, "download") /\ UNCHANGED lock
    /\ UNCHANGED <<disk, left, games, counters, history>>

\* The archive is downloaded or found, and its sidecar rewritten; then an empty
\* staging directory of this process is created.
Download(p) ==
    /\ at[p] = "download"
    /\ cached' = TRUE
    /\ staging' = [staging EXCEPT ![p] = Empty]
    /\ left' = [left EXCEPT ![p] = Parts]
    /\ Advance(p, "extract")
    /\ UNCHANGED <<runtime, selected, lock, games, counters, history>>

\* extract_zip, extract_tar_gz: one entry after the other, its parents created.
Extract(p, part) ==
    /\ at[p] = "extract"
    /\ part \in left[p]
    /\ staging' = [staging EXCEPT ![p].there = TRUE, ![p].parts = @ \cup {part}]
    /\ left' = [left EXCEPT ![p] = @ \ {part}]
    /\ UNCHANGED <<runtime, cached, selected, lock, at, games, counters, history>>

\* mutant: a runtime that starts is taken for a whole one
ExtractedSome(p) == Runs(staging[p])

\* extract_archive returns when every entry was written; that another process
\* removed some of them meanwhile is not noticed.
ExtractedAll(p) == left[p] = {}

Extracted(p) ==
    /\ at[p] = "extract"
    /\ ExtractedAll(p)
    /\ left' = [left EXCEPT ![p] = {}]
    /\ Advance(p, "probe")
    /\ UNCHANGED <<disk, lock, games, counters, history>>

\* find_java_executable, inspect and the manifest; a payload that does not start
\* ends the installation with the staging directory left behind.
Probe(p) ==
    /\ at[p] = "probe"
    /\ IF staging[p].there /\ Runs(staging[p])
       THEN /\ Advance(p, "commit")
            /\ staging' = [staging EXCEPT ![p].manifest = TRUE]
            /\ UNCHANGED lock
       ELSE /\ Finish(p)
            /\ UNCHANGED staging
    /\ UNCHANGED <<runtime, cached, selected, left, games, counters, history>>

\* What was at the destination is removed, file by file.
Clear(p) ==
    /\ at[p] = "commit"
    /\ runtime' \in Fewer(runtime)
    /\ excused' = excused \cup {"removal"}
    /\ UNCHANGED <<staging, cached, selected, lock, at, left, games, counters, late>>

\* The staging directory becomes the runtime; that fails when it is gone.  The
\* verification that follows decides only what is returned.
Commit(p) ==
    /\ at[p] = "commit"
    /\ ~ runtime.there
    /\ IF staging[p].there
       THEN /\ runtime' = staging[p]
            /\ staging' = [staging EXCEPT ![p] = Gone]
            /\ excused' = excused \ {"removal", "damage"}
       ELSE UNCHANGED <<runtime, staging, excused>>
    /\ Finish(p)
    /\ UNCHANGED <<cached, selected, left, games, counters, late>>

\* A download, an entry or the disk fails, or the caller cancels, up to the
\* manifest: an error during the extraction removes the staging directory.
InstallFails(p) ==
    /\ faults < MaxFaults
    /\ faults' = faults + 1
    /\ at[p] \in {"download", "extract", "probe"}
    /\ staging' = IF at[p] = "extract" THEN [staging EXCEPT ![p] = Gone] ELSE staging
    /\ left' = [left EXCEPT ![p] = {}]
    /\ Finish(p)
    /\ UNCHANGED <<runtime, cached, selected, games, ops, history>>

-----------------------------------------------------------------------------
(***************************************************************************)
(* Removal, selection, launch.                                             *)
(***************************************************************************)

\* is_executable_running: no tracked process runs the executable.
NotRunning == games = {}

\* remove_java_runtime: verify and the check, before the lock.
Remove(p) ==
    /\ Verified
    /\ NotRunning
    /\ Begin(p, "removeLock")
    /\ late' = late \ {p}
    /\ UNCHANGED excused

\* remove, under the lock.
FindToRemove(p) ==
    /\ at[p] = "find"
    /\ IF Found THEN Advance(p, "removing") /\ UNCHANGED lock ELSE Finish(p)
    /\ UNCHANGED <<disk, left, games, counters, history>>

\* remove_dir_all; then the lock is dropped.
Removing(p) ==
    /\ at[p] = "removing"
    /\ IF runtime.there
       THEN /\ runtime' \in Fewer(runtime)
            /\ excused' = excused \cup {"removal"}
            /\ UNCHANGED <<lock, at>>
       ELSE /\ Advance(p, "deselect")
            /\ DropLock(p)
            /\ UNCHANGED <<runtime, excused>>
    /\ UNCHANGED <<staging, cached, selected, left, games, counters, late>>

\* run_java_command clears a selection of the runtime it removed.
ClearedSelection == FALSE

Deselect(p) ==
    /\ at[p] = "deselect"
    /\ selected' = ClearedSelection
    /\ excused' = IF runtime.there THEN excused ELSE excused \ {"removal"}
    /\ Advance(p, "idle")
    /\ UNCHANGED <<runtime, staging, cached, lock, left, games, counters, late>>

\* run_java_command select: verify, and then write the configuration.
Select(p) == Verified /\ Begin(p, "select") /\ UNCHANGED history

WriteSelection(p) ==
    /\ at[p] = "select"
    /\ selected' = TRUE
    /\ excused' = IF Found THEN excused ELSE excused \cup {"race"}
    /\ Advance(p, "idle")
    /\ UNCHANGED <<runtime, staging, cached, lock, left, games, counters, late>>

\* resolve_runtime: the selected or the managed runtime verifies.
Resolve(p) == p \notin games /\ Verified /\ Begin(p, "spawn") /\ UNCHANGED history

\* The launch spawns the executable it resolved, or fails because it is gone.
Spawn(p) ==
    /\ at[p] = "spawn"
    /\ IF Runs(runtime) THEN games' = games \cup {p} /\ late' = Processes ELSE UNCHANGED <<games, late>>
    /\ Finish(p)
    /\ UNCHANGED <<disk, left, counters, excused>>

GameEnds(p) ==
    /\ p \in games
    /\ games' = games \ {p}
    /\ UNCHANGED <<disk, lock, at, left, counters, history>>

-----------------------------------------------------------------------------
(***************************************************************************)
(* Kills, starts and damage.                                               *)
(***************************************************************************)

\* The lock goes with its process; a game goes on.
Kill(p) ==
    /\ faults < MaxFaults
    /\ faults' = faults + 1
    /\ at[p] # "down"
    /\ Advance(p, "down")
    /\ DropLock(p)
    /\ left' = [left EXCEPT ![p] = {}]
    /\ UNCHANGED <<disk, games, ops, history>>

\* recover lists the .install-* directories, of every process and without a lock.
Start(p) ==
    /\ at[p] = "down"
    /\ Advance(p, "recover")
    /\ left' = [left EXCEPT ![p] = {q \in Processes : staging[q].there}]
    /\ UNCHANGED <<disk, lock, games, counters, history>>

\* The build of CentralCore fails, and its user starts it again.
StartFails == "down"

\* recover removes them; one that is gone meanwhile is an error.
Recover(p, q) ==
    /\ at[p] = "recover"
    /\ q \in left[p]
    /\ IF staging[q].there
       THEN \E d \in Fewer(staging[q]) :
            /\ staging' = [staging EXCEPT ![q] = d]
            /\ left' = IF d = Gone THEN [left EXCEPT ![p] = @ \ {q}] ELSE left
            /\ excused' = IF at[q] \in {"extract", "probe", "commit"}
                          THEN excused \cup {"recovery"} ELSE excused
            /\ UNCHANGED at
       ELSE /\ Advance(p, StartFails)
            /\ left' = IF StartFails = "down" THEN [left EXCEPT ![p] = {}] ELSE left
            /\ UNCHANGED <<staging, excused>>
    /\ UNCHANGED <<runtime, cached, selected, lock, games, counters, late>>

Recovered(p) ==
    /\ at[p] = "recover"
    /\ left[p] = {}
    /\ Advance(p, "idle")
    /\ UNCHANGED <<disk, lock, left, games, counters, history>>

\* A part of the installed runtime is lost from outside.
Damage ==
    /\ faults < MaxFaults
    /\ faults' = faults + 1
    /\ \E part \in runtime.parts : runtime' = [runtime EXCEPT !.parts = @ \ {part}]
    /\ excused' = excused \cup {"damage"}
    /\ UNCHANGED <<staging, cached, selected, lock, at, left, games, ops, late>>

Work(p) ==
    \/ Lock(p) \/ VerifyFirst(p) \/ Download(p)
    \/ \E part \in Parts : Extract(p, part)
    \/ Extracted(p) \/ Probe(p) \/ Clear(p) \/ Commit(p)
    \/ FindToRemove(p) \/ Removing(p) \/ Deselect(p) \/ WriteSelection(p) \/ Spawn(p)
    \/ \E q \in Processes : Recover(p, q)
    \/ Recovered(p)

JavaNext ==
    \/ \E p \in Processes :
        \/ Install(p) \/ InstallCached(p) \/ Repair(p) \/ Remove(p) \/ Select(p) \/ Resolve(p)
        \/ Work(p) \/ InstallFails(p) \/ GameEnds(p) \/ Kill(p) \/ Start(p)
    \/ Damage

JavaSpec == JavaInit /\ [][JavaNext]_javaVars

-----------------------------------------------------------------------------
Directories == [there : BOOLEAN, parts : SUBSET Parts, manifest : BOOLEAN]

\* The types, and that whoever reads or writes the runtime's directory under the
\* lock is its one holder.
JavaTypeOK ==
    /\ runtime \in Directories
    /\ staging \in [Processes -> Directories]
    /\ lock \in Processes \cup {NoProcess}
    /\ \A p \in Processes :
        /\ at[p] \in {"extract", "recover"} \/ left[p] = {}
        /\ at[p] \in {"verify", "download", "extract", "probe", "commit", "find", "removing"} => lock = p

\* A runtime with a manifest is complete, not only able to start, whatever two
\* installers, kills and failures do: the manifest is written last and the
\* directory is renamed as a whole.  Excused is what tears it from outside this
\* protocol: damage, a removal or a replacement that was interrupted, and the
\* startup recovery of another process, which sweeps staging directories in use
\* without taking the lock (install_distribution, recover).
CommittedWhole == runtime.manifest /\ excused \subseteq {"race"} => runtime.parts = Parts

\* An installation or repair that has anything to do never has a runtime that
\* verifies before it, so it never clears one: the check is repeated under the
\* lock, and the second of two racing installers finds the first one's runtime
\* (install_distribution).
WorkingRuntimeKept ==
    \A p \in Processes : at[p] \in {"download", "extract", "probe", "commit"} => ~ Verified

\* The configuration selects a runtime that exists, so that launches do not fail:
\* except from a removal's first file to its end, killed or not, when a selection
\* was written after the runtime it had verified was removed, and when a recovery
\* took the manifest before it was committed (run_java_command).
SelectedExists == selected => Found \/ excused \cap {"removal", "race", "recovery"} # {}

\* A removal that takes files away has no game running that ran when it looked; only
\* one that a launch started since can lose its runtime (remove_java_runtime).
RunningRuntimeKept ==
    \A p \in Processes : at[p] \in {"find", "removing"} /\ games # {} => p \in late

\* The runtime as installers, removers, launches and the configuration rely on it:
\* complete once committed, never cleared while it works, selected only while it
\* exists, kept for running games (java/managed.rs).
JavaInv ==
    JavaTypeOK /\ CommittedWhole /\ WorkingRuntimeKept /\ SelectedExists /\ RunningRuntimeKept
=============================================================================
