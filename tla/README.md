# A TLA+ verification of CentralCore

CentralCore is a Rust library (crate `centralcore`, with the command lines
`centralcorp-cli` and `centralcorp-sign`) that installs, updates, repairs and launches
Minecraft instances described by providers. Several processes may work on one data
directory at once and each may be killed at any moment. This directory models the parts
where that makes correctness hard: the transactions on an instance directory and the
locks that separate them, the shared cache and its downloads, provider synchronization and
trust, component resolution, authentication, managed Java runtimes, launch plans, and the
games that are launched. TLC checks the models on small instances; TLAPS proves the most
important invariants for all instances.

Source paths below are relative to `src/crates/centralcore/src/`.

## The system

| Component | State | Operations | Hard part | Module |
|---|---|---|---|---|
| Updates and component toggles (`providers/service.rs`, `providers/update.rs`, `providers/components.rs`) | managed files, `instance.json`, `managed-files.json`, `components.json`, staging `runtime/update-<tx>`, journal `runtime/transaction.json` | `plan_update`, `set_component_enabled`, `apply_update` | plan read without the lock; stage, back up, move, verify, roll back, commit over several files | `InstanceTransactions` |
| Provider and base installation (`providers/service.rs`, `minecraft/install.rs`) | the same, `runtime/natives`, `install-state.json` | `install_mode`, `install_mode_unlocked` | two nested operations with their own status marks; runs inside an update that changes the base | `InstanceTransactions` |
| Verification and repair (`minecraft/repair.rs`, `cache/mod.rs`) | reads all of it, rewrites files, natives and index | `verify`, `repair` | rebuilding an index that is gone | `InstanceTransactions` |
| Startup recovery (`minecraft/recovery.rs`) | the leftovers of killed operations | `recover` | restoring file by file, killed itself | `InstanceTransactions` |
| Instance registry (`instance/mod.rs`) | `instance.json`, `install-state.json` | `get`, `replace_spec_unlocked`, `mark_*` | remove, then rename | `InstanceTransactions` |
| Resource locks (`lock/mod.rs`) | reservations of a process, OS file locks, owner record | acquire with and without waiting, shared and exclusive, drop | two levels, timeouts, process death | `LockManager`, `ResourceLock` |
| Game processes (`process/mod.rs`) | live games, entries, monitors, `processes/<id>.json` | `launch`, `launch_detached`, `is_running`, `recover`, `kill`, handle `kill` | state shared by locked and unlocked code, and by processes | `ProcessManager` |
| Shared cache (`cache/mod.rs`) | objects, `cache-index.json`, the instances' managed indexes | register, prune | prune against running installations, a kill while an index is replaced | `CacheManager` |
| Downloads (`download/mod.rs`) | destinations, `.part` files, locks | `download_all`, `download_file` with retry, resume, cancel | resumption of an object that changed | `Downloads` |
| Provider registry, synchronization, trust (`providers/service.rs`, `trust/mod.rs`) | `registry.json`, snapshots, `rollback.json`, `trust.json` | add, remove, sync; trust, revoke, rotate a key | anti-rollback state and snapshot are two files; keys revoked during a sync | `ProviderSync`, `TrustStore` |
| Component resolution (`providers/components.rs`) | `components.json`, the active set | `initialize_selections`, `validate_dependency_graph`, `resolve_components` | cycles, conflicts, stale choices | `ComponentResolution` |
| Authentication (`auth/*`) | pending flows, sessions, vault, `accounts.json`, `providers.json` | begin, continue, cancel, refresh, launch identity, logout, configure | calls that interleave at every await; two stores for one account | `AuthManager`, `AuthProviders` |
| Managed Java (`java/*`) | runtime directories, staging, cached archive, selected runtime | install, repair, remove, select, use, startup sweep | removal of a runtime in use, a sweep without the lock | `ManagedJava` |
| Launch plans, loaders, metadata (`minecraft/launch.rs`, `minecraft/{rules,libraries,version}.rs`, `java/mod.rs`, `loaders/executor.rs`) | `loader-plan.json`, reads all of the instance | `launch_instance`, `build_launch_plan`, `resolve_runtime`, `execute_loader_plan` | reads without the lock, a plan file outside the rollback | `LaunchPlan` |
| Events, configuration, builder, errors | none of their own | wiring, notification | | not modelled |

How they interact. `CentralCoreBuilder::build` runs the recovery of processes, instances
and Java runtimes before anyone gets a `CentralCore`. An update, installation, repair or
instance recovery takes the lock `instance:<id>`; a launch or kill takes `process:<id>`.
An update that changes the base calls the base installer inside its transaction. All of
them meet on the files of the instance, which is where the interleavings and crashes are.
Below the instances lie the objects of the shared cache, which downloads fill under a lock
per object and a prune empties. Providers publish the revisions that updates install; a
sync verifies them with the trust store and records them before it publishes the snapshot.
A launch reads the instance without its lock, resolves a Java runtime, asks `AuthManager`
for an identity and hands the plan to the process manager.

What makes each part correct, and what is hard to test, is the list `hazards` of
`PROJECT.json`, each entry at the line where it bites.

## Modules

### InstanceTransactions

One instance, any number of cores (`CentralCore` values, in one process or several). One
action is one file-system effect of the code: a move, a rename, a directory created, a
journal written with the mark next to it. A crash or another core may come between any
two.

| Variable | What it stands for |
|---|---|
| `files` | the provider-managed paths below `.minecraft`; `UserFile` is a file of the user |
| `natives` | `runtime/natives`: the base whose natives are extracted |
| `doc` | `instance.json` (its revision), `managed-files.json`, `install-state.json`, `components.json`; each may be absent, and the copied ones torn |
| `staging` | `runtime/update-<tx>`: saved documents, staged downloads, backups |
| `journal` | `runtime/transaction.json`: operation and state; written, and read by nothing in the code |
| `avail` | the revision of the last synchronized provider definition |
| `lock` | the holder of `instance:<id>` |
| `pc`, `job`, `pending` | per core: program point, locals, and a rename still owed |
| `prior` | auxiliary: what the last unfinished update found |

Writing a document is two steps because the code removes the destination and then
renames the temporary (`atomic_write_under`, `replace_spec_unlocked`): `Replace` leaves
the document absent and a `pending` write, `Rename` finishes it. Every other action of
that core waits for it; a crash forgets it.

| Actions | Code |
|---|---|
| `PlanRead`, `PlanDiff` | `plan_update_with`, without the lock |
| `ApplyGet`, `ApplyLock`, `ApplyRefuse`, `ApplyBegin` | `apply_update`: handle, lock, staleness tests, journal and mark |
| `MakeStaging` .. `StageDone` | staging directory, saved documents, downloads |
| `RebaseSpec`, `RebaseDone` | the base installer inside an update |
| `StartApplying` .. `VerifyUpdate` | backups, moves, snapshot and verification |
| `RollbackApplied`, `RollbackBackups`, `UpdateFails` | `rollback_update_files` and the error arm |
| `CommitIndex` .. `UpdateDone` | index, choices, revision, cleanup, `Installed` |
| `Base*`, `Natives*` | `install_mode_unlocked` |
| `Install*` | `install_mode`, `install_provider_files` |
| `Repair*` | `repair` |
| `Start`, `Recover*`, `PickStaging`, `Restore*`, `DropStaging` | the builder and `recover` |
| `SyncDefinition` | a synchronization publishes the next revision |
| `Crash`, `AddUserFile`, `Tamper` | the environment, as far as `Faults` allows |

Abstractions. A file is its content and a digest is that content, so verification is
`Healthy`. The resolution of components is the table `Desired`, the base version of a
revision the table `BaseOf`. Cache objects exist once downloaded. Resolving versions,
libraries and assets and running loader processors is one step, `BaseFetch`, that may
fail. The three reads with which a plan begins are one step, as nothing is written
between them that a later test does not see. An error can come wherever the code's `?`
follows I/O or a cancellation test; with `"fail"` not in `Faults` only errors that the
state forces happen. The instance lock is taken with `try_acquire_exclusive`, whose
correctness is `LockManager`'s.

### ResourceLock and LockManager

`ResourceLock` is the promise: a readers/writer lock taken and given back atomically.
`LockManager` is the code: a task reserves the key in its process (`held`), then locks
the file (`os`), truncates and rewrites the owner record, and drops the two in order.
Polling every 50 ms against a deadline is `Expire` with the two busy exits. A dying
process loses its reservation set and its file locks, not the owner record. The mapping
to `ResourceLock` takes the locked files as guards.

### ProcessManager

One instance, several managers. The steps are what lies between two awaits that touch
shared state, so the probe of a record and its removal are two steps, publishing an exit
and removing the record are two, and `persist` is two. Launch and kill hold `lock`;
`Status`, `Recover`, the monitors and `HandleKill` do not, as in the code. A game is its
persisted identity; a PID that is gone and one with another identity have the same effect
on the state and are one outcome. `Abandon` is the error return that leaves a spawned game
running, `Exit` the end of a manager's process, whose attached games run on
(`kill_on_drop(false)`). Both calls of `start_kill` ignore a failure (`Undo`, the label
`refused` of a monitor), and what waits for the game then waits as long as it runs
(`Stranded`). `is_executable_running` and the output readers change nothing.

### Downloads and CacheManager

`Downloads` is one `download_file` per task: lock, reuse or remove the destination, then
attempts that ask for the rest of the part file, stream, verify and rename. The wait for the lock ends with
the lock or, after 30 seconds, in an error (`Busy`). A file is the
sequence of its chunks and a chunk the version of the object it came from, so a part file
of one version completed with another is visible, and a digest tells the two apart. The
server may change the object, break off, refuse or ignore a range (`Respond`,
`RangeNotSatisfiable`, `StreamBreaks`, `RequestFails`, `Upload`).

`CacheManager` extends it with the installations that ask for objects (`StartInstall`,
`StartTask` under the concurrency limit, `EndBatch`), replace their managed index
(`RemoveManaged`, `RenameManaged`) and register (`Register`; its lock may be `IndexBusy`
too), and with a prune in the
code's steps: load the index, scan instance by instance, remove object by object under
`try_acquire_exclusive`, rewrite the index. `stable` remembers the references that existed
throughout the prune.

### TrustStore and ProviderSync

`TrustStore` is `trust.json` with one read-modify-write per decision, each in its four
file-system steps, per client. `ProviderSync` extends it with the registry, the snapshots
and `rollback.json`: `StartSync`, `Get`, `FetchIndex`, `NotModified` (the 304 path with its
own trust tests), `VerifyIndex` by signature policy, `FetchPack` or the cached document,
`Enforce` under the rollback lock, and the three renames of `atomic_json` (`MoveOld`,
`RenameNew`, `RemovePrevious`), which every file of the service goes through. Waiting for
the registry or the rollback lock ends with the lock or, after 30 seconds, in an error
(`Busy`). Servers answer with any document they ever published, so stale mirrors and replays
are included, or with 304 to any request (`FetchNotModified`); the directory of a local
provider is always read. A signature is the key and the digest it covers.

### ComponentResolution

The two loops of the resolver, one component per step, in any order; the code's queues are
one of them. `InstallFiles`, `PlanUpdate` and `SetComponent` start a resolution on the
manifest of that moment, `Publish` may replace the manifest at any time, and `Apply`
accepts the result only as `apply_update` does. Then the operation changes the instance step
by step: an installation empties the index with its base, removes and renames
`components.json`, copies and writes the index; an update moves, writes the index and saves the choices after it. At each step it
may fail or be killed (`Interrupted`), with any part of the moves done or undone, and
`RecoverUpdate` puts back what a killed update saved. `active` and `origin` are the
components that `managed-files.json` lists and the table they came from, `files` the
components whose files are in the instance (one file stands for all of a component), and
`before` what the operation found.

### AuthProviders and AuthManager

`AuthProviders` gives, for each of the built-in providers, the set of answers a call may
return; a provider keeps no state, so the remote services are quantified over here (for
Microsoft the chain of six). `AuthManager` is the state around them. Nothing holds a lock
across an await, so a call advances from await to await: it asks the provider (`Answer`),
stores or deletes secrets one by one, changes the sessions and saves `accounts.json` in
the steps of `save_sessions`. At any of its steps a call may be dropped or fail, because
the vault or the file system refuses (`Interrupted`), and it may be dropped while its rename
goes through (`RenameDropped`); the process may be killed (`Kill`, `Start`). `torn`
remembers that a call of this process ended halfway through a change of the configured
providers. `callers` says whether the
application overlaps calls: the command line does not, an embedding launcher may. Every
call has a serial number, which is also the number of the flow it may open (`next_id`, an
atomic counter) and of the tokens it obtains.

### ManagedJava

One runtime id: its directory and each process's staging directory, as sets of files of
which `java -version` needs some. Directories are extracted and removed file by file.
`Remove` looks for games before the lock, `Start` and `Recover` sweep staging directories
without it, `Select` verifies and then writes the configuration, as the code does.
`excused` remembers what tore the runtime from outside the installation protocol.

### LaunchPlan

A launch reads status, version, loader plan and runtime one after the other without a
lock, then derives the classpath, while transactions (`BeginUpdate`,
`BeginInstall` to `CommitTxn`) replace the base, its natives and the loader plan in the
code's order, fail, are killed and recovered. Libraries are downloaded and natives extracted
by the installation, under rules without any option of a launch (`InstallLibraries`); the
launch only names the directory of the natives. `ResolveRuntime` is the choice of a Java runtime over
policy, explicit and selected runtime, managed and system ones; `Allows` the last-match
rule evaluation; `Artifacts` collects the jars one library after the other, duplicates
included, as the metadata lists some libraries twice. They are checked against declarative statements (`RuntimeFits`,
`ClasspathComplete`), not against themselves. The launch remembers in `host` the machine
on which it chose its runtime, because a transaction that installs a loader may add a
managed runtime before the launch is ready.

### MC modules and proofs

The `MC*` modules give the constants values for TLC. `MCLaunch` runs `ManagedJava`,
`ComponentResolution` and `LaunchPlan` side by side: `part` says which of the three a
behaviour is about, as they share no variable. `InstanceTransactionsProofs`,
`LockManagerProofs`, `ProcessManagerProofs`, `ComponentResolutionProofs`,
`ProviderSyncProofs`, `CacheManagerProofs`, `AuthManagerProofs` and `LaunchProofs` (of
`ManagedJava` and `LaunchPlan`) hold the theorems. Definitions marked *mutant* are wrong
variants of the definition that follows them; substituting one must break the property that
`PROJECT.json` names, which shows that the property depends on the code.

## Runs

| Run | Instance | Distinct states | Shows |
|---|---|---|---|
| `crash` | one core, two revisions with different bases, crashes anywhere | 1.1 million | `TypeOK`; an instance that says Installed verifies (`HealthyWhenInstalled`) and names its version (`InstalledVersionAgrees`) |
| `two` | two cores, two revisions | 283 thousand | `LockOwner`; no toggle overwrites a later choice (`NoLostToggle`) |
| `live` | one core, errors and cancellations, files of the user at managed paths, a change of base, fairness | 231 thousand | a failed update restores every file (`RollbackRestores`); no update or rollback touches the user's files (`UpdateKeepsUserFiles`); the lock is always given back (`LockReleased`) |
| `damage` | one core, damage between transactions, fairness | 67 thousand | a repair that finds an index ends Installed and healthy (`RepairConverges`) |
| `lock` | three tasks, two managers, I/O errors, process death, fairness | 29 thousand | `MutualExclusion`, `ReservationOwned`, `OwnerIsHolder`, the refinement `IsResourceLock`, `AcquireReturns` |
| `process` | two managers, two games, I/O errors, exits, fairness | 175 thousand | `OneWatchedGame`, `LiveRecordKept`, `CallsReturn`, `StopsHonoured` |
| `cache` | three installations, two at a time, of a shared object, one of them also of a second object with one permit for both; a prune, a kill, an upload of another version or a cancellation; fairness | 349 thousand | `CacheInv` (types, and `PartInUseKept`: a part file in use is not pruned), `OnlyValidatedPublished`, `RetryHeals`, `StableReferenceKept`, `DownloadEnds` |
| `providers` | two clients, two providers, three indexes of two revisions, two keys and a rotation; budgets of syncs, overrides, kills, trust decisions and registrations; fairness | 246 thousand | `SyncInv` (types, and `SignedAsAWhole`: a snapshot was signed as one), `HighWaterCovers`, `NoRollback`, `HighWaterMonotone`, `RevokedNeverSyncs`, `OperationEnds` |
| `auth` | four calls one after the other or up to three that overlap, five accounts, one fault (a kill, a dropped call, an I/O error, a refusal of the vault) | 970 thousand | `AuthInv` (types, `FlowUsedOnce`, `CancelIsFinal`, `RegisteredAsConfigured`), `SecretsBehindAccounts`, `LoggedOutForgotten` |
| `launch` | Java: two processes, four operations, one fault. Components: three components, six tables, two revisions, errors and kills. Launch: two versions, two loaders, seven machines and policies, three transactions, one fault | 1.8 million | Java: `JavaInv` (types, `CommittedWhole`, `WorkingRuntimeKept`, `SelectedExists`, `RunningRuntimeKept`). Components: `CyclesFound`, `EnabledIsLeast`, `ActiveCorrect` (types, `ActiveConsistent`, `ToggleHonoured`, `FilesFollow`), `ChoiceKept`. Launch: `LaunchInv` (types, `PlanCoherent`, `PlanCurrent`, `RuntimeFits`), `ClasspathComplete`, `CommittedOverlayFits` |

The types of `InstanceTransactions` are checked in `crash`; those of `LockManager` and
`ProcessManager` are proved (see Theorems).
Two runs show a disagreement between the code and what the repository says of it:

| Run | Property | The counterexample |
|---|---|---|
| `spec` | `SpecSurvives` | a kill between removing and renaming `instance.json` leaves an instance that no startup can read |
| `loader` | `InstalledLaunches` | an update from one loader to another replaces `instance.json`; the base installer fails; the retry sees no change of base, installs none and marks Installed an instance whose `loader-plan.json` every launch refuses |

Bounds. In the transaction runs, two paths are enough for every kind of file action: one
every revision replaces, one a component adds and removes. Two revisions (`MaxRevision`)
give one update with everything that follows; a third repeats it. `TxIds` bounds the
staging directories that coexist: one in the runs, so a plan waits until recovery has
removed the last (directories of other transactions are independent of it; the theorems
hold for any number). Two cores are what a race needs, and lock exclusion is proved for
any number. In `process`, two games are one to end and one to come after it; `persist` removing the
record of a live game takes three (3.9 million states with `Games = {g1, g2, g3}` and
`Spec`, three and a half minutes without the liveness properties), and `LiveRecordKept` is
proved for any number. `cache`: two
chunks of the wanted version and three of the other give a part file of either, mixed, too
short or too long; the installation of two objects has one permit, so that its second
download waits for the first, which may be reused, cancelled, refused, busy or fail; two retries are one that a stale part may cost and one more.
`providers`: revision 2 with two contents is the smallest replay under an equal revision;
one of the registrations is of a local provider;
each budget bounds one kind of interference so that all interleavings of it are covered.
`auth`: four calls are a login of two steps, a change and a logout. `launch`: three
components are a cycle of three, a chain and a conflict through a dependency; three
transactions are an installation, an update that fails and its retry. `Budgets`, `MaxOps`, `MaxFaults`,
`MaxCalls`, `MaxUpdates` and `MaxRevision` are the named bounds; `QueueSize` is the code's
2. Symmetry is used in `two` only, on cores, with invariants only. `crash` identifies
states that differ only in the auxiliary `prior` (`VIEW WithoutPrior`): no action and no
property of it reads it, and its type is proved.

`CHECK_DEADLOCK FALSE` stands where a behaviour may really stop: in `crash`, `two` and
`spec` an instance whose `instance.json` is gone, or one staging directory that only a
restart would clear; in `cache`, `providers`, `auth`, `launch` and `loader` the end of the
budgets. `live`, `damage`, `lock` and `process` check deadlock.

Fairness. `InstanceTransactions`: weak fairness of a task that has begun (`Step` or
`Fail`); everything it awaits is file I/O, or a download with its own timeouts. No request
is assumed to come. `LockManager`: threads run and the clock advances; no guard is ever
assumed to be dropped. `ProcessManager`: calls and monitors are polled; no game is assumed
to end by itself. `CacheManager` (`DownloadFairness`): the stream of each batch is polled, and requests
and streams end in an answer or the timeout of the client (`timeout_seconds`).
`ProviderSync` (`SyncFairness`): the same for a sync. The other modules state safety only.

## Known limits of the code

What the models show, beyond the two violation runs, of behaviour a maintainer should
know; the properties above are stated so as to hold beside it.

- Recovery of a killed update leaves in place a file the update had already added, restores
  `instance.json` and the index but not `components.json` (`minecraft/recovery.rs:117`), and
  replays the rest of a half-removed staging directory of a committed update.
  `docs/update.md:20` speaks of "the prior consistent state". What it promotes verifies
  (`HealthyWhenInstalled`).
- `apply_update` compares the plan with the instance it read before the lock
  (`providers/service.rs:1185`), so a plan from a revision that another process has replaced
  meanwhile is applied. Choices are read under the lock (`NoLostToggle`). The plan's list
  of files to change also comes from an index read before the lock: when the installation
  of another process fails in between and empties the index, the update returns an error
  without a rollback, and it may move away a file the user has put in the place of one that
  is gone. Hence one core in `RollbackRestoresFiles` and `UpdatesSpareUserFiles`; without
  such a failure TLC finds both to hold with two cores.
- Recovery reads the install state before it takes the lock (`minecraft/recovery.rs:36`).
  An instance that another process has repaired and marked Installed in between is restored
  over from the left-over update directory; killed midway, the recovery leaves an instance
  that says Installed and lacks files. Hence one core in `InstalledIsHealthy`, or any number
  without kills and errors.
- The base installer marks a provider instance Installed before the provider files exist
  (`minecraft/install.rs:646`); killed there, it stays so, where `docs/install.md:33` says
  that Installed is written after every planned file validates.
- The entry of an attached game that has exited answers for later games of the instance
  (`process/mod.rs:335`), so that a game launched detached is neither seen nor stopped by
  that manager (`docs/processes.md:11`), and the next launch removes its record while it
  runs (`process/mod.rs:492`). `status`, the startup recovery and the monitors remove the
  record without the lock, also one written since they looked. `LiveRecordKept` allows
  these removals and no other.
- A failing `start_kill` is ignored (`process/mod.rs:152`, `194`): the monitor has spent
  its one signal, later stops report success without effect, and the third waits with the
  process lock until the game ends; a launch that cannot persist waits likewise.
  `StopsHonoured` and `CallsReturn` except exactly these games and calls. An error of
  `wait` itself, which the monitor takes for an exit, is not modelled.
- A prune that scanned an instance before it referenced an object reused from the cache
  removes that object (`cache/mod.rs:307`). The prune keeps what was referenced throughout.
- A process that waits for an object another process downloads gives up after 30 seconds
  (`download/mod.rs:406`, `lock/mod.rs:149`), and its installation fails, whatever the
  progress of the other. The waits for `cache-index.json`, the provider registry and
  `rollback.json` end likewise.
- A 304 answer is believed whatever it answers (`providers/service.rs:523`): the validators
  say little of the content, so a server that keeps answering 304 keeps a client at its old
  snapshot, and each sync reports success.
- The mutex of the trust store is of one process (`trust/mod.rs:412`): a revocation can be
  lost to a key that another process adds at the same time.
- With overlapping calls, a refresh or a launch that answers after a logout stores the
  session again (`auth/mod.rs:1144`); hence `callers = 1` in `LoggedOutForgotten`. A logout
  that is killed, or that the vault refuses, leaves an account without its token.
- A change of the configured providers that fails or is dropped between the removal and the
  rename of `providers.json` (`auth/config.rs:139`) leaves no file, while the providers
  registered before stay registered until the process ends, and the next start knows only
  the offline one. Dropped after the rename, it leaves a new file and the old providers.
  `RegisteredAsConfigured` holds up to such an end.
- A starting process sweeps the staging directory of a live Java installation
  (`java/managed.rs:513`), and an interrupted removal leaves a runtime that starts but is
  not complete; verification starts the executable and compares no files.
- A launch holds no lock, and nothing is compared again after the runtime is resolved: an
  installation of another version replaces the natives and the loader plan under a plan that
  is ready, or under the game (`minecraft/install.rs:1118`). `PlanCurrent` speaks of plans
  whose base is still the installed one.
- A library whose rules ask for an option of the launch, the resolution, is put on the
  class path (`minecraft/launch.rs:165`) but was never downloaded, because an installation
  evaluates the rules without options (`minecraft/install.rs:499`). `ClasspathComplete`
  allows exactly these.
- `docs/launch.md:4` says that the exact Java major is selected when available. It is, among
  the runtimes of the first source that has any that fits and unless another major is
  preferred; but a managed 21 goes before the system's 17, or the other way round, by the
  order of `docs/java.md:25`, and a preferred 21 before both. `RuntimeFits` states that
  order.
- A kill between removal and rename of `loader-plan.json` (`loaders/executor.rs:31`) leaves
  an instance to repair; an update from a loader to Vanilla leaves the old plan behind, and
  launches of the instance are refused (`minecraft/install.rs:1151`).
- A new installation copies what it enables and takes nothing away
  (`providers/service.rs:1795`): the files of components it no longer enables stay, listed by
  no index, and an update or toggle that would add such a component again stops at the file
  (`ManagedPathConflict`) until another installation copies over it. A failed installation
  lists no provider file at all, since its base has written a new index
  (`minecraft/install.rs:924`).
- An update that fails after `write_managed_index` keeps the new files, index and perhaps
  choices beside the old revision (`providers/service.rs:1531`). A kill or an error between the removal
  and the rename of `components.json` (`providers/components.rs:232`) loses every choice: the
  next operation takes the defaults. `ChoiceKept` allows that and nothing else.
- Of two components that exclude each other, each required by a chosen one, no single
  toggle reaches the other choice: `set_component_enabled` resolves after every toggle.

## Theorems

*InstanceTransactionsProofs*, for all cores, paths, contents, revisions, staging
directories and faults. `TypeOK` is not inductive: `StageFile` or `CommitIndex` uses a
staging directory or an index that might be gone. It is there because nobody else touches
the instance while this core holds the lock, so the invariant `TxInv` adds to the types the
ownership of the lock (`LockOwner`) and what every label relies on (`Relies`). `StepOK`
says that a step of one core keeps this for the core itself and leaves alone what the
others can see; a lemma proves it for each action. From `TxInvariant` follow
`TransactionTypes` and `TransactionsExclude`. Six more invariants rest on it:

- `ChoicesHeld`: from the comparison under the lock on, components.json is what the plan
  expects. It gives `TogglesNeverLost` for any number of cores and any faults.
- `VersionHeld`: which base the handle, the specification and the saved state name at each
  label. It gives `InstalledNamesVersion` for one core and any faults (`Alone`). With two
  cores the statement is false, as a repair uses the handle that its caller read before
  the lock (`minecraft/repair.rs:219`).
- `SpecHeld`: `instance.json` parses or somebody owes its rename, nobody owes a broken one,
  and an update directory holds a half-written copy of it only while its update copies.
  It gives `SpecificationKept` for any number of cores where nothing is killed or fails
  (`Uninterrupted`); with kills the run `spec` refutes the statement.
- `StatusHeld`: an operation that has begun to change files has taken the status away from
  Installed before, whatever other cores and faults do.
- `HealthHeld`: until which label the index still describes the files, and from which the
  status is no longer Installed, so that a kill in between is not believed. It gives
  `InstalledIsHealthy`, for files that nobody damages (`NoDamage`; damage done from outside
  is what repair is for), in two cases: one core under every failure and kill (`Alone`), and
  any number of cores where nothing is killed or fails (`Uninterrupted`). In the second case
  a recovery that read the status before the lock finds either nothing to restore or, by
  `SpecHeld`, a directory whose copy of `instance.json` it can read, so it ends with what it
  has verified.
- `FilesHeld`: what is staged, moved and still owed, path by path, compared with the files
  before the update. It gives `RollbackRestoresFiles` and, with `InstallsOnly`,
  `UpdatesSpareUserFiles`, for one core with errors, cancellations and files of the user,
  but without kills and damage (`Undisturbed`): after a kill recovery takes over, and
  `verify_update` returns without a rollback when an indexed file is gone.

*LockManagerProofs*, for all tasks and managers: `LockTypeOK`, `LockReservations`,
`LockExcludes`, `LockOwnerRecord` and the refinement `LockRefines`, from one invariant
that ties a reservation to the one task of the manager beyond its first loop and a locked
file to that task.

*ProcessManagerProofs*, for all managers, calls and games. The invariant says which labels
hold the lock, that a record read under the lock is still that record or gone, that an
exit is published only of a dead game, that the live game a manager watches is its entry,
and that a launch that goes on found no entry and then no record, or an exited entry. From
it: `ProcessTypes`, `WatchesOneGame` and the action property `LiveRecordsKept`.

*ComponentResolutionProofs*, for every finite set of components and every set of tables,
valid or not. `CyclesFound` is not inductive: that the counting loop has emptied its queue
says something about cycles only with what the counters mean. `GraphInv` says that a
counter is the number of dependencies not yet settled, that the settled components are
grounded (each non-empty set of them has a member without a requirement in the set), and
that `resolved` is their number; then a queue that runs dry with all settled means an
acyclic table, and otherwise the unsettled ones all have a requirement among themselves.
`ExpandInv` says that the enabled set lies in every closed set that holds the selected
ones and is closed but for the components still pending. `ApplyInv` and `VerdictInv` carry
what a finished resolution knows to the moment it is applied, and `BeforeInv` says what of
the instance the operation has left as it found it at each of its steps, which is what a
rollback, a recovery and the next operation meet. From `CompInvariant` follow
`KahnCorrect`, `ExpansionLeast`, `ActiveHolds` and, as an action property, `ChoicesKept`.

*ProviderSyncProofs*, for any number of clients, providers, packs, keys and published
documents. `HighWaterCovers` is not inductive: that a snapshot about to be renamed in is
covered rests on what the client recorded before, while others rewrite the same
rollback.json. The invariant says who owns each lock and each file under replacement
(`Owns`), which of the names of a file hold what (`Shape`), that what a client carries was
published under one signature (`Whole`), that the marks it has yet to write are at least
those on disk (`Promised`), that every snapshot ever accepted is covered by the marks
(`Committed`), and that a client holds no key barred to it (`Barred`). From `SyncInductive`
follow `SnapshotsAreWhole`, `MarksCoverSnapshots` and the action properties `MarksOnlyRise`,
`CommitsNeverRollBack` and `RevokedKeysNeverSync`.

*CacheManagerProofs*, for any number of processes, downloads, objects and retries. The
invariant says who holds the lock of an object and a permit (`Held`), that the part file of
a download under way is there and what it may contain (`Parts`), how many faults a failed
attempt has met (`Retry`: a foreign part file costs one attempt, hence the factor two), and
that the scan of a prune covers what stayed referenced (`Scanned`). From `CacheInductive`
follow `PartFilesKept`, `RetriesHeal` and the action properties `PublishesOnlyValidated`
and `StableReferencesKept`.

*LaunchProofs*, first for `ManagedJava`, any number of processes, operations and faults and
any files of a runtime: `RuntimeKept`, that `JavaInv` holds. It is not inductive.
`CommittedWhole` after the rename rests on what the staging directory held before: each file
was extracted or is still to be, and the manifest is written before the commit, unless a
recovery swept the directory (`StagingInv`). `RunningRuntimeKept` rests on the same fact
about a removal that still waits for its lock (`WaitingInv`).

Then for `LaunchPlan`, any versions, loaders, machines and policies: `LaunchesReadOneBase`,
that `LaunchInv` holds, and `InstalledOverlayFits`. The first needs what each label of a
launch has read already (`Shape`), for `PlanCurrent` what the second needs, and that `ResolveRuntime` names what the documented order
names (`ResolvesRight`, the case analysis over policy, explicit, selected, managed and
system runtimes); that a set of runtimes has a lowest one is the least-number principle
(`LeastNumber`). The second needs which plan and whose natives are on disk at each label of
a transaction (`OverlayHeld`, `BaseHeld`).

`ClasspathsComplete` is about metadata with any number of libraries, repeated or not, each
with any number of rules. The two loops, over the rules of a library and over the libraries,
are recursive functions over the place in the list. `LoopDefined` gives them their recursion
equation, and `Counting`, induction over a set of places by the least-number principle,
replaces the library's induction rule. With them the fold of `Allows` is the last rule that
matches (`AllowsIsPermitted`), and the jars appear in order, each at the place that the
number of permitted jars up to it gives (`ArtifactsInOrder`). A library that a launch allows
and an installation does not has a rule about an option (`PermittedAtInstall`). `Built`, that the plan of a
launch is the one built from its handle, resolution and loader, is inductive with
`Chosen`; without that the loader's jar would be of the loader plan read, not of the
instance the caller asked to launch.

*AuthManagerProofs*, for any number of calls, users and accounts and any starts. What a
provider may answer enters only through `AnswersFit`: an official session is the one the
call had or carries a Minecraft token numbered by the call. `Shape` gives the state its
types and says what a call carries at each label. `FlowsApart` and `CallApart` say that
pending flows and running calls never share a number, and that the flow state of a pending
flow was handed to nobody; they make `AuthSafe` inductive. `TokensKept` looks at metadata
wherever it is noted (session map, file, temporary, document of a call about to save) and
says that the vault has the token, or that a call has yet to store it; `NotedGrows`
says that metadata becomes noted only when a session enters the map, which is after its
secrets. `Solo` holds when calls do not overlap: the one call is the newest (`OneCall`), no
token is older than what is noted (`TokensFresh`), how far a logout has come
(`LogoutForgets`, `OutForgotten`) and that registry, file and pending change agree
until a call ends between the two (`Configured`). From `IInv` follow `AuthSafe`, `SecretsSafe` and `LogoutSafe`. The attempt
to prove `FlowsApart` showed that an earlier form of the model numbered flows by the calls
made so far, so that two overlapping logins could open one flow; the code's counter
cannot.

The assumptions are the `ASSUME`s of the modules: the types of the constants, and that the
markers (`Absent`, `Torn`, `NoCore`, ...) are none of the values they stand beside; for
`ProviderSync` that different documents have different digests (SHA-256), for `LaunchPlan`
that what is found in the managed directory is managed and what is found elsewhere is not
(`HostAssumption`). TLC evaluates them in every run. The hypotheses `Alone`, `NoDamage`,
`Undisturbed` and `Uninterrupted` are named in the theorems that need them; a run of TLC
satisfies each (`two` the last, with two cores).

Only model-checked: the liveness properties (they need fairness and ENABLED), and
`RepairConverges` for the same reason. Every invariant and every action property of the
passing runs is stated by a theorem.

## Plan

1. `RollbackRestores` across kills, with what recovery restores.
2. A repair whose caller read the instance before an update changed its base; instances
   created and deleted.

## Not modelled

The wire formats of the exchanges with Mojang, Microsoft, Azuriom and providers (what they
may answer is modelled), archive and JSON formats, cryptography (a signature covers a digest
or does not), the derivation of Forge, NeoForge and Fabric plans and their processors, the
argument strings of the launched game, legacy assets, progress events and log redaction,
the printing and parsing of the command lines and the signing tool: sequential derivations
or I/O around the calls modelled here. Operating-system races below the code's own steps (a
PID reused between the identity check and the signal) are outside the model too.
