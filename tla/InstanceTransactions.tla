----------------------- MODULE InstanceTransactions -----------------------
(***************************************************************************)
(* The transactions that change one provider-backed instance on disk:      *)
(* planning and applying an update (or a component toggle), a provider     *)
(* installation, a repair, and the startup recovery of whatever a killed   *)
(* process left behind.  A core is one CentralCore value (a process, or a  *)
(* task of one) and every action is one file-system effect of the code, so *)
(* a crash or another core may come between any two of them.               *)
(*                                                                         *)
(* Abstraction.  A managed file is its content, the Minecraft/loader base  *)
(* is its version, the cache objects a transaction copies from are there   *)
(* once downloaded (the cache has its own hazards), and the game is not    *)
(* running.  runtime/transaction.json is kept as the pair it records.      *)
(***************************************************************************)
EXTENDS Integers, FiniteSets

CONSTANTS
    Cores,             \* CentralCore values that may work on the instance
    Paths,             \* provider-managed paths below .minecraft
    Contents,          \* file contents the provider publishes
    Bases,             \* Minecraft/loader versions
    Selections,        \* component choices
    DefaultSelection,  \* what initialize_selections fills in
    MaxRevision,       \* bound: revisions the provider publishes
    Desired,           \* <<revision, selection>> -> the files it asks for
    BaseOf,            \* revision -> base version
    TxIds,             \* bound: update-<tx> staging directories that coexist
    Faults,            \* which of crash, fail, user, damage, tamper may happen
    Absent,            \* no such file or directory
    Torn,              \* a file opened for writing whose content is incomplete
    UserFile,          \* a file the user put there, in no index
    NoCore             \* nobody

Revisions == 1..MaxRevision
Slot      == Contents \cup {Absent}
Table     == [Paths -> Slot]
NoFiles   == [p \in Paths |-> Absent]

ASSUME InputAssumption ==
    /\ MaxRevision \in Nat \ {0}
    /\ Desired \in [Revisions \X Selections -> Table]
    /\ BaseOf \in [Revisions -> Bases]
    /\ DefaultSelection \in Selections
    /\ Faults \subseteq {"crash", "fail", "user", "damage", "tamper"}
    /\ NoCore \notin Cores

ASSUME MarkerAssumption ==
    /\ Absent \notin Contents \cup Bases \cup Selections \cup TxIds \cup Revisions
    /\ Torn \notin Revisions \cup {Absent}
    /\ UserFile \notin Slot

VARIABLES
    files,      \* the provider-managed paths of the instance
    natives,    \* runtime/natives: the base version extracted there
    doc,        \* instance.json, managed-files.json, install-state.json, components.json
    staging,    \* runtime/update-<tx>
    journal,    \* runtime/transaction.json: operation and state
    avail,      \* revision of the synchronized provider definition
    prior,      \* auxiliary: the instance as the last unfinished update found it
    lock,       \* holder of the lock instance:<id>
    pc,         \* where each core is
    job,        \* the locals of the operation a core is in
    pending     \* a temporary file written, its destination removed, not yet renamed

disk == <<files, natives, doc, staging, journal>>
vars == <<files, natives, doc, staging, journal, avail, prior, lock, pc, job, pending>>

(***************************************************************************)
(* Documents.                                                              *)
(***************************************************************************)
DocNames == {"spec", "index", "state", "selections"}
Status   == {"Installing", "Updating", "Interrupted", "Installed", "Broken"}
Index    == [version : Bases, natives : Bases, files : Table]

DocType == [spec       |-> Revisions \cup {Torn, Absent},
            index      |-> Index \cup {Torn, Absent},
            state      |-> [status : Status, base : Bases] \cup {Absent},
            selections |-> Selections \cup {Absent}]

Stage == [prev    : [spec : Revisions \cup {Torn, Absent}, index : Index \cup {Torn, Absent}],
          staged  : Table,
          backups : [Paths -> Slot \cup {UserFile}]]

EmptyStage == [prev    |-> [spec |-> Absent, index |-> Absent],
               staged  |-> NoFiles,
               backups |-> NoFiles]

ASSUME DocumentAssumption == Absent \notin Stage /\ {Absent, Torn} \cap Index = {}

Plan == [from : Revisions, to : Revisions, sel : Selections, expected : Selections,
         downloads : SUBSET Paths, replacements : SUBSET Paths, removals : SUBSET Paths,
         rebase : BOOLEAN]

NoPlan == [from |-> 1, to |-> 1, sel |-> DefaultSelection, expected |-> DefaultSelection,
           downloads |-> {}, replacements |-> {}, removals |-> {}, rebase |-> FALSE]

Ops == {"none", "update", "install", "repair", "recover"}

Job == [op : Ops, inst : Revisions, plan : Plan, tx : TxIds \cup {Absent},
        todo : SUBSET Paths, applied : SUBSET Paths, reextract : BOOLEAN]

NoJob == [op |-> "none", inst |-> 1, plan |-> NoPlan, tx |-> Absent,
          todo |-> {}, applied |-> {}, reextract |-> FALSE]

\* a rename owed: the document, its new value, the staging directory it comes from
Write(f) == [file : DocNames, val : DocType[f], tx : TxIds \cup {Absent}]
NoWrite  == [file |-> "none", val |-> Absent, tx |-> Absent]

JournalStates == {"none", "created", "preparing", "downloading", "applying", "finalizing",
                  "committing", "validating", "committed", "cancelled", "failed"}

\* files, revision and choices before an update
Prior   == [files : [Paths -> Slot \cup {UserFile}], spec : Revisions, sel : Selections]
NoPrior == [files |-> NoFiles, spec |-> 1, sel |-> DefaultSelection]

(***************************************************************************)
(* Reading.                                                                *)
(***************************************************************************)
\* instance.json parses: InstanceService::get succeeds
SpecReadable == doc["spec"] \notin {Absent, Torn}

\* managed-files.json parses
IndexReadable == doc["index"] \notin {Absent, Torn}

\* load_selections followed by initialize_selections
CurrentSelections ==
    IF doc["selections"] = Absent THEN DefaultSelection ELSE doc["selections"]

\* verify_index with full hashing: nothing missing or corrupted, no stray native
Healthy(index) ==
    /\ natives = index.natives
    /\ \A p \in Paths : index.files[p] # Absent => files[p] = index.files[p]

\* program points
Labels == {"down", "idle", "planDiff", "planned", "updLock", "updCheck", "updMkdir",
           "saveSpec", "saveIndex", "updStage", "updSpec", "updRemark", "updApplying", "updBackup",
           "updApply", "updVerify", "updIndex", "updSelect", "updCommit", "updClean",
           "updDone", "rollApplied", "rollBackups", "updFail",
           "base", "baseFetch", "nativesOut", "nativesIn", "baseIndex", "baseDone", "baseEnd",
           "insLock", "insMark", "insSelect", "insFiles", "insVerify", "insDone",
           "repLock", "repIndex", "repPlan", "repCopy", "repRefresh", "repVerify",
           "recLock", "recRestore", "recVerify", "recDone",
           "ok", "err", "release"}

(***************************************************************************)
(* Steps.                                                                  *)
(***************************************************************************)
\* core c is at label l and owes no rename
At(c, l) == pc[c] = l /\ pending[c] = NoWrite

Goto(c, l) == pc' = [pc EXCEPT ![c] = l]

SetJob(c, field, v) == job' = [job EXCEPT ![c] = [@ EXCEPT ![field] = v]]

\* write a temporary, remove the destination: the rename is still to come
Replace(c, f, v) ==
    /\ doc' = [doc EXCEPT ![f] = Absent]
    /\ pending' = [pending EXCEPT ![c] = [file |-> f, val |-> v, tx |-> Absent]]

\* mutant: the definition's revision recorded in place of the base version
MarkRevision(c, status, revision) ==
    Replace(c, "state", [status |-> status, base |-> revision])

\* mark_installing, mark_updating, mark_installed, mark_broken, mark_interrupted
Mark(c, status, revision) ==
    Replace(c, "state", [status |-> status, base |-> BaseOf[revision]])

Journal(op, state) == journal' = <<op, state>>

\* how an operation ends badly: a cancellation or any other error
Why == IF "fail" \in Faults THEN {"cancelled", "failed"} ELSE {"failed"}

\* the rename that finishes a Replace; a restored document leaves its staging
Rename(c) ==
    LET w == pending[c] IN
    /\ w # NoWrite
    /\ doc' = [doc EXCEPT ![w.file] = w.val]
    /\ pending' = [pending EXCEPT ![c] = NoWrite]
    /\ staging' = IF w.tx = Absent THEN staging
                  ELSE [staging EXCEPT ![w.tx].prev[w.file] = Absent]
    /\ UNCHANGED <<files, natives, journal, avail, prior, lock, pc, job>>

\* mutant: the guard leaks when the operation failed
ReleaseOnSuccess(c) ==
    /\ \/ At(c, "release") \/ At(c, "ok") \/ At(c, "err")
    /\ lock' = IF pc[c] = "err" THEN lock ELSE NoCore
    /\ Goto(c, "idle")
    /\ job' = [job EXCEPT ![c] = NoJob]
    /\ UNCHANGED <<disk, avail, prior, pending>>

\* the end of every operation: its last journal entry, and the lock guard is dropped
Release(c) ==
    /\ \/ At(c, "release") /\ UNCHANGED journal
       \/ At(c, "ok")  /\ Journal(job[c].op, "committed")
       \/ /\ At(c, "err")
          /\ \E why \in Why :
               /\ job[c].op = "repair" =>
                    (why = "cancelled" <=> doc["state"].status = "Interrupted")
               /\ Journal(job[c].op, why)
    /\ prior' = IF pc[c] = "err" THEN prior ELSE NoPrior
    /\ lock' = NoCore
    /\ Goto(c, "idle")
    /\ job' = [job EXCEPT ![c] = NoJob]
    /\ UNCHANGED <<files, natives, doc, staging, avail, pending>>

\* mutant: the lock is taken over from whoever holds it
TakeLock(c, from, to) ==
    /\ At(c, from)
    /\ lock' = c
    /\ Goto(c, to)
    /\ UNCHANGED <<disk, avail, prior, job, pending>>

\* try_acquire_exclusive("instance:<id>"): take it, or give up with Busy
TryLock(c, from, to) ==
    /\ At(c, from)
    /\ \/ /\ lock = NoCore
          /\ lock' = c
          /\ Goto(c, to)
          /\ UNCHANGED job
       \/ /\ lock # NoCore
          /\ Goto(c, "idle")
          /\ job' = [job EXCEPT ![c] = NoJob]
          /\ UNCHANGED lock
    /\ UNCHANGED <<disk, avail, prior, pending>>

(***************************************************************************)
(* Planning an update or a component toggle.                               *)
(***************************************************************************)
\* bound: a transaction needs one of the TxIds staging directories
StagingAvailable == \E tx \in TxIds : staging[tx] = Absent

\* instance.json, components.json and the definition are read without a lock
PlanRead(c, sel) ==
    /\ At(c, "idle")
    /\ StagingAvailable
    /\ SpecReadable
    /\ job' = [job EXCEPT ![c] = [NoJob EXCEPT
                 !.op = "update", !.inst = doc["spec"],
                 !.plan = [NoPlan EXCEPT !.from = doc["spec"], !.to = avail,
                                         !.sel = sel, !.expected = CurrentSelections]]]
    /\ Goto(c, "planDiff")
    /\ UNCHANGED <<disk, avail, prior, lock, pending>>

\* the diff of managed-files.json against the desired files; no index, no plan
PlanDiff(c) ==
    LET plan == job[c].plan
        want == Desired[plan.to, plan.sel]
        have == doc["index"].files
    IN
    /\ At(c, "planDiff")
    /\ \/ /\ IndexReadable
          /\ SetJob(c, "plan", [plan EXCEPT
                !.downloads    = {p \in Paths : want[p] # Absent /\ have[p] = Absent},
                !.replacements = {p \in Paths : want[p] # Absent /\ have[p] # Absent
                                                                 /\ have[p] # want[p]},
                !.removals     = {p \in Paths : want[p] = Absent /\ have[p] # Absent},
                !.rebase       = BaseOf[plan.from] # BaseOf[plan.to]])
          /\ Goto(c, "planned")
       \/ /\ ~IndexReadable
          /\ job' = [job EXCEPT ![c] = NoJob]
          /\ Goto(c, "idle")
    /\ UNCHANGED <<disk, avail, prior, lock, pending>>

(***************************************************************************)
(* apply_update.                                                           *)
(***************************************************************************)
\* the instance handle is read before the lock is taken
ApplyGet(c) ==
    /\ At(c, "planned")
    /\ \/ /\ SpecReadable
          /\ SetJob(c, "inst", doc["spec"])
          /\ Goto(c, "updLock")
       \/ /\ ~SpecReadable
          /\ job' = [job EXCEPT ![c] = NoJob]
          /\ Goto(c, "idle")
    /\ UNCHANGED <<disk, avail, prior, lock, pending>>

ApplyLock(c) ==
    /\ StagingAvailable
    /\ TryLock(c, "updLock", "updCheck")

\* mutant: the component choices are not compared again
PlanRevisionIsCurrent(c) ==
    /\ avail = job[c].plan.to
    /\ job[c].inst = job[c].plan.from

\* StaleUpdatePlan, StaleInstalledRevision, StaleComponentSelections
PlanIsCurrent(c) ==
    /\ avail = job[c].plan.to
    /\ job[c].inst = job[c].plan.from
    /\ CurrentSelections = job[c].plan.expected

ApplyRefuse(c) ==
    /\ At(c, "updCheck")
    /\ ~PlanIsCurrent(c)
    /\ Goto(c, "release")
    /\ UNCHANGED <<disk, avail, prior, lock, job, pending>>

\* journal created, mark_updating; the transaction id names an unused directory
ApplyBegin(c) ==
    /\ At(c, "updCheck")
    /\ PlanIsCurrent(c)
    /\ \E tx \in TxIds : staging[tx] = Absent /\ SetJob(c, "tx", tx)
    /\ prior' = [files |-> files, spec |-> job[c].inst, sel |-> CurrentSelections]
    /\ Journal("update", "created")
    /\ Mark(c, "Updating", job[c].inst)
    /\ Goto(c, "updMkdir")
    /\ UNCHANGED <<files, natives, staging, avail, lock>>

MakeStaging(c) ==
    /\ At(c, "updMkdir")
    /\ Journal("update", "preparing")
    /\ staging' = [staging EXCEPT ![job[c].tx] = EmptyStage]
    /\ Goto(c, "saveSpec")
    /\ UNCHANGED <<files, natives, doc, avail, prior, lock, job, pending>>

\* copy_real_file: the destination exists, empty, before its content arrives
CopyPrevious(c, f, here, next) ==
    LET tx == job[c].tx IN
    /\ At(c, here)
    /\ doc[f] # Absent
    /\ \/ /\ staging[tx].prev[f] = Absent
          /\ staging' = [staging EXCEPT ![tx].prev[f] = Torn]
          /\ UNCHANGED <<pc, job, journal>>
       \/ /\ staging[tx].prev[f] = Torn
          /\ staging' = [staging EXCEPT ![tx].prev[f] = doc[f]]
          /\ SetJob(c, "todo", job[c].plan.downloads \cup job[c].plan.replacements)
          /\ journal' = IF f = "index" THEN <<"update", "downloading">> ELSE journal
          /\ Goto(c, next)
    /\ UNCHANGED <<files, natives, doc, avail, prior, lock, pending>>

\* the source to copy is missing, or the copy fails
CopyFails(c) ==
    /\ At(c, "saveSpec") \/ At(c, "saveIndex")
    /\ \/ "fail" \in Faults
       \/ doc[IF pc[c] = "saveSpec" THEN "spec" ELSE "index"] = Absent
    /\ Goto(c, "updFail")
    /\ UNCHANGED <<disk, avail, prior, lock, job, pending>>

SaveSpec(c)  == CopyPrevious(c, "spec", "saveSpec", "saveIndex")
SaveIndex(c) == CopyPrevious(c, "index", "saveIndex", "updStage")

\* one changed file is downloaded into the cache, verified and copied to staging
StageFile(c, p) ==
    LET plan == job[c].plan IN
    /\ At(c, "updStage")
    /\ p \in job[c].todo
    /\ staging' = [staging EXCEPT ![job[c].tx].staged[p] = Desired[plan.to, plan.sel][p]]
    /\ SetJob(c, "todo", job[c].todo \ {p})
    /\ UNCHANGED <<files, natives, doc, journal, avail, prior, lock, pc, pending>>

\* a download error, or the cancellation token seen before the files are touched
StageFails(c) ==
    /\ At(c, "updStage")
    /\ "fail" \in Faults
    /\ Goto(c, "updFail")
    /\ UNCHANGED <<disk, avail, prior, lock, job, pending>>

StageDone(c) ==
    /\ At(c, "updStage")
    /\ job[c].todo = {}
    /\ IF job[c].plan.rebase
         THEN Goto(c, "updSpec")
         ELSE Goto(c, "updApplying")
    /\ UNCHANGED <<disk, avail, prior, lock, job, pending>>

\* a new base: instance.json is replaced, then the base installed (InstallBase below)
RebaseSpec(c) ==
    /\ At(c, "updSpec")
    /\ IF IndexReadable
         THEN Replace(c, "spec", job[c].plan.to) /\ Goto(c, "base")
         ELSE Goto(c, "updFail") /\ UNCHANGED <<doc, pending>>
    /\ UNCHANGED <<files, natives, staging, journal, avail, prior, lock, job>>

\* natives of the old base are gone with their directory: no base path is left to remove
RebaseDone(c) ==
    /\ At(c, "updRemark")
    /\ Mark(c, "Updating", job[c].plan.to)
    /\ Goto(c, "updApplying")
    /\ UNCHANGED <<files, natives, staging, journal, avail, prior, lock, job>>

StartApplying(c) ==
    /\ At(c, "updApplying")
    /\ Journal("update", "applying")
    /\ SetJob(c, "todo", job[c].plan.removals \cup job[c].plan.replacements)
    /\ Goto(c, "updBackup")
    /\ UNCHANGED <<files, natives, doc, staging, avail, prior, lock, pending>>

CancelBeforeApply(c) ==
    /\ At(c, "updBackup")
    /\ job[c].todo = job[c].plan.removals \cup job[c].plan.replacements
    /\ "fail" \in Faults
    /\ Goto(c, "updFail")
    /\ UNCHANGED <<disk, avail, prior, lock, job, pending>>

\* move_to_backup: a file that is not there is skipped
BackupFile(c, p) ==
    /\ At(c, "updBackup")
    /\ p \in job[c].todo
    /\ IF files[p] = Absent THEN UNCHANGED <<files, staging>>
       ELSE /\ staging' = [staging EXCEPT ![job[c].tx].backups[p] = files[p]]
            /\ files' = [files EXCEPT ![p] = Absent]
    /\ SetJob(c, "todo", job[c].todo \ {p})
    /\ UNCHANGED <<natives, doc, journal, avail, prior, lock, pc, pending>>

BackupDone(c) ==
    /\ At(c, "updBackup")
    /\ job[c].todo = {}
    /\ SetJob(c, "todo", job[c].plan.downloads \cup job[c].plan.replacements)
    /\ Goto(c, "updApply")
    /\ UNCHANGED <<disk, avail, prior, lock, pending>>

\* downloads come before replacements
NextToApply(c) ==
    LET fresh == job[c].todo \cap job[c].plan.downloads IN
    IF fresh # {} THEN fresh ELSE job[c].todo

\* p is in place
Applied(c, p) ==
    [job[c] EXCEPT !.todo = job[c].todo \ {p}, !.applied = job[c].applied \cup {p}]

\* mutant: the staged file replaces whatever is in the way
ApplyOver(c, p) ==
    /\ At(c, "updApply")
    /\ p \in NextToApply(c)
    /\ files' = [files EXCEPT ![p] = staging[job[c].tx].staged[p]]
    /\ staging' = [staging EXCEPT ![job[c].tx].staged[p] = Absent]
    /\ job' = [job EXCEPT ![c] = Applied(c, p)]
    /\ UNCHANGED <<natives, doc, journal, avail, prior, lock, pc, pending>>

\* move_staged_into_instance: ManagedPathConflict when something is in the way
ApplyFile(c, p) ==
    /\ At(c, "updApply")
    /\ p \in NextToApply(c)
    /\ IF files[p] = Absent
         THEN /\ files' = [files EXCEPT ![p] = staging[job[c].tx].staged[p]]
              /\ staging' = [staging EXCEPT ![job[c].tx].staged[p] = Absent]
              /\ job' = [job EXCEPT ![c] = Applied(c, p)]
              /\ UNCHANGED pc
         ELSE /\ Goto(c, "rollApplied")
              /\ UNCHANGED <<files, staging, job>>
    /\ UNCHANGED <<natives, doc, journal, avail, prior, lock, pending>>

ApplyDone(c) ==
    /\ At(c, "updApply")
    /\ job[c].todo = {}
    /\ Goto(c, "updVerify")
    /\ UNCHANGED <<disk, avail, prior, lock, job, pending>>

\* the index the transaction will commit: base entries kept, provider entries replaced
NewIndex(c) == [doc["index"] EXCEPT !.files = Desired[job[c].plan.to, job[c].plan.sel]]

\* a desired file that cannot be snapshotted returns early: no rollback
VerifyUpdate(c) ==
    LET want == Desired[job[c].plan.to, job[c].plan.sel]
        lost == \E p \in Paths : want[p] # Absent /\ files[p] = Absent
    IN
    /\ At(c, "updVerify")
    /\ \/ /\ ~IndexReadable \/ lost
          /\ Goto(c, "updFail")
          /\ UNCHANGED journal
       \/ /\ IndexReadable /\ ~lost /\ ~Healthy(NewIndex(c))
          /\ Goto(c, "rollApplied")
          /\ UNCHANGED journal
       \/ /\ IndexReadable /\ ~lost /\ Healthy(NewIndex(c))
          /\ Journal("update", "finalizing")
          /\ Goto(c, "updIndex")
    /\ UNCHANGED <<files, natives, doc, staging, avail, prior, lock, job, pending>>

\* mutant: the rollback removes nothing and only puts the backups back
RollbackSkipsApplied(c) ==
    /\ At(c, "rollApplied")
    /\ SetJob(c, "todo", job[c].plan.removals \cup job[c].plan.replacements)
    /\ Goto(c, "rollBackups")
    /\ UNCHANGED <<disk, avail, prior, lock, pending>>

\* rollback_update_files: what was applied is removed, what was backed up put back
RollbackApplied(c) ==
    /\ At(c, "rollApplied")
    /\ IF job[c].applied = {}
         THEN /\ SetJob(c, "todo", job[c].plan.removals \cup job[c].plan.replacements)
              /\ Goto(c, "rollBackups")
              /\ UNCHANGED files
         ELSE \E p \in job[c].applied :
              /\ files' = [files EXCEPT ![p] = Absent]
              /\ SetJob(c, "applied", job[c].applied \ {p})
              /\ UNCHANGED pc
    /\ UNCHANGED <<natives, doc, staging, journal, avail, prior, lock, pending>>

RollbackBackups(c) ==
    LET tx == job[c].tx IN
    /\ At(c, "rollBackups")
    /\ IF job[c].todo = {}
         THEN Goto(c, "updFail") /\ UNCHANGED <<files, staging, job>>
         ELSE \E p \in job[c].todo :
              /\ IF staging[tx].backups[p] = Absent THEN UNCHANGED <<files, staging>>
                 ELSE /\ files' = [files EXCEPT ![p] = staging[tx].backups[p]]
                      /\ staging' = [staging EXCEPT ![tx].backups[p] = Absent]
              /\ SetJob(c, "todo", job[c].todo \ {p})
              /\ UNCHANGED pc
    /\ UNCHANGED <<natives, doc, journal, avail, prior, lock, pending>>

\* the error arm of apply_update; the staging directory stays
UpdateFails(c) ==
    /\ At(c, "updFail")
    /\ Mark(c, "Interrupted", job[c].inst)
    /\ Goto(c, "err")
    /\ UNCHANGED <<files, natives, staging, journal, avail, prior, lock, job>>

CommitIndex(c) ==
    /\ At(c, "updIndex")
    /\ Replace(c, "index", NewIndex(c))
    /\ Goto(c, "updSelect")
    /\ UNCHANGED <<files, natives, staging, journal, avail, prior, lock, job>>

CommitSelections(c) ==
    /\ At(c, "updSelect")
    /\ Replace(c, "selections", job[c].plan.sel)
    /\ Goto(c, "updCommit")
    /\ UNCHANGED <<files, natives, staging, journal, avail, prior, lock, job>>

CommitSpec(c) ==
    /\ At(c, "updCommit")
    /\ IF job[c].plan.rebase THEN UNCHANGED <<doc, pending>>
       ELSE Replace(c, "spec", job[c].plan.to)
    /\ Goto(c, "updClean")
    /\ UNCHANGED <<files, natives, staging, journal, avail, prior, lock, job>>

\* remove_dir_all deletes the entries one after the other, in no fixed order
CleanStaging(c) ==
    LET tx == job[c].tx
        st == staging[tx] IN
    /\ At(c, "updClean")
    /\ \/ \E f \in {"spec", "index"} :
            /\ st.prev[f] # Absent
            /\ staging' = [staging EXCEPT ![tx].prev[f] = Absent]
            /\ UNCHANGED pc
       \/ \E p \in Paths :
            /\ st.backups[p] # Absent
            /\ staging' = [staging EXCEPT ![tx].backups[p] = Absent]
            /\ UNCHANGED pc
       \/ /\ st = EmptyStage
          /\ staging' = [staging EXCEPT ![tx] = Absent]
          /\ Goto(c, "updDone")
    /\ UNCHANGED <<files, natives, doc, journal, avail, prior, lock, job, pending>>

\* mutant: the handle read before the update names the installed version
UpdateDoneStale(c) ==
    /\ At(c, "updDone")
    /\ Mark(c, "Installed", job[c].inst)
    /\ Goto(c, "ok")
    /\ UNCHANGED <<files, natives, staging, journal, avail, prior, lock, job>>

\* the instance is read again, marked installed, the journal committed
UpdateDone(c) ==
    /\ At(c, "updDone")
    /\ SpecReadable
    /\ Mark(c, "Installed", doc["spec"])
    /\ Goto(c, "ok")
    /\ UNCHANGED <<files, natives, staging, journal, avail, prior, lock, job>>

(***************************************************************************)
(* install_mode_unlocked: the base game, for an installation or an update. *)
(***************************************************************************)
\* the revision whose base is being installed
BaseRevision(c) == IF job[c].op = "update" THEN job[c].plan.to ELSE job[c].inst

BaseBegin(c) ==
    /\ At(c, "base")
    /\ Journal("install", "created")
    /\ Mark(c, "Installing", BaseRevision(c))
    /\ Goto(c, "baseFetch")
    /\ UNCHANGED <<files, natives, staging, avail, prior, lock, job>>

\* resolve and download everything, extract the natives to .staging
BaseFetch(c) ==
    /\ At(c, "baseFetch")
    /\ Journal("install", "committing")
    /\ Goto(c, "nativesOut")
    /\ UNCHANGED <<files, natives, doc, staging, avail, prior, lock, job, pending>>

\* cancelled: Interrupted; any other error: Broken; an update then runs its own error arm
BaseFails(c, why) ==
    /\ At(c, "baseFetch")
    /\ "fail" \in Faults
    /\ Mark(c, IF why = "cancelled" THEN "Interrupted" ELSE "Broken", BaseRevision(c))
    /\ Journal("install", why)
    /\ Goto(c, IF job[c].op = "update" THEN "updFail" ELSE "release")
    /\ UNCHANGED <<files, natives, staging, avail, prior, lock, job>>

\* reextract_managed_natives: the old directory is renamed away, the new one in
NativesOut(c) ==
    /\ At(c, "nativesOut")
    /\ natives' = Absent
    /\ Goto(c, "nativesIn")
    /\ UNCHANGED <<files, doc, staging, journal, avail, prior, lock, job, pending>>

\* an installation extracts its plan's archives, a repair those the index names
NativesIn(c) ==
    /\ At(c, "nativesIn")
    /\ IF job[c].op = "repair"
         THEN natives' = doc["index"].version /\ Goto(c, "repRefresh")
         ELSE natives' = BaseOf[BaseRevision(c)] /\ Goto(c, "baseIndex")
    /\ UNCHANGED <<files, doc, staging, journal, avail, prior, lock, job, pending>>

\* persist_managed_index lists cache objects and natives, no provider file
BaseIndexOf(revision) ==
    [version |-> BaseOf[revision], natives |-> natives, files |-> NoFiles]

BaseIndex(c) ==
    /\ At(c, "baseIndex")
    /\ natives # Absent
    /\ Replace(c, "index", BaseIndexOf(BaseRevision(c)))
    /\ Goto(c, "baseDone")
    /\ UNCHANGED <<files, natives, staging, journal, avail, prior, lock, job>>

\* the natives directory or an object cannot be read: the error leaves without marking anything
BaseIndexFails(c) ==
    /\ At(c, "baseIndex")
    /\ natives = Absent \/ "fail" \in Faults
    /\ Goto(c, IF job[c].op = "update" THEN "updFail" ELSE "release")
    /\ UNCHANGED <<disk, avail, prior, lock, job, pending>>

BaseDone(c) ==
    /\ At(c, "baseDone")
    /\ Mark(c, "Installed", BaseRevision(c))
    /\ Goto(c, "baseEnd")
    /\ UNCHANGED <<files, natives, staging, journal, avail, prior, lock, job>>

BaseEnd(c) ==
    /\ At(c, "baseEnd")
    /\ Journal("install", "committed")
    /\ Goto(c, IF job[c].op = "update" THEN "updRemark" ELSE "insMark")
    /\ UNCHANGED <<files, natives, doc, staging, avail, prior, lock, job, pending>>

(***************************************************************************)
(* Provider installation: the base, then the provider's files.             *)
(***************************************************************************)
\* the definition and the materialized instance; an existing instance.json is kept
InstallRead(c) ==
    /\ At(c, "idle")
    /\ SpecReadable
    /\ job' = [job EXCEPT ![c] = [NoJob EXCEPT
                 !.op = "install", !.inst = doc["spec"], !.plan.to = avail]]
    /\ Goto(c, "insLock")
    /\ UNCHANGED <<disk, avail, prior, lock, pending>>

InstallLock(c) == TryLock(c, "insLock", "base")

InstallMark(c) ==
    /\ At(c, "insMark")
    /\ Mark(c, "Installing", job[c].inst)
    /\ Goto(c, "insSelect")
    /\ UNCHANGED <<files, natives, staging, journal, avail, prior, lock, job>>

\* the choices are made: their files are to be copied
Selected(c, sel) ==
    [job[c] EXCEPT !.plan = [job[c].plan EXCEPT !.sel = sel],
                   !.todo = {p \in Paths : Desired[job[c].plan.to, sel][p] # Absent}]

\* install_provider_files: existing choices are honoured, defaults filled in
InstallSelect(c) ==
    LET sel == CurrentSelections IN
    /\ At(c, "insSelect")
    /\ Replace(c, "selections", sel)
    /\ job' = [job EXCEPT ![c] = Selected(c, sel)]
    /\ Goto(c, "insFiles")
    /\ UNCHANGED <<files, natives, staging, journal, avail, prior, lock>>

\* replace_file and repair_copy: remove the destination, then rename the verified copy in
CopyInto(c, p, content) ==
    /\ IF files[p] # Absent
         THEN files' = [files EXCEPT ![p] = Absent] /\ UNCHANGED job
         ELSE files' = [files EXCEPT ![p] = content] /\ SetJob(c, "todo", job[c].todo \ {p})
    /\ UNCHANGED <<natives, doc, staging, journal, avail, prior, lock, pc, pending>>

InstallFile(c, p) ==
    /\ At(c, "insFiles")
    /\ p \in job[c].todo
    /\ CopyInto(c, p, Desired[job[c].plan.to, job[c].plan.sel][p])

\* a failed or cancelled download, or a final verification that is not healthy: Broken
InstallFails(c) ==
    /\ \/ At(c, "insFiles") /\ job[c].todo # {} /\ "fail" \in Faults
       \/ At(c, "insVerify") /\ ~(IndexReadable /\ Healthy(NewIndex(c)))
    /\ Mark(c, "Broken", job[c].inst)
    /\ Goto(c, "release")
    /\ UNCHANGED <<files, natives, staging, journal, avail, prior, lock, job>>

InstallCopied(c) ==
    /\ At(c, "insFiles")
    /\ job[c].todo = {}
    /\ Goto(c, "insVerify")
    /\ UNCHANGED <<disk, avail, prior, lock, job, pending>>

InstallIndex(c) ==
    /\ At(c, "insVerify")
    /\ IndexReadable /\ Healthy(NewIndex(c))
    /\ Replace(c, "index", NewIndex(c))
    /\ Goto(c, "insDone")
    /\ UNCHANGED <<files, natives, staging, journal, avail, prior, lock, job>>

InstallDone(c) ==
    /\ At(c, "insDone")
    /\ Mark(c, "Installed", job[c].inst)
    /\ Goto(c, "release")
    /\ UNCHANGED <<files, natives, staging, journal, avail, prior, lock, job>>

(***************************************************************************)
(* Repair.                                                                 *)
(***************************************************************************)
RepairRead(c) ==
    /\ At(c, "idle")
    /\ SpecReadable
    /\ job' = [job EXCEPT ![c] = [NoJob EXCEPT !.op = "repair", !.inst = doc["spec"]]]
    /\ Goto(c, "repLock")
    /\ UNCHANGED <<disk, avail, prior, lock, pending>>

RepairLock(c) == TryLock(c, "repLock", "repIndex")

\* a missing index is rebuilt from the install plan: base files and the natives on disk,
\* whose directory has to be there
RepairIndex(c) ==
    /\ At(c, "repIndex")
    /\ Journal("repair", "created")
    /\ IF doc["index"] = Absent
         THEN natives # Absent /\ Replace(c, "index", BaseIndexOf(job[c].inst))
         ELSE UNCHANGED <<doc, pending>>
    /\ Goto(c, "repPlan")
    /\ UNCHANGED <<files, natives, staging, avail, prior, lock, job>>

\* mutant: lost natives are not planned for re-extraction
RepairPlanFilesOnly(c) ==
    /\ At(c, "repPlan")
    /\ IndexReadable
    /\ Journal("repair", "downloading")
    /\ SetJob(c, "todo", {p \in Paths : /\ doc["index"].files[p] # Absent
                                        /\ files[p] # doc["index"].files[p]})
    /\ Goto(c, "repCopy")
    /\ UNCHANGED <<files, natives, doc, staging, avail, prior, lock, pending>>

\* resolve_repair_plan: invalid indexed files are copied again, bad natives re-extracted
RepairPlan(c) ==
    /\ At(c, "repPlan")
    /\ IndexReadable
    /\ Journal("repair", "downloading")
    /\ LET index == doc["index"] IN
       job' = [job EXCEPT ![c] = [@ EXCEPT
          !.todo = {p \in Paths : index.files[p] # Absent /\ files[p] # index.files[p]},
          !.reextract = natives # index.natives]]
    /\ Goto(c, "repCopy")
    /\ UNCHANGED <<files, natives, doc, staging, avail, prior, lock, pending>>

RepairFile(c, p) ==
    /\ At(c, "repCopy")
    /\ p \in job[c].todo
    /\ CopyInto(c, p, doc["index"].files[p])

RepairCopied(c) ==
    /\ At(c, "repCopy")
    /\ job[c].todo = {}
    /\ IF job[c].reextract
         THEN Journal("repair", "committing") /\ Goto(c, "nativesOut")
         ELSE UNCHANGED journal /\ Goto(c, "repRefresh")
    /\ UNCHANGED <<files, natives, doc, staging, avail, prior, lock, job, pending>>

\* refresh_index snapshots every indexed file, so none may be missing
Refreshable(index) ==
    /\ natives # Absent
    /\ \A p \in Paths : index.files[p] # Absent => files[p] # Absent

RepairRefresh(c) ==
    /\ At(c, "repRefresh")
    /\ Refreshable(doc["index"])
    /\ Journal("repair", "validating")
    /\ Replace(c, "index", doc["index"])
    /\ Goto(c, "repVerify")
    /\ UNCHANGED <<files, natives, staging, avail, prior, lock, job>>

RepairDone(c) ==
    /\ At(c, "repVerify")
    /\ Healthy(doc["index"])
    /\ Mark(c, "Installed", job[c].inst)
    /\ Goto(c, "ok")
    /\ UNCHANGED <<files, natives, staging, journal, avail, prior, lock, job>>

\* a download error or cancellation, an unreadable index, a file lost on the way,
\* or a final verification that is not healthy
RepairFails(c) ==
    /\ \/ At(c, "repCopy") /\ "fail" \in Faults
       \/ At(c, "repIndex") /\ doc["index"] = Absent /\ (natives = Absent \/ "fail" \in Faults)
       \/ At(c, "repPlan") /\ ~IndexReadable
       \/ At(c, "repRefresh") /\ ~Refreshable(doc["index"])
       \/ At(c, "repVerify") /\ ~Healthy(doc["index"])
    /\ \E why \in Why : Mark(c, IF why = "cancelled" THEN "Interrupted" ELSE "Broken",
                             job[c].inst)
    /\ Goto(c, "err")
    /\ UNCHANGED <<files, natives, staging, journal, avail, prior, lock, job>>

(***************************************************************************)
(* Startup: CentralCoreBuilder::build runs MinecraftManager::recover.      *)
(***************************************************************************)
\* list() needs a readable instance.json; only unfinished states are looked at,
\* and the state is read before the lock
Start(c) ==
    /\ At(c, "down")
    /\ SpecReadable
    /\ IF doc["state"] # Absent
          /\ doc["state"].status \in {"Installing", "Updating", "Interrupted"}
         THEN Goto(c, "recLock") /\ SetJob(c, "op", "recover")
         ELSE Goto(c, "idle") /\ UNCHANGED job
    /\ UNCHANGED <<disk, avail, prior, lock, pending>>

\* busy: active elsewhere, the instance is left alone
RecoverLock(c) == TryLock(c, "recLock", "recRestore")

\* the update-* directories, in the order read_dir returns them
PickStaging(c) ==
    /\ At(c, "recRestore")
    /\ job[c].tx = Absent
    /\ \E tx \in TxIds :
          /\ staging[tx] # Absent
          /\ SetJob(c, "tx", tx)
    /\ UNCHANGED <<disk, avail, prior, lock, pc, pending>>

\* restore_backup_tree: what is in the way is removed, then the backup renamed back
RestoreBackup(c, p) ==
    LET tx == job[c].tx IN
    /\ At(c, "recRestore")
    /\ tx # Absent
    /\ staging[tx].backups[p] # Absent
    /\ IF files[p] # Absent
         THEN files' = [files EXCEPT ![p] = Absent] /\ UNCHANGED staging
         ELSE /\ files' = [files EXCEPT ![p] = staging[tx].backups[p]]
              /\ staging' = [staging EXCEPT ![tx].backups[p] = Absent]
    /\ UNCHANGED <<natives, doc, journal, avail, prior, lock, pc, job, pending>>

\* restore_metadata_file: instance.json first, then managed-files.json
RestoreDoc(c, f) ==
    LET tx == job[c].tx IN
    /\ At(c, "recRestore")
    /\ tx # Absent
    /\ staging[tx].backups = NoFiles
    /\ f = "index" => staging[tx].prev["spec"] = Absent
    /\ staging[tx].prev[f] # Absent
    /\ doc' = [doc EXCEPT ![f] = Absent]
    /\ pending' = [pending EXCEPT ![c] = [file |-> f, val |-> staging[tx].prev[f], tx |-> tx]]
    /\ UNCHANGED <<files, natives, staging, journal, avail, prior, lock, pc, job>>

DropStaging(c) ==
    LET tx == job[c].tx IN
    /\ At(c, "recRestore")
    /\ tx # Absent
    /\ staging[tx].backups = NoFiles
    /\ staging[tx].prev = EmptyStage.prev
    /\ staging' = [staging EXCEPT ![tx] = Absent]
    /\ SetJob(c, "tx", Absent)
    /\ UNCHANGED <<files, natives, doc, journal, avail, prior, lock, pc, pending>>

RestoreDone(c) ==
    /\ At(c, "recRestore")
    /\ job[c].tx = Absent
    /\ \A tx \in TxIds : staging[tx] = Absent
    /\ Goto(c, "recVerify")
    /\ UNCHANGED <<disk, avail, prior, lock, job, pending>>

\* mutant: an index that parses is enough to promote the instance
RecoverUnverified(c) ==
    /\ At(c, "recVerify")
    /\ SpecReadable
    /\ Mark(c, IF IndexReadable THEN "Installed" ELSE "Interrupted", doc["spec"])
    /\ Goto(c, "recDone")
    /\ UNCHANGED <<files, natives, staging, journal, avail, prior, lock, job>>

\* a full verification promotes the instance or leaves it recoverable
RecoverVerify(c) ==
    /\ At(c, "recVerify")
    /\ SpecReadable
    /\ Mark(c, IF IndexReadable /\ Healthy(doc["index"]) THEN "Installed" ELSE "Interrupted",
            doc["spec"])
    /\ Goto(c, "recDone")
    /\ UNCHANGED <<files, natives, staging, journal, avail, prior, lock, job>>

\* instance.json cannot be read: recover, and with it build, returns the error
RecoverFails(c) ==
    /\ At(c, "recVerify")
    /\ ~SpecReadable
    /\ lock' = NoCore
    /\ Goto(c, "down")
    /\ job' = [job EXCEPT ![c] = NoJob]
    /\ UNCHANGED <<disk, avail, prior, pending>>

RecoverDone(c) ==
    /\ At(c, "recDone")
    /\ Goto(c, "release")
    /\ UNCHANGED <<disk, avail, prior, lock, job, pending>>

(***************************************************************************)
(* Environment.                                                            *)
(***************************************************************************)
\* a synchronization publishes the next revision of the definition
SyncDefinition ==
    /\ avail < MaxRevision
    /\ avail' = avail + 1
    /\ UNCHANGED <<disk, prior, lock, pc, job, pending>>

\* the process dies: the OS drops its lock, a temporary file is never renamed
Crash(c) ==
    /\ "crash" \in Faults
    /\ pc[c] # "down"
    /\ pc' = [pc EXCEPT ![c] = "down"]
    /\ job' = [job EXCEPT ![c] = NoJob]
    /\ pending' = [pending EXCEPT ![c] = NoWrite]
    /\ lock' = IF lock = c THEN NoCore ELSE lock
    /\ UNCHANGED <<disk, avail, prior>>

\* the user drops a file of their own where CentralCore has none, between transactions
AddUserFile(p) ==
    /\ "user" \in Faults
    /\ lock = NoCore
    /\ files[p] = Absent
    /\ IndexReadable => doc["index"].files[p] = Absent
    /\ files' = [files EXCEPT ![p] = UserFile]
    /\ UNCHANGED <<natives, doc, staging, journal, avail, prior, lock, pc, job, pending>>

\* a managed file is deleted or overwritten, or the natives lost: between transactions
\* (damage) or at any time (tamper)
Tamper ==
    /\ "tamper" \in Faults \/ ("damage" \in Faults /\ lock = NoCore)
    /\ \/ /\ \E p \in Paths, v \in Slot :
               files[p] # UserFile /\ files' = [files EXCEPT ![p] = v]
          /\ UNCHANGED natives
       \/ /\ natives' = Absent
          /\ UNCHANGED files
    /\ UNCHANGED <<doc, staging, journal, avail, prior, lock, pc, job, pending>>

(***************************************************************************)
(* The specification.  A core starts down; the instance is materialized at *)
(* revision 1 and not installed.                                           *)
(***************************************************************************)
Init ==
    /\ files = NoFiles
    /\ natives = Absent
    /\ doc = [spec |-> 1, index |-> Absent, state |-> Absent, selections |-> Absent]
    /\ staging = [tx \in TxIds |-> Absent]
    /\ journal = <<"none", "none">>
    /\ avail = 1
    /\ prior = NoPrior
    /\ lock = NoCore
    /\ pc = [c \in Cores |-> "down"]
    /\ job = [c \in Cores |-> NoJob]
    /\ pending = [c \in Cores |-> NoWrite]

UpdateStep(c) ==
    \/ PlanDiff(c) \/ ApplyGet(c) \/ ApplyLock(c) \/ ApplyRefuse(c) \/ ApplyBegin(c)
    \/ MakeStaging(c) \/ SaveSpec(c) \/ SaveIndex(c) \/ CopyFails(c)
    \/ (\E p \in Paths : StageFile(c, p)) \/ StageDone(c)
    \/ RebaseSpec(c) \/ RebaseDone(c) \/ StartApplying(c)
    \/ (\E p \in Paths : BackupFile(c, p)) \/ BackupDone(c)
    \/ (\E p \in Paths : ApplyFile(c, p)) \/ ApplyDone(c) \/ VerifyUpdate(c)
    \/ RollbackApplied(c) \/ RollbackBackups(c) \/ UpdateFails(c)
    \/ CommitIndex(c) \/ CommitSelections(c) \/ CommitSpec(c) \/ CleanStaging(c)
    \/ UpdateDone(c)

InstallStep(c) ==
    \/ BaseBegin(c) \/ BaseFetch(c) \/ NativesOut(c) \/ NativesIn(c)
    \/ BaseIndex(c) \/ BaseDone(c) \/ BaseEnd(c)
    \/ InstallLock(c) \/ InstallMark(c) \/ InstallSelect(c)
    \/ (\E p \in Paths : InstallFile(c, p)) \/ InstallCopied(c)
    \/ InstallIndex(c) \/ InstallDone(c)

RepairStep(c) ==
    \/ RepairLock(c) \/ RepairIndex(c) \/ RepairPlan(c)
    \/ (\E p \in Paths : RepairFile(c, p)) \/ RepairCopied(c)
    \/ RepairRefresh(c) \/ RepairDone(c)

RecoverStep(c) ==
    \/ Start(c) \/ RecoverLock(c) \/ PickStaging(c)
    \/ (\E p \in Paths : RestoreBackup(c, p))
    \/ (\E f \in {"spec", "index"} : RestoreDoc(c, f))
    \/ DropStaging(c) \/ RestoreDone(c) \/ RecoverVerify(c) \/ RecoverFails(c)
    \/ RecoverDone(c)

\* what a core does on its own once an operation has begun
Step(c) ==
    \/ Rename(c) \/ Release(c)
    \/ UpdateStep(c) \/ InstallStep(c) \/ RepairStep(c) \/ RecoverStep(c)

\* errors and cancellations that need not happen
Fail(c) ==
    \/ StageFails(c) \/ CancelBeforeApply(c)
    \/ (\E why \in Why : BaseFails(c, why))
    \/ BaseIndexFails(c) \/ InstallFails(c) \/ RepairFails(c)

Request(c) ==
    \/ (\E sel \in Selections : PlanRead(c, sel)) \/ InstallRead(c) \/ RepairRead(c)

Next ==
    \/ \E c \in Cores : Step(c) \/ Fail(c) \/ Request(c) \/ Crash(c)
    \/ SyncDefinition
    \/ (\E p \in Paths : AddUserFile(p))
    \/ Tamper

Spec == Init /\ [][Next]_vars

\* a task that has begun runs on: nothing it awaits is unbounded
FairSpec == Spec /\ \A c \in Cores : WF_vars(Step(c) \/ Fail(c))

-----------------------------------------------------------------------------
(***************************************************************************)
(* Properties.                                                             *)
(***************************************************************************)
\* Every variable stays within its type, whatever crashes and errors happen.
TypeOK ==
    /\ files \in [Paths -> Slot \cup {UserFile}]
    /\ natives \in Bases \cup {Absent}
    /\ DOMAIN doc = DocNames /\ \A f \in DocNames : doc[f] \in DocType[f]
    /\ staging \in [TxIds -> Stage \cup {Absent}]
    /\ journal \in Ops \X JournalStates
    /\ avail \in Revisions
    /\ prior \in Prior
    /\ lock \in Cores \cup {NoCore}
    /\ pc \in [Cores -> Labels]
    /\ job \in [Cores -> Job]
    /\ DOMAIN pending = Cores
    /\ \A c \in Cores : pending[c] = NoWrite \/ pending[c] \in Write(pending[c].file)

\* the labels between taking the instance lock and giving it back
Locked == Labels \ {"down", "idle", "planDiff", "planned", "updLock", "insLock",
                    "repLock", "recLock"}

\* A core is inside a transaction exactly while it owns the instance lock, and owes a
\* rename only there: two transactions never interleave on one instance, whatever the
\* order of lock attempts, refusals, error arms and crashes.
LockOwner ==
    \A c \in Cores : /\ lock = c <=> pc[c] \in Locked
                     /\ pending[c] # NoWrite => lock = c

\* A component toggle never overwrites a choice committed after it was planned: the
\* choices an update replaces are still the ones its plan was computed from, although
\* they were read without the lock (StaleComponentSelections).
NoLostToggle ==
    \A c \in Cores : At(c, "updSelect") => CurrentSelections = job[c].plan.expected

\* no core is inside a transaction
Quiet == lock = NoCore

InStatus(s) == doc["state"] # Absent /\ doc["state"].status = s

\* An instance that says Installed passes full verification against its index:
\* whatever transaction was killed, rolled back, retried or recovered before, the
\* managed files and natives on disk are the ones managed-files.json lists.
HealthyWhenInstalled ==
    Quiet /\ InStatus("Installed") /\ IndexReadable => Healthy(doc["index"])

\* An instance that says Installed can be launched: the version in
\* install-state.json is the one instance.json asks for (build_launch_plan compares them).
InstalledVersionAgrees ==
    Quiet /\ InStatus("Installed") /\ SpecReadable =>
        doc["state"].base = BaseOf[doc["spec"]]

\* A failed or refused update that did not crash leaves every file of the instance
\* as it found it: rollback_update_files undoes every move, in whatever order the
\* conflict, the cancellation or the failed verification comes.
RollbackRestores == \A c \in Cores : pc[c] = "updFail" => files = prior.files

\* Applying an update never removes or overwrites a file that belongs to the user
\* (only indexed paths are removal candidates, and a file in the way is a conflict).
UpdateKeepsUserFiles ==
    [][(\E c \in Cores : job[c].op = "update" /\ lock = c) =>
          \A p \in Paths : files[p] = UserFile => files'[p] = UserFile]_vars

\* Whoever takes the instance lock gives it back: no error arm, rollback or
\* recovery path leaves a live core holding it for ever.
LockReleased == \A c \in Cores : lock = c ~> lock # c

\* A repair that begins with a readable index and meets no error ends with the
\* instance Installed and healthy, whatever was damaged before it took the lock.
RepairConverges ==
    \A c \in Cores :
        (lock = c /\ job[c].op = "repair" /\ IndexReadable)
            ~> (IndexReadable /\ InStatus("Installed") /\ Healthy(doc["index"]))

\* (docs/persisted-formats.md) Writes are atomic: whoever comes after a crash finds the
\* old or the new instance.json, so that the next startup can read it.
SpecSurvives == Quiet => SpecReadable
=============================================================================
