---------------------------- MODULE CacheManager ----------------------------
(***************************************************************************)
(* The shared cache (cache/mod.rs) with the installations that fill it     *)
(* (minecraft/install.rs) and the prune that empties it.  An installation  *)
(* downloads its objects (Downloads), looks each one up, replaces its      *)
(* managed-files.json, which is what makes it reference them, and adds     *)
(* them to cache-index.json.  A prune reads the index, then the managed    *)
(* index of one instance after another, and then removes what it found to  *)
(* be unreferenced, taking each resource lock only for the removal.        *)
(*                                                                         *)
(* Both indexes are replaced by atomic_json: a temporary is written, the   *)
(* old file is removed, the temporary is renamed.                          *)
(***************************************************************************)
EXTENDS Downloads

CONSTANTS
    Concurrency,  \* DownloadConfig.concurrency
    Budgets       \* bounds: how often each of the events below may happen

\* The events a behaviour has a budget of: installations one process starts,
\* prunes, uploads of a version, kills and cancellations.
Event == {"install", "prune", "upload", "kill", "cancel"}

ASSUME CacheAssumption ==
    /\ Concurrency \in 1 .. 64
    /\ Budgets \subseteq [Event -> Nat]

VARIABLES
    ipc,      \* [Process -> step of its installation]
    rounds,   \* [Process -> installations it may still start]
    budget,   \* [Event -> how often it may still happen]
    refs,     \* [Process -> objects its managed-files.json lists, or NoFile]
    index,    \* objects cache-index.json lists, or NoFile
    tmp,      \* [Writer -> the temporary of its atomic_json, or NoFile]
    idxLock,  \* holder of cache:index
    prune,    \* the running prune
    stable    \* history: references in place ever since the prune began

cacheVars == <<ipc, rounds, budget, refs, index, tmp, idxLock, prune, stable>>
vars == <<dlVars, cacheVars>>

Pruner == "pruner"
Writer == Process \cup {Pruner}
Listing == (SUBSET Object) \cup {NoFile}

InstallStep == {"idle", "download", "snapshot", "managed", "managed_gone", "register",
                "written", "removed", "installed", "failed"}
PruneStep == {"idle", "scan", "remove", "index", "written", "removed"}

NoPrune == [step |-> "idle", indexed |-> {}, toScan |-> {}, referenced |-> {},
            objects |-> {}, parts |-> {}, tmps |-> {}, removed |-> {}]

TypeOK ==
    /\ DlTypeOK
    /\ ipc \in [Process -> InstallStep]
    /\ rounds \in [Process -> Nat]
    /\ budget \in [Event -> Nat]
    /\ refs \in [Process -> Listing]
    /\ index \in Listing
    /\ tmp \in [Writer -> Listing]
    /\ idxLock \in Writer \cup {None}
    /\ prune \in [step : PruneStep, indexed : SUBSET Object, toScan : SUBSET Process,
                  referenced : SUBSET Object, objects : SUBSET Object, parts : SUBSET Object,
                  tmps : SUBSET Writer, removed : SUBSET Object]
    /\ stable \subseteq Process \X Object

CacheInit ==
    /\ ipc = [p \in Process |-> "idle"]
    /\ budget \in Budgets
    /\ rounds \in [Process -> {0, budget["install"]}]
    /\ refs = [p \in Process |-> NoFile]
    /\ index \in {NoFile, {o \in Object : dest[o] # NoFile}}
    /\ tmp = [w \in Writer |-> NoFile]
    /\ idxLock = None
    /\ prune = NoPrune
    /\ stable = {}

\* load_managed_index and load_cache_index: what a listing that is not there stands for.
Listed(listing) == IF listing = NoFile THEN {} ELSE listing

\* load_cache_index: an index that is not there is the empty one.
LoadIndex == Listed(index)

TasksOf(p) == {t \in Task : ProcessOf[t] = p}
PlanOf(p) == {ObjectOf[t] : t \in TasksOf(p)}

\* mutant: only a download that succeeds gives its permit back
NotYetGood(p) == {t \in TasksOf(p) : pc[t] \notin {"idle", "reused", "done"}}

\* the downloads of a batch that hold a permit
InFlight(p) == {t \in TasksOf(p) : pc[t] \in {"lock"} \cup Holding}

Spend(event) ==
    /\ budget[event] > 0
    /\ budget' = [budget EXCEPT ![event] = @ - 1]

-----------------------------------------------------------------------------
(* Installations.                                                          *)

InstallGoto(p, step) == ipc' = [ipc EXCEPT ![p] = step]

\* install: a new operation with a token and tasks of its own.
StartInstall(p) ==
    /\ ipc[p] \in {"idle", "installed", "failed"}
    /\ rounds[p] > 0
    /\ rounds' = [rounds EXCEPT ![p] = @ - 1]
    /\ InstallGoto(p, "download")
    /\ pc' = [t \in Task |-> IF t \in TasksOf(p) THEN "idle" ELSE pc[t]]
    /\ attempt' = [t \in Task |-> IF t \in TasksOf(p) THEN 0 ELSE attempt[t]]
    /\ faults' = [t \in Task |-> IF t \in TasksOf(p) THEN 0 ELSE faults[t]]
    /\ cancelled' = cancelled \ TasksOf(p)
    /\ spoiled' = spoiled \ TasksOf(p)
    /\ UNCHANGED <<server, dest, part, lock, existing, stream>>
    /\ UNCHANGED <<budget, refs, index, tmp, idxLock, prune, stable>>

\* download_all: at most Concurrency downloads of a batch run at once.
StartTask(p) ==
    /\ ipc[p] = "download"
    /\ Cardinality(InFlight(p)) < Concurrency
    /\ \E t \in TasksOf(p) : Begin(t)
    /\ UNCHANGED cacheVars

\* download_all collects every outcome; one error, or the token, ends the installation.
EndBatch(p) ==
    /\ ipc[p] = "download"
    /\ \A t \in TasksOf(p) : pc[t] \in Ended
    /\ InstallGoto(p, IF /\ \A t \in TasksOf(p) : pc[t] \in {"reused", "done"}
                         /\ TasksOf(p) \cap cancelled = {}
                      THEN "snapshot" ELSE "failed")
    /\ UNCHANGED dlVars /\ UNCHANGED <<rounds, budget, refs, index, tmp, idxLock, prune, stable>>

\* snapshot_managed_file looks every object up before the index is written.
Snapshot(p) ==
    /\ ipc[p] = "snapshot"
    /\ InstallGoto(p, IF \A o \in PlanOf(p) : dest[o] # NoFile THEN "managed" ELSE "failed")
    /\ UNCHANGED dlVars /\ UNCHANGED <<rounds, budget, refs, index, tmp, idxLock, prune, stable>>

\* write_managed_index, up to the removal of the old index.
RemoveManaged(p) ==
    /\ ipc[p] = "managed"
    /\ refs' = [refs EXCEPT ![p] = NoFile]
    /\ stable' = stable \ ({p} \X Object)
    /\ InstallGoto(p, "managed_gone")
    /\ UNCHANGED dlVars /\ UNCHANGED <<rounds, budget, index, tmp, idxLock, prune>>

\* write_managed_index, the rename.
RenameManaged(p) ==
    /\ ipc[p] = "managed_gone"
    /\ refs' = [refs EXCEPT ![p] = PlanOf(p)]
    /\ InstallGoto(p, "register")
    /\ UNCHANGED dlVars /\ UNCHANGED <<rounds, budget, index, tmp, idxLock, prune, stable>>

-----------------------------------------------------------------------------
(* cache-index.json, written under the lock cache:index.                   *)

\* acquire cache:index, load the latest index and write the temporary.
WriteIndexTemporary(w, entries) ==
    /\ idxLock = None
    /\ idxLock' = w
    /\ tmp' = [tmp EXCEPT ![w] = entries]
    /\ UNCHANGED index

\* atomic_json: remove the old index, if there is one.
RemoveIndex(w) ==
    /\ idxLock = w
    /\ index' = NoFile
    /\ UNCHANGED <<tmp, idxLock>>

\* atomic_json: the rename; it fails where the temporary is no longer there.
RenameIndex(w) ==
    /\ idxLock = w
    /\ index' = IF tmp[w] = NoFile THEN index ELSE tmp[w]
    /\ tmp' = [tmp EXCEPT ![w] = NoFile]
    /\ idxLock' = None

\* register adds the objects of the instance to the latest index.
EntriesWith(p) == LoadIndex \cup Listed(refs[p])

\* the wait for the lock ends with Busy
IndexBusy ==
    /\ idxLock # None
    /\ UNCHANGED <<index, tmp, idxLock>>

\* register, in three steps.
Register(p) ==
    /\ \/ /\ ipc[p] = "register"
          /\ IndexBusy
          /\ InstallGoto(p, "failed")
       \/ /\ ipc[p] = "register"
          /\ WriteIndexTemporary(p, EntriesWith(p))
          /\ InstallGoto(p, "written")
       \/ /\ ipc[p] = "written"
          /\ RemoveIndex(p)
          /\ InstallGoto(p, "removed")
       \/ /\ ipc[p] = "removed"
          /\ RenameIndex(p)
          /\ InstallGoto(p, IF tmp[p] = NoFile THEN "failed" ELSE "installed")
    /\ UNCHANGED dlVars /\ UNCHANGED <<rounds, budget, refs, prune, stable>>

-----------------------------------------------------------------------------
(* prune.                                                                  *)

\* The index is read, and the list of the instances to look at.
PruneLoad ==
    /\ prune.step = "idle"
    /\ Spend("prune")
    /\ prune' = [NoPrune EXCEPT !.step = "scan", !.indexed = LoadIndex, !.toScan = Process]
    /\ stable' = {r \in Process \X Object : r[2] \in Listed(refs[r[1]])}
    /\ UNCHANGED dlVars /\ UNCHANGED <<ipc, rounds, refs, index, tmp, idxLock>>

\* mutant: the references of one instance replace those of the one before
PruneScanForgets(p) ==
    /\ prune.step = "scan"
    /\ p \in prune.toScan
    /\ prune' = [prune EXCEPT !.toScan = @ \ {p}, !.referenced = Listed(refs[p])]
    /\ UNCHANGED dlVars /\ UNCHANGED <<ipc, rounds, budget, refs, index, tmp, idxLock, stable>>

\* referenced_cache_paths, one instance: an index that does not load is skipped.
PruneScan(p) ==
    /\ prune.step = "scan"
    /\ p \in prune.toScan
    /\ prune' = [prune EXCEPT !.toScan = @ \ {p}, !.referenced = @ \cup Listed(refs[p])]
    /\ UNCHANGED dlVars /\ UNCHANGED <<ipc, rounds, budget, refs, index, tmp, idxLock, stable>>

\* The unreferenced objects that are there, as far as the policy asks for
\* them, and every temporary file.  A dry run ends here.
PruneCandidates ==
    LET unreferenced == {o \in prune.indexed \ prune.referenced : dest[o] # NoFile} IN
    /\ prune.step = "scan"
    /\ prune.toScan = {}
    /\ \/ prune' = NoPrune /\ stable' = {}
       \/ /\ \E evicted \in SUBSET unreferenced :
                prune' = [prune EXCEPT !.step = "remove", !.objects = evicted,
                                       !.parts = {o \in Object : part[o] # NoFile},
                                       !.tmps = {w \in Writer : tmp[w] # NoFile}]
          /\ UNCHANGED stable
    /\ UNCHANGED dlVars /\ UNCHANGED <<ipc, rounds, budget, refs, index, tmp, idxLock>>

\* mutant: the part file has a lock of its own
PartNeverLocked(o) == FALSE

\* cache_lock_key: a part file is removed under the lock of its destination.
PartLocked(o) == lock[o] # None

\* One object: skipped where its lock is taken, otherwise removed if it is there.
PruneObject(o) ==
    /\ prune.step = "remove"
    /\ o \in prune.objects
    /\ \/ /\ lock[o] # None
          /\ prune' = [prune EXCEPT !.objects = @ \ {o}]
          /\ UNCHANGED dest
       \/ /\ lock[o] = None
          /\ dest' = [dest EXCEPT ![o] = NoFile]
          /\ prune' = [prune EXCEPT !.objects = @ \ {o},
                                    !.removed = IF dest[o] = NoFile THEN @ ELSE @ \cup {o}]
    /\ UNCHANGED <<server, part, lock, pc, attempt, existing, stream, cancelled, spoiled, faults>>
    /\ UNCHANGED <<ipc, rounds, budget, refs, index, tmp, idxLock, stable>>

PrunePart(o) ==
    /\ prune.step = "remove"
    /\ o \in prune.parts
    /\ prune' = [prune EXCEPT !.parts = @ \ {o}]
    /\ part' = IF PartLocked(o) THEN part ELSE [part EXCEPT ![o] = NoFile]
    /\ UNCHANGED <<server, dest, lock, pc, attempt, existing, stream, cancelled, spoiled, faults>>
    /\ UNCHANGED <<ipc, rounds, budget, refs, index, tmp, idxLock, stable>>

\* The temporary of an index has a lock name nobody takes.
PruneTemporary(w) ==
    /\ prune.step = "remove"
    /\ w \in prune.tmps
    /\ prune' = [prune EXCEPT !.tmps = @ \ {w}]
    /\ tmp' = [tmp EXCEPT ![w] = NoFile]
    /\ UNCHANGED dlVars /\ UNCHANGED <<ipc, rounds, budget, refs, index, idxLock, stable>>

\* The entries of what was removed leave the latest index.
PruneIndex ==
    /\ \/ /\ prune.step = "remove"
          /\ prune.objects = {} /\ prune.parts = {} /\ prune.tmps = {}
          /\ prune' = IF prune.removed = {} THEN NoPrune ELSE [prune EXCEPT !.step = "index"]
          /\ UNCHANGED <<index, tmp, idxLock>>
       \/ /\ prune.step = "index"
          /\ IndexBusy
          /\ prune' = NoPrune
       \/ /\ prune.step = "index"
          /\ WriteIndexTemporary(Pruner, LoadIndex \ prune.removed)
          /\ prune' = [prune EXCEPT !.step = "written"]
       \/ /\ prune.step = "written"
          /\ RemoveIndex(Pruner)
          /\ prune' = [prune EXCEPT !.step = "removed"]
       \/ /\ prune.step = "removed"
          /\ RenameIndex(Pruner)
          /\ prune' = NoPrune
    /\ stable' = IF prune'.step = "idle" THEN {} ELSE stable
    /\ UNCHANGED dlVars /\ UNCHANGED <<ipc, rounds, budget, refs>>

-----------------------------------------------------------------------------
\* A download of an installation takes a step.
TaskProgress(p) ==
    /\ \E t \in TasksOf(p) : TaskStep(t)
    /\ UNCHANGED cacheVars

CancelInstall(p) ==
    /\ ipc[p] = "download"
    /\ Spend("cancel")
    /\ Cancel(p)
    /\ UNCHANGED <<ipc, rounds, refs, index, tmp, idxLock, prune, stable>>

UploadVersion ==
    /\ Spend("upload")
    /\ \E o \in Object : Upload(o)
    /\ UNCHANGED <<ipc, rounds, refs, index, tmp, idxLock, prune, stable>>

\* The process of an installation is killed; its files stay.
Crash(p) ==
    /\ ipc[p] \notin {"idle", "installed", "failed"}
    /\ Spend("kill")
    /\ DlCrash(p)
    /\ InstallGoto(p, "idle")
    /\ idxLock' = IF idxLock = p THEN None ELSE idxLock
    /\ UNCHANGED <<rounds, refs, index, tmp, prune, stable>>

\* The process of the prune is killed.
PruneCrash ==
    /\ prune.step # "idle"
    /\ Spend("kill")
    /\ prune' = NoPrune
    /\ stable' = {}
    /\ idxLock' = IF idxLock = Pruner THEN None ELSE idxLock
    /\ UNCHANGED dlVars /\ UNCHANGED <<ipc, rounds, refs, index, tmp>>

PruneNext ==
    \/ PruneLoad \/ PruneCandidates \/ PruneIndex \/ PruneCrash
    \/ \E p \in Process : PruneScan(p)
    \/ \E o \in Object : PruneObject(o) \/ PrunePart(o)
    \/ \E w \in Writer : PruneTemporary(w)

InstallNext(p) ==
    \/ StartInstall(p) \/ StartTask(p) \/ TaskProgress(p) \/ EndBatch(p)
    \/ Snapshot(p) \/ RemoveManaged(p) \/ RenameManaged(p) \/ Register(p)

Init == DlInit /\ CacheInit

Next ==
    \/ \E p \in Process : InstallNext(p) \/ CancelInstall(p) \/ Crash(p)
    \/ PruneNext
    \/ UploadVersion

Spec == Init /\ [][Next]_vars

-----------------------------------------------------------------------------
(* Properties.                                                             *)

\* docs/cache.md: "No final object is exposed before validation."  Whatever
\* the server, leftovers, kills, prunes and other processes do, a destination
\* only ever changes to a file that verifies, or disappears.
OnlyValidatedPublished ==
    [][\A o \in Object : dest'[o] # dest[o] =>
            dest'[o] = NoFile \/ Verified(o, dest'[o])]_vars

\* The part file a download streams into, verifies or is about to rename is
\* there: neither another download nor a prune that listed it before takes it away.
PartInUseKept ==
    \A t \in Task : pc[t] \in {"stream", "publish"} => part[ObjectOf[t]] # NoFile

\* The types, and that a part file in use stays, whatever prunes, kills and other
\* downloads do (download_file, prune).
CacheInv == TypeOK /\ PartInUseKept

\* A download that nobody cancelled gives up only when the server or the
\* network spoiled at least half of its retries: a part file left over from
\* another version costs one attempt, and is not resumed again.
RetryHeals ==
    \A t \in Task : pc[t] = "failed" /\ t \notin cancelled => 2 * faults[t] >= Retries

\* A prune never removes an object that an instance's managed index listed
\* all the time since the prune began.
StableReferenceKept ==
    [][\A r \in stable : PruneObject(r[2]) => dest'[r[2]] = dest[r[2]]]_vars

\* The batch of every installation ends, or is killed with its process: each download
\* gets a permit although others fail, are cancelled or wait for another process, waits
\* for its lock no longer than the timeout, and is tried a bounded number of times.  As
\* rounds bounds the installations, there are always moments without any batch.
DownloadEnds == []<>(\A p \in Process : ipc[p] # "download")

\* the stream of a batch is polled; the client's timeout ends its transfers
BatchStep(p) == StartTask(p) \/ TaskProgress(p) \/ EndBatch(p)
DownloadFairness == \A p \in Process : WF_vars(BatchStep(p))

FairSpec == Spec /\ DownloadFairness
==============================================================================
