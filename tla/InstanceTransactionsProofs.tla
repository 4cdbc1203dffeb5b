---------------------- MODULE InstanceTransactionsProofs ----------------------
(***************************************************************************)
(* For every number of cores, paths, contents, revisions and staging       *)
(* directories and every combination of faults: the types hold, a core is  *)
(* inside a transaction exactly while it owns the instance lock, and no    *)
(* toggle is lost.  Where no step is killed or fails, instance.json is     *)
(* readable between two transactions and an installed instance is healthy. *)
(* For one core, whatever is killed or fails: the version and the health   *)
(* of an installed instance, what a failed update leaves, and the user's   *)
(* files.                                                                  *)
(*                                                                         *)
(* The types alone are not inductive.  A step that writes into a staging   *)
(* directory or reads the index under the lock relies on it being there,   *)
(* which holds because no other core touches the instance meanwhile: so    *)
(* the invariant says what each label of the locked region relies on       *)
(* (Relies), and every step is shown to keep it for its own core (StepOK)  *)
(* and to leave alone what the others rely on.  Each later theorem adds    *)
(* one more invariant of the same shape: what holds at which label.        *)
(***************************************************************************)
EXTENDS InstanceTransactions, TLAPS

\* the labels of an update that has made its staging directory
StagedLabels ==
    {"saveSpec", "saveIndex", "updStage", "updSpec", "updRemark", "updApplying",
     "updBackup", "updApply", "updVerify", "updIndex", "updSelect", "updCommit", "updClean",
     "rollApplied", "rollBackups"}

\* and those before it
UpdateLabels ==
    StagedLabels \cup {"planDiff", "planned", "updLock", "updCheck", "updMkdir"}

\* the labels of install_mode_unlocked, which an update runs too
BaseLabels ==
    {"base", "baseFetch", "nativesOut", "nativesIn", "baseIndex", "baseDone", "baseEnd"}

\* core c writes into its staging directory from here on
UsesStaging(c) == job[c].op = "update" /\ pc[c] \in StagedLabels \cup BaseLabels

\* core c reads the index without checking it again
UsesIndex(c) ==
    \/ pc[c] \in {"updIndex", "repCopy", "repRefresh"}
    \/ pc[c] \in {"nativesOut", "nativesIn"} /\ job[c].op = "repair"

\* what the next steps of core c rely on
Relies(c) ==
    /\ pc[c] \in UpdateLabels => job[c].op = "update"
    /\ pc[c] = "insLock" => job[c].op = "install"
    /\ pc[c] \in {"base", "baseFetch"} => job[c].op \in {"install", "update"}
    /\ pc[c] \in {"repLock", "repIndex", "repPlan", "repCopy"} => job[c].op = "repair"
    /\ pc[c] \in {"down", "recLock"} => job[c].tx = Absent
    /\ pc[c] = "updMkdir" => job[c].tx # Absent
    /\ UsesStaging(c) => job[c].tx # Absent /\ staging[job[c].tx] # Absent
    /\ pc[c] = "recRestore" /\ job[c].tx # Absent => staging[job[c].tx] # Absent
    /\ pending[c].tx # Absent => /\ pending[c].file \in {"spec", "index"}
                                 /\ pc[c] = "recRestore" /\ pending[c].tx = job[c].tx
    /\ UsesIndex(c) => IndexReadable /\ pending[c] = NoWrite

\* the inductive invariant
TxInv == TypeOK /\ LockOwner /\ \A c \in Cores : Relies(c)

(***************************************************************************)
(* What a step of core c does, piece by piece.                             *)
(***************************************************************************)
\* the documents and the renames owed
DocsOK ==
    /\ DOMAIN doc = DocNames /\ \A f \in DocNames : doc[f] \in DocType[f]
    /\ DOMAIN pending = Cores
    /\ \A c \in Cores : pending[c] = NoWrite \/ pending[c] \in Write(pending[c].file)

\* c goes to one of the labels, nobody else moves
Moves(c, labels) ==
    /\ pc' \in [Cores -> Labels]
    /\ pc'[c] \in labels
    /\ \A d \in Cores \ {c} : pc'[d] = pc[d]

\* the locals stay typed; those of others, and the transaction of c, stay the same
JobOK(c) ==
    /\ job' \in [Cores -> Job]
    /\ \A d \in Cores \ {c} : job'[d] = job[d]

JobKept(c) == JobOK(c) /\ job'[c].op = job[c].op /\ job'[c].tx = job[c].tx

\* documents are written by c, none of them restored from staging
DocsKept(c) ==
    /\ DocsOK'
    /\ pending'[c].tx = Absent
    /\ \A d \in Cores \ {c} : pending'[d] = pending[d]

StagingOK == staging' \in [TxIds -> Stage \cup {Absent}]

\* no staging directory disappears
StagingKept == StagingOK /\ \A tx \in TxIds : staging[tx] # Absent => staging'[tx] # Absent

RestOK ==
    /\ files' \in [Paths -> Slot \cup {UserFile}]
    /\ natives' \in Bases \cup {Absent}
    /\ journal' \in Ops \X JournalStates
    /\ avail' \in Revisions
    /\ prior' \in Prior

\* a step of core c keeps the invariant: for c itself, and for the others, since it
\* leaves alone what they can see while they are inside
StepOK(c) ==
    /\ TypeOK'
    /\ lock' = c <=> pc'[c] \in Locked
    /\ pending'[c] # NoWrite => lock' = c
    /\ Relies(c)'
    /\ \A d \in Cores \ {c} : /\ pc'[d] = pc[d] /\ job'[d] = job[d]
                              /\ pending'[d] = pending[d]
                              /\ lock' = d <=> lock = d
    /\ lock = c \/ UNCHANGED <<doc, staging>>

(***************************************************************************)
(* Lemmas about the building blocks.                                       *)
(***************************************************************************)
\* Going to a label moves one core.
LEMMA GotoMoves ==
    ASSUME TypeOK, NEW c \in Cores, NEW l \in Labels, Goto(c, l)
    PROVE  Moves(c, {l})
BY DEF TypeOK, Goto, Moves

LEMMA GotoInside ==
    ASSUME TypeOK, NEW c \in Cores, NEW l \in Locked, Goto(c, l)
    PROVE  Moves(c, Locked) /\ pc'[c] = l
BY DEF TypeOK, Goto, Moves, Locked

LEMMA StayInside ==
    ASSUME TypeOK, NEW c \in Cores, pc[c] \in Locked, pc' = pc
    PROVE  Moves(c, Locked) /\ pc'[c] = pc[c]
BY DEF TypeOK, Moves

\* Locals that do not change, or change in a field that is not the transaction.
LEMMA JobSame == ASSUME TypeOK, NEW c \in Cores, job' = job PROVE JobKept(c)
BY DEF TypeOK, JobKept, JobOK

LEMMA JobReset ==
    ASSUME TypeOK, NEW c \in Cores, NEW j \in Job, job' = [job EXCEPT ![c] = j]
    PROVE  JobOK(c) /\ job'[c] = j
BY DEF TypeOK, JobOK

LEMMA JobInst ==
    ASSUME TypeOK, NEW c \in Cores, NEW v \in Revisions, SetJob(c, "inst", v)
    PROVE  JobKept(c)
<1> DEFINE j == [job[c] EXCEPT !["inst"] = v]
<1>1. job[c] \in Job
  BY DEF TypeOK
<1>2. j \in Job /\ j.op = job[c].op /\ j.tx = job[c].tx
  BY <1>1 DEF Job
<1> QED BY <1>2, JobReset DEF SetJob, JobKept

LEMMA JobTodo ==
    ASSUME TypeOK, NEW c \in Cores, NEW v \in SUBSET Paths, SetJob(c, "todo", v)
    PROVE  JobKept(c)
<1> DEFINE j == [job[c] EXCEPT !["todo"] = v]
<1>1. job[c] \in Job
  BY DEF TypeOK
<1>2. j \in Job /\ j.op = job[c].op /\ j.tx = job[c].tx
  BY <1>1 DEF Job
<1> QED BY <1>2, JobReset DEF SetJob, JobKept

LEMMA JobApplied ==
    ASSUME TypeOK, NEW c \in Cores, NEW v \in SUBSET Paths, SetJob(c, "applied", v)
    PROVE  JobKept(c)
BY ZenonT(40) DEF TypeOK, JobKept, JobOK, SetJob, Job

LEMMA JobPlan ==
    ASSUME TypeOK, NEW c \in Cores, NEW v \in Plan, SetJob(c, "plan", v)
    PROVE  JobKept(c)
<1> DEFINE j == [job[c] EXCEPT !["plan"] = v]
<1>1. job[c] \in Job
  BY DEF TypeOK
<1>2. j \in Job /\ j.op = job[c].op /\ j.tx = job[c].tx
  BY <1>1 DEF Job
<1> QED BY <1>2, JobReset DEF SetJob, JobKept

LEMMA JobTx ==
    ASSUME TypeOK, NEW c \in Cores, NEW v \in TxIds \cup {Absent}, SetJob(c, "tx", v)
    PROVE  JobOK(c) /\ job'[c].op = job[c].op /\ job'[c].tx = v
<1> DEFINE j == [job[c] EXCEPT !["tx"] = v]
<1>1. job[c] \in Job
  BY DEF TypeOK
<1>2. j \in Job /\ j.op = job[c].op /\ j.tx = v
  BY <1>1 DEF Job
<1> QED BY <1>2, JobReset DEF SetJob

\* Documents that do not change, are replaced, or are the install state.
LEMMA DocsSame ==
    ASSUME TypeOK, NEW c \in Cores, pending[c] = NoWrite, UNCHANGED <<doc, pending>>
    PROVE  DocsKept(c)
BY DEF TypeOK, DocsKept, DocsOK, NoWrite

LEMMA ReplaceKept ==
    ASSUME TypeOK, NEW c \in Cores, NEW f \in DocNames, NEW v \in DocType[f], Replace(c, f, v)
    PROVE  DocsKept(c)
BY DEF TypeOK, DocsKept, DocsOK, Replace, DocType, DocNames, Write

LEMMA MarkKept ==
    ASSUME TypeOK, NEW c \in Cores, NEW s \in Status, NEW r \in Revisions, Mark(c, s, r)
    PROVE  DocsKept(c)
<1>1. [status |-> s, base |-> BaseOf[r]] \in DocType["state"]
  BY InputAssumption DEF InputAssumption, DocType
<1> QED BY <1>1, ReplaceKept DEF Mark, DocNames

\* Staging directories that do not change, or one that is there is written into.
LEMMA StagingSame == TypeOK /\ staging' = staging => StagingKept
BY DEF TypeOK, StagingKept, StagingOK

LEMMA StagePrevKept ==
    ASSUME TypeOK, NEW tx \in TxIds, staging[tx] # Absent,
           NEW f \in {"spec", "index"}, NEW v \in DocType[f],
           staging' = [staging EXCEPT ![tx].prev[f] = v]
    PROVE  StagingKept
<1>1. staging'[tx] \in Stage
  BY DEF TypeOK, Stage, DocType
<1> QED BY <1>1, DocumentAssumption DEF TypeOK, StagingKept, StagingOK, DocumentAssumption

LEMMA StageStagedKept ==
    ASSUME TypeOK, NEW tx \in TxIds, staging[tx] # Absent, NEW p \in Paths, NEW v \in Slot,
           staging' = [staging EXCEPT ![tx].staged[p] = v]
    PROVE  StagingKept
<1>1. staging'[tx] \in Stage
  BY DEF TypeOK, Stage, Table
<1> QED BY <1>1, DocumentAssumption DEF TypeOK, StagingKept, StagingOK, DocumentAssumption

LEMMA StageBackupKept ==
    ASSUME TypeOK, NEW tx \in TxIds, staging[tx] # Absent,
           NEW p \in Paths, NEW v \in Slot \cup {UserFile},
           staging' = [staging EXCEPT ![tx].backups[p] = v]
    PROVE  StagingKept
<1>1. staging'[tx] \in Stage
  BY DEF TypeOK, Stage
<1> QED BY <1>1, DocumentAssumption DEF TypeOK, StagingKept, StagingOK, DocumentAssumption

\* Inside an update the staging directory is there.
LEMMA StagingThere ==
    ASSUME TxInv, NEW c \in Cores, pc[c] \in StagedLabels
    PROVE  job[c].tx \in TxIds /\ staging[job[c].tx] # Absent /\ staging[job[c].tx] \in Stage
BY DEF TxInv, TypeOK, Job, Relies, UsesStaging, UpdateLabels

\* The component choices an operation works with are choices.
LEMMA SelectionsTyped == TypeOK => CurrentSelections \in Selections
BY InputAssumption DEF TypeOK, CurrentSelections, InputAssumption, DocNames, DocType

\* A document that parses is a revision, or an index.
LEMMA SpecTyped == TypeOK /\ SpecReadable => doc["spec"] \in Revisions
BY DEF TypeOK, SpecReadable, DocNames, DocType

LEMMA IndexTyped == TypeOK /\ IndexReadable => doc["index"] \in Index
BY DEF TypeOK, IndexReadable, DocNames, DocType

\* A definition asks for one content, or none, at every path.
LEMMA DesiredTyped ==
    ASSUME NEW r \in Revisions, NEW s \in Selections PROVE Desired[r, s] \in Table
BY InputAssumption DEF InputAssumption

\* The values operations start from are typed.
LEMMA EmptyTyped ==
    /\ NoFiles \in Table /\ NoFiles \in [Paths -> Slot \cup {UserFile}]
    /\ EmptyStage \in Stage
    /\ NoPlan \in Plan /\ NoJob \in Job /\ NoPrior \in Prior
BY InputAssumption
   DEF InputAssumption, NoFiles, Table, Slot, EmptyStage, Stage, NoPlan, Plan, NoJob, Job,
       NoPrior, Prior, Ops, Revisions

\* The locals of a core are typed.
LEMMA JobTyped ==
    ASSUME TypeOK, NEW c \in Cores
    PROVE  /\ job[c].inst \in Revisions /\ job[c].plan \in Plan /\ job[c].op \in Ops
           /\ job[c].plan.to \in Revisions /\ job[c].plan.from \in Revisions
           /\ job[c].plan.sel \in Selections /\ BaseRevision(c) \in Revisions
           /\ job[c].plan.downloads \in SUBSET Paths
           /\ job[c].plan.replacements \in SUBSET Paths
           /\ job[c].plan.removals \in SUBSET Paths
           /\ job[c].todo \in SUBSET Paths /\ job[c].applied \in SUBSET Paths
           /\ job[c].tx \in TxIds \cup {Absent}
BY DEF TypeOK, Job, Plan, BaseRevision

\* A core at a label of the locked region owns the lock.
LEMMA InsideOwns == ASSUME TxInv, NEW c \in Cores, pc[c] \in Locked PROVE lock = c
BY DEF TxInv, LockOwner

\* A step inside the locked region that keeps the pieces typed and what c relies on.
LEMMA InsideStep ==
    ASSUME TxInv, NEW c \in Cores, pc[c] \in Locked, lock' = lock,
           Moves(c, Locked), JobOK(c), DocsOK',
           \A d \in Cores \ {c} : pending'[d] = pending[d],
           StagingOK, RestOK, Relies(c)'
    PROVE  StepOK(c)
<1>1. lock = c
  BY InsideOwns
<1>2. TypeOK'
  BY <1>1 DEF TxInv, TypeOK, Moves, JobOK, DocsOK, StagingOK, RestOK
<1> QED BY <1>1, <1>2 DEF StepOK, Moves, JobOK

\* The same, when the step starts from label k, keeps the transaction of c and writes
\* no document that c will read without looking.
LEMMA KeepsRelies ==
    ASSUME TxInv, NEW c \in Cores, JobKept(c), DocsKept(c), StagingKept,
           pc'[c] \in UpdateLabels => pc[c] \in UpdateLabels \/ job[c].op = "update",
           pc'[c] \in StagedLabels => pc[c] \in StagedLabels \cup BaseLabels,
           pc'[c] \in BaseLabels => \/ pc[c] \in StagedLabels \cup BaseLabels
                                    \/ job[c].op = "repair",
           pc'[c] \in {"base", "baseFetch"} => pc[c] \in StagedLabels \cup {"base", "baseFetch"},
           pc'[c] \in {"repPlan", "repCopy"} => pc[c] \in {"repIndex", "repPlan", "repCopy"},
           pc'[c] \notin {"down", "recLock", "insLock", "repLock", "repIndex", "updMkdir",
                          "recRestore"},
           UsesIndex(c)' => IndexReadable' /\ pending'[c] = NoWrite
    PROVE  Relies(c)'
BY DEF TxInv, Relies, JobKept, DocsKept, StagingKept, UsesStaging, UpdateLabels, StagedLabels,
       BaseLabels, TypeOK, Job, StagingOK

\* The two together.
LEMMA KeptStep ==
    ASSUME TxInv, NEW c \in Cores, pc[c] \in Locked, lock' = lock, Moves(c, Locked),
           JobKept(c), DocsKept(c), StagingKept, RestOK, Relies(c)'
    PROVE  StepOK(c)
BY InsideStep DEF JobKept, DocsKept, StagingKept

\* Every step of apply_update inside the lock keeps the invariant.
LEMMA UpdateKeeps ==
    ASSUME TxInv, NEW c \in Cores,
           \/ ApplyRefuse(c)
           \/ MakeStaging(c)
           \/ SaveSpec(c)
           \/ SaveIndex(c)
           \/ CopyFails(c)
           \/ (\E p \in Paths : StageFile(c, p))
           \/ StageFails(c)
           \/ StageDone(c)
           \/ RebaseSpec(c)
           \/ RebaseDone(c)
           \/ StartApplying(c)
           \/ CancelBeforeApply(c)
           \/ (\E p \in Paths : BackupFile(c, p))
           \/ BackupDone(c)
           \/ (\E p \in Paths : ApplyFile(c, p))
           \/ ApplyDone(c)
           \/ VerifyUpdate(c)
           \/ RollbackApplied(c)
           \/ RollbackBackups(c)
           \/ UpdateFails(c)
           \/ CommitIndex(c)
           \/ CommitSelections(c)
           \/ CommitSpec(c)
           \/ UpdateDone(c)
    PROVE  StepOK(c)
<1> USE DEF At, disk
<1> TypeOK
  BY DEF TxInv
<1>1. ASSUME ApplyRefuse(c) PROVE StepOK(c)
  <2>1. /\ pc[c] = "updCheck" /\ pc[c] \in Locked
        /\ pc'[c] = "release" /\ Moves(c, Locked)
    BY <1>1, GotoInside DEF ApplyRefuse, Locked, Labels
  <2>2. JobKept(c)
    BY <1>1, JobSame DEF ApplyRefuse
  <2>3. DocsKept(c)
    BY <1>1, DocsSame DEF ApplyRefuse
  <2>4. StagingKept
    BY <1>1, StagingSame DEF ApplyRefuse
  <2>5. RestOK /\ lock' = lock
    BY <1>1 DEF ApplyRefuse, RestOK, TypeOK, Journal, Ops, JournalStates
  <2>6. Relies(c)'
    BY <2>1, <2>2, <2>3, <2>4, KeepsRelies
       DEF StagedLabels, BaseLabels, UpdateLabels, UsesIndex
  <2> QED BY <2>1, <2>2, <2>3, <2>4, <2>5, <2>6, KeptStep
<1>2. ASSUME MakeStaging(c) PROVE StepOK(c)
  <2>a. job[c].tx \in TxIds
    BY <1>2, JobTyped DEF MakeStaging, TxInv, Relies
  <2>1. /\ pc[c] = "updMkdir" /\ pc[c] \in Locked
        /\ pc'[c] = "saveSpec" /\ Moves(c, Locked)
    BY <1>2, GotoInside DEF MakeStaging, Locked, Labels
  <2>2. JobKept(c)
    BY <1>2, JobSame DEF MakeStaging
  <2>3. DocsKept(c)
    BY <1>2, DocsSame DEF MakeStaging
  <2>4. StagingKept
    BY <1>2, EmptyTyped, DocumentAssumption
       DEF MakeStaging, TypeOK, StagingKept, StagingOK, DocumentAssumption
  <2>5. RestOK /\ lock' = lock
    BY <1>2 DEF MakeStaging, RestOK, TypeOK, Journal, Ops, JournalStates
  <2>6. Relies(c)'
    <3>1. staging'[job[c].tx] = EmptyStage
      BY <1>2, <2>a DEF MakeStaging, TypeOK
    <3>2. EmptyStage # Absent /\ job[c].tx # Absent
      BY <2>a, EmptyTyped, DocumentAssumption, MarkerAssumption
         DEF DocumentAssumption, MarkerAssumption
    <3>3. job[c].op = "update"
      BY <2>1 DEF TxInv, Relies, UpdateLabels
    <3> QED BY <2>1, <2>2, <2>3, <3>1, <3>2, <3>3
            DEF Relies, UsesStaging, UsesIndex, UpdateLabels, StagedLabels, BaseLabels, JobKept,
                DocsKept
  <2> QED BY <2>1, <2>2, <2>3, <2>4, <2>5, <2>6, KeptStep
<1>3. ASSUME SaveSpec(c) PROVE StepOK(c)
  <2>a. job[c].tx \in TxIds /\ staging[job[c].tx] # Absent /\ staging[job[c].tx] \in Stage
    BY <1>3, StagingThere DEF SaveSpec, CopyPrevious, StagedLabels
  <2>1. /\ pc[c] = "saveSpec" /\ pc[c] \in Locked
        /\ pc'[c] \in {"saveSpec", "saveIndex"} /\ Moves(c, Locked)
    BY <1>3, GotoInside, StayInside DEF SaveSpec, CopyPrevious, Locked, Labels
  <2>2. JobKept(c)
    BY <1>3, JobSame, JobTodo, JobTyped DEF SaveSpec, CopyPrevious
  <2>3. DocsKept(c)
    BY <1>3, DocsSame DEF SaveSpec, CopyPrevious
  <2>4. StagingKept
    <3>1. doc["spec"] \in DocType["spec"] /\ Torn \in DocType["spec"]
      BY DEF TypeOK, DocNames, DocType
    <3> QED BY <1>3, <2>a, <3>1, StagePrevKept DEF SaveSpec, CopyPrevious
  <2>5. RestOK /\ lock' = lock
    BY <1>3 DEF SaveSpec, CopyPrevious, RestOK, TypeOK, Journal, Ops, JournalStates
  <2>6. Relies(c)'
    BY <2>1, <2>2, <2>3, <2>4, KeepsRelies
       DEF StagedLabels, BaseLabels, UpdateLabels, UsesIndex
  <2> QED BY <2>1, <2>2, <2>3, <2>4, <2>5, <2>6, KeptStep
<1>4. ASSUME SaveIndex(c) PROVE StepOK(c)
  <2>a. job[c].tx \in TxIds /\ staging[job[c].tx] # Absent /\ staging[job[c].tx] \in Stage
    BY <1>4, StagingThere DEF SaveIndex, CopyPrevious, StagedLabels
  <2>1. /\ pc[c] = "saveIndex" /\ pc[c] \in Locked
        /\ pc'[c] \in {"saveIndex", "updStage"} /\ Moves(c, Locked)
    BY <1>4, GotoInside, StayInside DEF SaveIndex, CopyPrevious, Locked, Labels
  <2>2. JobKept(c)
    BY <1>4, JobSame, JobTodo, JobTyped DEF SaveIndex, CopyPrevious
  <2>3. DocsKept(c)
    BY <1>4, DocsSame DEF SaveIndex, CopyPrevious
  <2>4. StagingKept
    <3>1. doc["index"] \in DocType["index"] /\ Torn \in DocType["index"]
      BY DEF TypeOK, DocNames, DocType
    <3> QED BY <1>4, <2>a, <3>1, StagePrevKept DEF SaveIndex, CopyPrevious
  <2>5. RestOK /\ lock' = lock
    BY <1>4 DEF SaveIndex, CopyPrevious, RestOK, TypeOK, Journal, Ops, JournalStates
  <2>6. Relies(c)'
    BY <2>1, <2>2, <2>3, <2>4, KeepsRelies
       DEF StagedLabels, BaseLabels, UpdateLabels, UsesIndex
  <2> QED BY <2>1, <2>2, <2>3, <2>4, <2>5, <2>6, KeptStep
<1>5. ASSUME CopyFails(c) PROVE StepOK(c)
  <2>1. /\ pc[c] \in {"saveSpec", "saveIndex"} /\ pc[c] \in Locked
        /\ pc'[c] = "updFail" /\ Moves(c, Locked)
    BY <1>5, GotoInside DEF CopyFails, Locked, Labels
  <2>2. JobKept(c)
    BY <1>5, JobSame DEF CopyFails
  <2>3. DocsKept(c)
    BY <1>5, DocsSame DEF CopyFails
  <2>4. StagingKept
    BY <1>5, StagingSame DEF CopyFails
  <2>5. RestOK /\ lock' = lock
    BY <1>5 DEF CopyFails, RestOK, TypeOK, Journal, Ops, JournalStates
  <2>6. Relies(c)'
    BY <2>1, <2>2, <2>3, <2>4, KeepsRelies
       DEF StagedLabels, BaseLabels, UpdateLabels, UsesIndex
  <2> QED BY <2>1, <2>2, <2>3, <2>4, <2>5, <2>6, KeptStep
<1>6. ASSUME NEW p \in Paths, StageFile(c, p) PROVE StepOK(c)
  <2>a. job[c].tx \in TxIds /\ staging[job[c].tx] # Absent /\ staging[job[c].tx] \in Stage
    BY <1>6, StagingThere DEF StageFile, StagedLabels
  <2>1. /\ pc[c] = "updStage" /\ pc[c] \in Locked
        /\ pc'[c] = "updStage" /\ Moves(c, Locked)
    BY <1>6, GotoInside, StayInside DEF StageFile, Locked, Labels
  <2>2. JobKept(c)
    BY <1>6, JobTodo, JobTyped, ZenonT(40) DEF StageFile
  <2>3. DocsKept(c)
    BY <1>6, DocsSame DEF StageFile
  <2>4. StagingKept
    <3>1. Desired[job[c].plan.to, job[c].plan.sel][p] \in Slot
      BY DesiredTyped, JobTyped DEF Table
    <3> QED BY <1>6, <2>a, <3>1, StageStagedKept DEF StageFile
  <2>5. RestOK /\ lock' = lock
    BY <1>6 DEF StageFile, RestOK, TypeOK, Journal, Ops, JournalStates
  <2>6. Relies(c)'
    BY <2>1, <2>2, <2>3, <2>4, KeepsRelies
       DEF StagedLabels, BaseLabels, UpdateLabels, UsesIndex
  <2> QED BY <2>1, <2>2, <2>3, <2>4, <2>5, <2>6, KeptStep
<1>7. ASSUME StageFails(c) PROVE StepOK(c)
  <2>1. /\ pc[c] = "updStage" /\ pc[c] \in Locked
        /\ pc'[c] = "updFail" /\ Moves(c, Locked)
    BY <1>7, GotoInside DEF StageFails, Locked, Labels
  <2>2. JobKept(c)
    BY <1>7, JobSame DEF StageFails
  <2>3. DocsKept(c)
    BY <1>7, DocsSame DEF StageFails
  <2>4. StagingKept
    BY <1>7, StagingSame DEF StageFails
  <2>5. RestOK /\ lock' = lock
    BY <1>7 DEF StageFails, RestOK, TypeOK, Journal, Ops, JournalStates
  <2>6. Relies(c)'
    BY <2>1, <2>2, <2>3, <2>4, KeepsRelies
       DEF StagedLabels, BaseLabels, UpdateLabels, UsesIndex
  <2> QED BY <2>1, <2>2, <2>3, <2>4, <2>5, <2>6, KeptStep
<1>8. ASSUME StageDone(c) PROVE StepOK(c)
  <2>1. /\ pc[c] = "updStage" /\ pc[c] \in Locked
        /\ pc'[c] \in {"updSpec", "updApplying"} /\ Moves(c, Locked)
    BY <1>8, GotoInside DEF StageDone, Locked, Labels
  <2>2. JobKept(c)
    BY <1>8, JobSame DEF StageDone
  <2>3. DocsKept(c)
    BY <1>8, DocsSame DEF StageDone
  <2>4. StagingKept
    BY <1>8, StagingSame DEF StageDone
  <2>5. RestOK /\ lock' = lock
    BY <1>8 DEF StageDone, RestOK, TypeOK, Journal, Ops, JournalStates
  <2>6. Relies(c)'
    BY <2>1, <2>2, <2>3, <2>4, KeepsRelies
       DEF StagedLabels, BaseLabels, UpdateLabels, UsesIndex
  <2> QED BY <2>1, <2>2, <2>3, <2>4, <2>5, <2>6, KeptStep
<1>9. ASSUME RebaseSpec(c) PROVE StepOK(c)
  <2>1. /\ pc[c] = "updSpec" /\ pc[c] \in Locked
        /\ pc'[c] \in {"base", "updFail"} /\ Moves(c, Locked)
    BY <1>9, GotoInside DEF RebaseSpec, Locked, Labels
  <2>2. JobKept(c)
    BY <1>9, JobSame DEF RebaseSpec
  <2>3. DocsKept(c)
    <3>1. job[c].plan.to \in DocType["spec"]
      BY JobTyped DEF DocType
    <3> QED BY <1>9, <3>1, DocsSame, ReplaceKept DEF RebaseSpec, DocNames
  <2>4. StagingKept
    BY <1>9, StagingSame DEF RebaseSpec
  <2>5. RestOK /\ lock' = lock
    BY <1>9 DEF RebaseSpec, RestOK, TypeOK, Journal, Ops, JournalStates
  <2>6. Relies(c)'
    BY <2>1, <2>2, <2>3, <2>4, KeepsRelies
       DEF StagedLabels, BaseLabels, UpdateLabels, UsesIndex
  <2> QED BY <2>1, <2>2, <2>3, <2>4, <2>5, <2>6, KeptStep
<1>10. ASSUME RebaseDone(c) PROVE StepOK(c)
  <2>1. /\ pc[c] = "updRemark" /\ pc[c] \in Locked
        /\ pc'[c] = "updApplying" /\ Moves(c, Locked)
    BY <1>10, GotoInside DEF RebaseDone, Locked, Labels
  <2>2. JobKept(c)
    BY <1>10, JobSame DEF RebaseDone
  <2>3. DocsKept(c)
    BY <1>10, MarkKept, JobTyped DEF RebaseDone, Status
  <2>4. StagingKept
    BY <1>10, StagingSame DEF RebaseDone
  <2>5. RestOK /\ lock' = lock
    BY <1>10 DEF RebaseDone, RestOK, TypeOK, Journal, Ops, JournalStates
  <2>6. Relies(c)'
    BY <2>1, <2>2, <2>3, <2>4, KeepsRelies
       DEF StagedLabels, BaseLabels, UpdateLabels, UsesIndex
  <2> QED BY <2>1, <2>2, <2>3, <2>4, <2>5, <2>6, KeptStep
<1>11. ASSUME StartApplying(c) PROVE StepOK(c)
  <2>1. /\ pc[c] = "updApplying" /\ pc[c] \in Locked
        /\ pc'[c] = "updBackup" /\ Moves(c, Locked)
    BY <1>11, GotoInside DEF StartApplying, Locked, Labels
  <2>2. JobKept(c)
    BY <1>11, JobTodo, JobTyped DEF StartApplying
  <2>3. DocsKept(c)
    BY <1>11, DocsSame DEF StartApplying
  <2>4. StagingKept
    BY <1>11, StagingSame DEF StartApplying
  <2>5. RestOK /\ lock' = lock
    BY <1>11 DEF StartApplying, RestOK, TypeOK, Journal, Ops, JournalStates
  <2>6. Relies(c)'
    BY <2>1, <2>2, <2>3, <2>4, KeepsRelies
       DEF StagedLabels, BaseLabels, UpdateLabels, UsesIndex
  <2> QED BY <2>1, <2>2, <2>3, <2>4, <2>5, <2>6, KeptStep
<1>12. ASSUME CancelBeforeApply(c) PROVE StepOK(c)
  <2>1. /\ pc[c] = "updBackup" /\ pc[c] \in Locked
        /\ pc'[c] = "updFail" /\ Moves(c, Locked)
    BY <1>12, GotoInside DEF CancelBeforeApply, Locked, Labels
  <2>2. JobKept(c)
    BY <1>12, JobSame DEF CancelBeforeApply
  <2>3. DocsKept(c)
    BY <1>12, DocsSame DEF CancelBeforeApply
  <2>4. StagingKept
    BY <1>12, StagingSame DEF CancelBeforeApply
  <2>5. RestOK /\ lock' = lock
    BY <1>12 DEF CancelBeforeApply, RestOK, TypeOK, Journal, Ops, JournalStates
  <2>6. Relies(c)'
    BY <2>1, <2>2, <2>3, <2>4, KeepsRelies
       DEF StagedLabels, BaseLabels, UpdateLabels, UsesIndex
  <2> QED BY <2>1, <2>2, <2>3, <2>4, <2>5, <2>6, KeptStep
<1>13. ASSUME NEW p \in Paths, BackupFile(c, p) PROVE StepOK(c)
  <2>a. job[c].tx \in TxIds /\ staging[job[c].tx] # Absent /\ staging[job[c].tx] \in Stage
    BY <1>13, StagingThere DEF BackupFile, StagedLabels
  <2>1. /\ pc[c] = "updBackup" /\ pc[c] \in Locked
        /\ pc'[c] = "updBackup" /\ Moves(c, Locked)
    BY <1>13, GotoInside, StayInside DEF BackupFile, Locked, Labels
  <2>2. JobKept(c)
    BY <1>13, JobTodo, JobTyped DEF BackupFile
  <2>3. DocsKept(c)
    BY <1>13, DocsSame DEF BackupFile
  <2>4. StagingKept
    <3>1. files[p] \in Slot \cup {UserFile}
      BY DEF TypeOK
    <3> QED BY <1>13, <2>a, <3>1, StagingSame, StageBackupKept DEF BackupFile
  <2>5. RestOK /\ lock' = lock
    BY <1>13 DEF BackupFile, RestOK, TypeOK, Slot
  <2>6. Relies(c)'
    BY <2>1, <2>2, <2>3, <2>4, KeepsRelies
       DEF StagedLabels, BaseLabels, UpdateLabels, UsesIndex
  <2> QED BY <2>1, <2>2, <2>3, <2>4, <2>5, <2>6, KeptStep
<1>14. ASSUME BackupDone(c) PROVE StepOK(c)
  <2>1. /\ pc[c] = "updBackup" /\ pc[c] \in Locked
        /\ pc'[c] = "updApply" /\ Moves(c, Locked)
    BY <1>14, GotoInside DEF BackupDone, Locked, Labels
  <2>2. JobKept(c)
    BY <1>14, JobTodo, JobTyped DEF BackupDone
  <2>3. DocsKept(c)
    BY <1>14, DocsSame DEF BackupDone
  <2>4. StagingKept
    BY <1>14, StagingSame DEF BackupDone
  <2>5. RestOK /\ lock' = lock
    BY <1>14 DEF BackupDone, RestOK, TypeOK, Journal, Ops, JournalStates
  <2>6. Relies(c)'
    BY <2>1, <2>2, <2>3, <2>4, KeepsRelies
       DEF StagedLabels, BaseLabels, UpdateLabels, UsesIndex
  <2> QED BY <2>1, <2>2, <2>3, <2>4, <2>5, <2>6, KeptStep
<1>15. ASSUME NEW p \in Paths, ApplyFile(c, p) PROVE StepOK(c)
  <2>a. job[c].tx \in TxIds /\ staging[job[c].tx] # Absent /\ staging[job[c].tx] \in Stage
    BY <1>15, StagingThere DEF ApplyFile, StagedLabels
  <2>1. /\ pc[c] = "updApply" /\ pc[c] \in Locked
        /\ pc'[c] \in {"updApply", "rollApplied"} /\ Moves(c, Locked)
    BY <1>15, GotoInside, StayInside DEF ApplyFile, Locked, Labels
  <2>2. JobKept(c)
    <3>1. job[c] \in Job
      BY DEF TypeOK
    <3>2. /\ Applied(c, p) \in Job
          /\ Applied(c, p).op = job[c].op /\ Applied(c, p).tx = job[c].tx
      BY <3>1 DEF Applied, Job
    <3> QED BY <1>15, <3>2, JobSame, JobReset DEF ApplyFile, JobKept
  <2>3. DocsKept(c)
    BY <1>15, DocsSame DEF ApplyFile
  <2>4. StagingKept
    <3>1. Absent \in Slot
      BY DEF Slot
    <3> QED BY <1>15, <2>a, <3>1, StagingSame, StageStagedKept DEF ApplyFile
  <2>5. RestOK /\ lock' = lock
    <3>1. staging[job[c].tx].staged[p] \in Slot
      BY <2>a DEF Stage, Table
    <3>2. files' \in [Paths -> Slot \cup {UserFile}]
      BY <1>15, <3>1 DEF ApplyFile, TypeOK
    <3> QED BY <1>15, <3>2 DEF ApplyFile, RestOK, TypeOK
  <2>6. Relies(c)'
    BY <2>1, <2>2, <2>3, <2>4, KeepsRelies
       DEF StagedLabels, BaseLabels, UpdateLabels, UsesIndex
  <2> QED BY <2>1, <2>2, <2>3, <2>4, <2>5, <2>6, KeptStep
<1>16. ASSUME ApplyDone(c) PROVE StepOK(c)
  <2>1. /\ pc[c] = "updApply" /\ pc[c] \in Locked
        /\ pc'[c] = "updVerify" /\ Moves(c, Locked)
    BY <1>16, GotoInside DEF ApplyDone, Locked, Labels
  <2>2. JobKept(c)
    BY <1>16, JobSame DEF ApplyDone
  <2>3. DocsKept(c)
    BY <1>16, DocsSame DEF ApplyDone
  <2>4. StagingKept
    BY <1>16, StagingSame DEF ApplyDone
  <2>5. RestOK /\ lock' = lock
    BY <1>16 DEF ApplyDone, RestOK, TypeOK, Journal, Ops, JournalStates
  <2>6. Relies(c)'
    BY <2>1, <2>2, <2>3, <2>4, KeepsRelies
       DEF StagedLabels, BaseLabels, UpdateLabels, UsesIndex
  <2> QED BY <2>1, <2>2, <2>3, <2>4, <2>5, <2>6, KeptStep
<1>17. ASSUME VerifyUpdate(c) PROVE StepOK(c)
  <2>1. /\ pc[c] = "updVerify" /\ pc[c] \in Locked
        /\ pc'[c] \in {"updFail", "rollApplied", "updIndex"} /\ Moves(c, Locked)
    <3>1. Goto(c, "updFail") \/ Goto(c, "rollApplied") \/ Goto(c, "updIndex")
      BY <1>17 DEF VerifyUpdate
    <3> QED BY <1>17, <3>1, GotoInside DEF VerifyUpdate, Locked, Labels
  <2>2. JobKept(c)
    BY <1>17, JobSame DEF VerifyUpdate
  <2>3. DocsKept(c)
    BY <1>17, DocsSame DEF VerifyUpdate
  <2>4. StagingKept
    BY <1>17, StagingSame DEF VerifyUpdate
  <2>5. RestOK /\ lock' = lock
    <3>1. journal' = journal \/ journal' = <<"update", "finalizing">>
      BY <1>17 DEF VerifyUpdate, Journal
    <3>2. journal' \in Ops \X JournalStates
      BY <3>1 DEF TypeOK, Ops, JournalStates
    <3> QED BY <1>17, <3>2 DEF VerifyUpdate, RestOK, TypeOK
  <2>6. Relies(c)'
    <3>1. pc'[c] = "updIndex" => IndexReadable
      <4>1. Goto(c, "updFail") \/ Goto(c, "rollApplied") \/ IndexReadable
        BY <1>17 DEF VerifyUpdate
      <4> QED BY <2>1, <4>1, GotoInside DEF Locked, Labels
    <3>2. UNCHANGED <<doc, pending>> /\ pending[c] = NoWrite
      BY <1>17 DEF VerifyUpdate
    <3>3. UsesIndex(c)' => IndexReadable' /\ pending'[c] = NoWrite
      BY <2>1, <3>1, <3>2 DEF UsesIndex, IndexReadable
    <3> QED BY <2>1, <2>2, <2>3, <2>4, <3>3, KeepsRelies
            DEF StagedLabels, BaseLabels, UpdateLabels
  <2> QED BY <2>1, <2>2, <2>3, <2>4, <2>5, <2>6, KeptStep
<1>18. ASSUME RollbackApplied(c) PROVE StepOK(c)
  <2>1. /\ pc[c] = "rollApplied" /\ pc[c] \in Locked
        /\ pc'[c] \in {"rollApplied", "rollBackups"} /\ Moves(c, Locked)
    BY <1>18, GotoInside, StayInside DEF RollbackApplied, Locked, Labels
  <2>2. JobKept(c)
    <3>1. CASE job[c].applied = {}
      BY <1>18, <3>1, JobTodo, JobTyped DEF RollbackApplied
    <3>2. CASE job[c].applied # {}
      <4>1. PICK q \in job[c].applied : SetJob(c, "applied", job[c].applied \ {q})
        BY <1>18, <3>2 DEF RollbackApplied
      <4> QED BY <4>1, JobApplied, JobTyped
    <3> QED BY <3>1, <3>2
  <2>3. DocsKept(c)
    BY <1>18, DocsSame DEF RollbackApplied
  <2>4. StagingKept
    BY <1>18, StagingSame DEF RollbackApplied
  <2>5. RestOK /\ lock' = lock
    <3>1. files' = files \/ \E q \in job[c].applied : files' = [files EXCEPT ![q] = Absent]
      BY <1>18 DEF RollbackApplied
    <3>2. files' \in [Paths -> Slot \cup {UserFile}]
      BY <3>1, JobTyped DEF TypeOK, Slot
    <3> QED BY <1>18, <3>2 DEF RollbackApplied, RestOK, TypeOK
  <2>6. Relies(c)'
    BY <2>1, <2>2, <2>3, <2>4, KeepsRelies
       DEF StagedLabels, BaseLabels, UpdateLabels, UsesIndex
  <2> QED BY <2>1, <2>2, <2>3, <2>4, <2>5, <2>6, KeptStep
<1>19. ASSUME RollbackBackups(c) PROVE StepOK(c)
  <2>a. job[c].tx \in TxIds /\ staging[job[c].tx] # Absent /\ staging[job[c].tx] \in Stage
    BY <1>19, StagingThere DEF RollbackBackups, StagedLabels
  <2>1. /\ pc[c] = "rollBackups" /\ pc[c] \in Locked
        /\ pc'[c] \in {"rollBackups", "updFail"} /\ Moves(c, Locked)
    BY <1>19, GotoInside, StayInside DEF RollbackBackups, Locked, Labels
  <2>2. JobKept(c)
    <3>1. CASE job[c].todo = {}
      BY <1>19, <3>1, JobSame DEF RollbackBackups
    <3>2. CASE job[c].todo # {}
      <4>1. PICK q \in job[c].todo : SetJob(c, "todo", job[c].todo \ {q})
        BY <1>19, <3>2 DEF RollbackBackups
      <4> QED BY <4>1, JobTodo, JobTyped
    <3> QED BY <3>1, <3>2
  <2>3. DocsKept(c)
    BY <1>19, DocsSame DEF RollbackBackups
  <2>4. StagingKept
    <3>1. \/ staging' = staging
          \/ \E q \in job[c].todo : staging' = [staging EXCEPT ![job[c].tx].backups[q] = Absent]
      BY <1>19 DEF RollbackBackups
    <3>2. CASE staging' = staging
      BY <3>2, StagingSame
    <3>3. CASE \E q \in job[c].todo :
                 staging' = [staging EXCEPT ![job[c].tx].backups[q] = Absent]
      <4>1. PICK q \in Paths : staging' = [staging EXCEPT ![job[c].tx].backups[q] = Absent]
        BY <3>3, JobTyped
      <4> QED BY <2>a, <4>1, StageBackupKept DEF Slot
    <3> QED BY <3>1, <3>2, <3>3
  <2>5. RestOK /\ lock' = lock
    <3>1. \/ files' = files
          \/ \E q \in job[c].todo : files' = [files EXCEPT ![q] = staging[job[c].tx].backups[q]]
      BY <1>19 DEF RollbackBackups
    <3>2. \A q \in Paths : staging[job[c].tx].backups[q] \in Slot \cup {UserFile}
      BY <2>a DEF Stage
    <3>3. files' \in [Paths -> Slot \cup {UserFile}]
      BY <3>1, <3>2, JobTyped DEF TypeOK
    <3> QED BY <1>19, <3>3 DEF RollbackBackups, RestOK, TypeOK
  <2>6. Relies(c)'
    BY <2>1, <2>2, <2>3, <2>4, KeepsRelies
       DEF StagedLabels, BaseLabels, UpdateLabels, UsesIndex
  <2> QED BY <2>1, <2>2, <2>3, <2>4, <2>5, <2>6, KeptStep
<1>20. ASSUME UpdateFails(c) PROVE StepOK(c)
  <2>1. /\ pc[c] = "updFail" /\ pc[c] \in Locked
        /\ pc'[c] = "err" /\ Moves(c, Locked)
    BY <1>20, GotoInside DEF UpdateFails, Locked, Labels
  <2>2. JobKept(c)
    BY <1>20, JobSame DEF UpdateFails
  <2>3. DocsKept(c)
    BY <1>20, MarkKept, JobTyped DEF UpdateFails, Status
  <2>4. StagingKept
    BY <1>20, StagingSame DEF UpdateFails
  <2>5. RestOK /\ lock' = lock
    BY <1>20 DEF UpdateFails, RestOK, TypeOK, Journal, Ops, JournalStates
  <2>6. Relies(c)'
    BY <2>1, <2>2, <2>3, <2>4, KeepsRelies
       DEF StagedLabels, BaseLabels, UpdateLabels, UsesIndex
  <2> QED BY <2>1, <2>2, <2>3, <2>4, <2>5, <2>6, KeptStep
<1>21. ASSUME CommitIndex(c) PROVE StepOK(c)
  <2>1. /\ pc[c] = "updIndex" /\ pc[c] \in Locked
        /\ pc'[c] = "updSelect" /\ Moves(c, Locked)
    BY <1>21, GotoInside DEF CommitIndex, Locked, Labels
  <2>2. JobKept(c)
    BY <1>21, JobSame DEF CommitIndex
  <2>3. DocsKept(c)
    <3>1. doc["index"] \in Index
      BY <1>21, IndexTyped DEF CommitIndex, TxInv, Relies, UsesIndex
    <3>2. NewIndex(c) \in Index
      BY <3>1, DesiredTyped, JobTyped DEF NewIndex, Index
    <3> QED BY <1>21, <3>2, ReplaceKept DEF CommitIndex, DocNames, DocType
  <2>4. StagingKept
    BY <1>21, StagingSame DEF CommitIndex
  <2>5. RestOK /\ lock' = lock
    BY <1>21 DEF CommitIndex, RestOK, TypeOK, Journal, Ops, JournalStates
  <2>6. Relies(c)'
    BY <2>1, <2>2, <2>3, <2>4, KeepsRelies
       DEF StagedLabels, BaseLabels, UpdateLabels, UsesIndex
  <2> QED BY <2>1, <2>2, <2>3, <2>4, <2>5, <2>6, KeptStep
<1>22. ASSUME CommitSelections(c) PROVE StepOK(c)
  <2>1. /\ pc[c] = "updSelect" /\ pc[c] \in Locked
        /\ pc'[c] = "updCommit" /\ Moves(c, Locked)
    BY <1>22, GotoInside DEF CommitSelections, Locked, Labels
  <2>2. JobKept(c)
    BY <1>22, JobSame DEF CommitSelections
  <2>3. DocsKept(c)
    <3>1. job[c].plan.sel \in DocType["selections"]
      BY JobTyped DEF DocType
    <3> QED BY <1>22, <3>1, ReplaceKept DEF CommitSelections, DocNames
  <2>4. StagingKept
    BY <1>22, StagingSame DEF CommitSelections
  <2>5. RestOK /\ lock' = lock
    BY <1>22 DEF CommitSelections, RestOK, TypeOK, Journal, Ops, JournalStates
  <2>6. Relies(c)'
    BY <2>1, <2>2, <2>3, <2>4, KeepsRelies
       DEF StagedLabels, BaseLabels, UpdateLabels, UsesIndex
  <2> QED BY <2>1, <2>2, <2>3, <2>4, <2>5, <2>6, KeptStep
<1>23. ASSUME CommitSpec(c) PROVE StepOK(c)
  <2>1. /\ pc[c] = "updCommit" /\ pc[c] \in Locked
        /\ pc'[c] = "updClean" /\ Moves(c, Locked)
    BY <1>23, GotoInside DEF CommitSpec, Locked, Labels
  <2>2. JobKept(c)
    BY <1>23, JobSame DEF CommitSpec
  <2>3. DocsKept(c)
    <3>1. job[c].plan.to \in DocType["spec"]
      BY JobTyped DEF DocType
    <3> QED BY <1>23, <3>1, DocsSame, ReplaceKept DEF CommitSpec, DocNames
  <2>4. StagingKept
    BY <1>23, StagingSame DEF CommitSpec
  <2>5. RestOK /\ lock' = lock
    BY <1>23 DEF CommitSpec, RestOK, TypeOK, Journal, Ops, JournalStates
  <2>6. Relies(c)'
    BY <2>1, <2>2, <2>3, <2>4, KeepsRelies
       DEF StagedLabels, BaseLabels, UpdateLabels, UsesIndex
  <2> QED BY <2>1, <2>2, <2>3, <2>4, <2>5, <2>6, KeptStep
<1>24. ASSUME UpdateDone(c) PROVE StepOK(c)
  <2>1. /\ pc[c] = "updDone" /\ pc[c] \in Locked
        /\ pc'[c] = "ok" /\ Moves(c, Locked)
    BY <1>24, GotoInside DEF UpdateDone, Locked, Labels
  <2>2. JobKept(c)
    BY <1>24, JobSame DEF UpdateDone
  <2>3. DocsKept(c)
    BY <1>24, SpecTyped, MarkKept DEF UpdateDone, Status
  <2>4. StagingKept
    BY <1>24, StagingSame DEF UpdateDone
  <2>5. RestOK /\ lock' = lock
    BY <1>24 DEF UpdateDone, RestOK, TypeOK, Journal, Ops, JournalStates
  <2>6. Relies(c)'
    BY <2>1, <2>2, <2>3, <2>4, KeepsRelies
       DEF StagedLabels, BaseLabels, UpdateLabels, UsesIndex
  <2> QED BY <2>1, <2>2, <2>3, <2>4, <2>5, <2>6, KeptStep
<1> QED
  BY <1>1, <1>2, <1>3, <1>4, <1>5, <1>6, <1>7, <1>8, <1>9, <1>10, <1>11, <1>12, <1>13, <1>14,
     <1>15, <1>16, <1>17, <1>18, <1>19, <1>20, <1>21, <1>22, <1>23, <1>24

\* Every step of install_mode_unlocked and of a provider installation keeps it.
LEMMA InstallKeeps ==
    ASSUME TxInv, NEW c \in Cores,
           \/ BaseBegin(c)
           \/ BaseFetch(c)
           \/ (\E why \in Why : BaseFails(c, why))
           \/ NativesOut(c)
           \/ NativesIn(c)
           \/ BaseIndex(c)
           \/ BaseIndexFails(c)
           \/ BaseDone(c)
           \/ BaseEnd(c)
           \/ InstallMark(c)
           \/ InstallSelect(c)
           \/ (\E p \in Paths : InstallFile(c, p))
           \/ InstallFails(c)
           \/ InstallCopied(c)
           \/ InstallIndex(c)
           \/ InstallDone(c)
    PROVE  StepOK(c)
<1> USE DEF At, disk
<1> TypeOK
  BY DEF TxInv
<1>1. ASSUME BaseBegin(c) PROVE StepOK(c)
  <2>1. /\ pc[c] = "base" /\ pc[c] \in Locked
        /\ pc'[c] = "baseFetch" /\ Moves(c, Locked)
    BY <1>1, GotoInside DEF BaseBegin, Locked, Labels
  <2>2. JobKept(c)
    BY <1>1, JobSame DEF BaseBegin
  <2>3. DocsKept(c)
    BY <1>1, MarkKept, JobTyped DEF BaseBegin, Status
  <2>4. StagingKept
    BY <1>1, StagingSame DEF BaseBegin
  <2>5. RestOK /\ lock' = lock
    BY <1>1 DEF BaseBegin, RestOK, TypeOK, Journal, Ops, JournalStates
  <2>6. Relies(c)'
    BY <2>1, <2>2, <2>3, <2>4, KeepsRelies
       DEF StagedLabels, BaseLabels, UpdateLabels, UsesIndex
  <2> QED BY <2>1, <2>2, <2>3, <2>4, <2>5, <2>6, KeptStep
<1>2. ASSUME BaseFetch(c) PROVE StepOK(c)
  <2>1. /\ pc[c] = "baseFetch" /\ pc[c] \in Locked
        /\ pc'[c] = "nativesOut" /\ Moves(c, Locked)
    BY <1>2, GotoInside DEF BaseFetch, Locked, Labels
  <2>2. JobKept(c)
    BY <1>2, JobSame DEF BaseFetch
  <2>3. DocsKept(c)
    BY <1>2, DocsSame DEF BaseFetch
  <2>4. StagingKept
    BY <1>2, StagingSame DEF BaseFetch
  <2>5. RestOK /\ lock' = lock
    BY <1>2 DEF BaseFetch, RestOK, TypeOK, Journal, Ops, JournalStates
  <2>6. Relies(c)'
    <3>1. UNCHANGED <<doc, pending>> /\ pending[c] = NoWrite
      BY <1>2 DEF BaseFetch
    <3>2. UsesIndex(c)' => IndexReadable' /\ pending'[c] = NoWrite
      BY <2>1, <2>2, <3>1 DEF UsesIndex, IndexReadable, TxInv, Relies, JobKept
    <3> QED BY <2>1, <2>2, <2>3, <2>4, <3>2, KeepsRelies
            DEF StagedLabels, BaseLabels, UpdateLabels, TxInv, Relies
  <2> QED BY <2>1, <2>2, <2>3, <2>4, <2>5, <2>6, KeptStep
<1>3. ASSUME NEW why \in Why, BaseFails(c, why) PROVE StepOK(c)
  <2>1. /\ pc[c] = "baseFetch" /\ pc[c] \in Locked
        /\ pc'[c] \in {"updFail", "release"} /\ Moves(c, Locked)
    BY <1>3, GotoInside DEF BaseFails, Locked, Labels
  <2>2. JobKept(c)
    BY <1>3, JobSame DEF BaseFails
  <2>3. DocsKept(c)
    BY <1>3, MarkKept, JobTyped DEF BaseFails, Status
  <2>4. StagingKept
    BY <1>3, StagingSame DEF BaseFails
  <2>5. RestOK /\ lock' = lock
    BY <1>3 DEF BaseFails, RestOK, TypeOK, Journal, Ops, JournalStates, Why
  <2>6. Relies(c)'
    BY <2>1, <2>2, <2>3, <2>4, KeepsRelies
       DEF StagedLabels, BaseLabels, UpdateLabels, UsesIndex
  <2> QED BY <2>1, <2>2, <2>3, <2>4, <2>5, <2>6, KeptStep
<1>4. ASSUME NativesOut(c) PROVE StepOK(c)
  <2>1. /\ pc[c] = "nativesOut" /\ pc[c] \in Locked
        /\ pc'[c] = "nativesIn" /\ Moves(c, Locked)
    BY <1>4, GotoInside DEF NativesOut, Locked, Labels
  <2>2. JobKept(c)
    BY <1>4, JobSame DEF NativesOut
  <2>3. DocsKept(c)
    BY <1>4, DocsSame DEF NativesOut
  <2>4. StagingKept
    BY <1>4, StagingSame DEF NativesOut
  <2>5. RestOK /\ lock' = lock
    BY <1>4 DEF NativesOut, RestOK, TypeOK, Journal, Ops, JournalStates
  <2>6. Relies(c)'
    <3>1. UNCHANGED <<doc, pending>> /\ pending[c] = NoWrite
      BY <1>4 DEF NativesOut
    <3>2. UsesIndex(c)' => IndexReadable' /\ pending'[c] = NoWrite
      BY <2>1, <2>2, <3>1 DEF UsesIndex, IndexReadable, TxInv, Relies, JobKept
    <3> QED BY <2>1, <2>2, <2>3, <2>4, <3>2, KeepsRelies
            DEF StagedLabels, BaseLabels, UpdateLabels, TxInv, Relies
  <2> QED BY <2>1, <2>2, <2>3, <2>4, <2>5, <2>6, KeptStep
<1>5. ASSUME NativesIn(c) PROVE StepOK(c)
  <2>a. job[c].op = "repair" => IndexReadable
    BY <1>5 DEF NativesIn, TxInv, Relies, UsesIndex
  <2>1. /\ pc[c] = "nativesIn" /\ pc[c] \in Locked
        /\ pc'[c] \in {"repRefresh", "baseIndex"} /\ Moves(c, Locked)
    BY <1>5, GotoInside DEF NativesIn, Locked, Labels
  <2>2. JobKept(c)
    BY <1>5, JobSame DEF NativesIn
  <2>3. DocsKept(c)
    BY <1>5, DocsSame DEF NativesIn
  <2>4. StagingKept
    BY <1>5, StagingSame DEF NativesIn
  <2>5. RestOK /\ lock' = lock
    <3>1. job[c].op = "repair" => doc["index"].version \in Bases
      BY <2>a, IndexTyped DEF Index
    <3>2. BaseOf[BaseRevision(c)] \in Bases
      BY InputAssumption, JobTyped DEF InputAssumption
    <3> QED BY <1>5, <3>1, <3>2 DEF NativesIn, RestOK, TypeOK
  <2>6. Relies(c)'
    <3>1. UNCHANGED <<doc, pending>> /\ pending[c] = NoWrite
      BY <1>5 DEF NativesIn
    <3>2. pc'[c] = "repRefresh" => job[c].op = "repair"
      <4>1. job[c].op = "repair" \/ Goto(c, "baseIndex")
        BY <1>5 DEF NativesIn
      <4> QED BY <4>1, GotoInside DEF Locked, Labels
    <3>3. UsesIndex(c)' => IndexReadable' /\ pending'[c] = NoWrite
      BY <2>a, <2>1, <3>1, <3>2 DEF UsesIndex, IndexReadable
    <3> QED BY <2>1, <2>2, <2>3, <2>4, <3>3, KeepsRelies
            DEF StagedLabels, BaseLabels, UpdateLabels
  <2> QED BY <2>1, <2>2, <2>3, <2>4, <2>5, <2>6, KeptStep
<1>6. ASSUME BaseIndex(c) PROVE StepOK(c)
  <2>1. /\ pc[c] = "baseIndex" /\ pc[c] \in Locked
        /\ pc'[c] = "baseDone" /\ Moves(c, Locked)
    BY <1>6, GotoInside DEF BaseIndex, Locked, Labels
  <2>2. JobKept(c)
    BY <1>6, JobSame DEF BaseIndex
  <2>3. DocsKept(c)
    <3>1. BaseIndexOf(BaseRevision(c)) \in DocType["index"]
      BY <1>6, InputAssumption, EmptyTyped, JobTyped
         DEF BaseIndex, InputAssumption, BaseIndexOf, DocType, Index, TypeOK
    <3> QED BY <1>6, <3>1, ReplaceKept DEF BaseIndex, DocNames
  <2>4. StagingKept
    BY <1>6, StagingSame DEF BaseIndex
  <2>5. RestOK /\ lock' = lock
    BY <1>6 DEF BaseIndex, RestOK, TypeOK, Journal, Ops, JournalStates
  <2>6. Relies(c)'
    BY <2>1, <2>2, <2>3, <2>4, KeepsRelies
       DEF StagedLabels, BaseLabels, UpdateLabels, UsesIndex
  <2> QED BY <2>1, <2>2, <2>3, <2>4, <2>5, <2>6, KeptStep
<1>7. ASSUME BaseIndexFails(c) PROVE StepOK(c)
  <2>1. /\ pc[c] = "baseIndex" /\ pc[c] \in Locked
        /\ pc'[c] \in {"updFail", "release"} /\ Moves(c, Locked)
    BY <1>7, GotoInside DEF BaseIndexFails, Locked, Labels
  <2>2. JobKept(c)
    BY <1>7, JobSame DEF BaseIndexFails
  <2>3. DocsKept(c)
    BY <1>7, DocsSame DEF BaseIndexFails
  <2>4. StagingKept
    BY <1>7, StagingSame DEF BaseIndexFails
  <2>5. RestOK /\ lock' = lock
    BY <1>7 DEF BaseIndexFails, RestOK, TypeOK, Journal, Ops, JournalStates
  <2>6. Relies(c)'
    BY <2>1, <2>2, <2>3, <2>4, KeepsRelies
       DEF StagedLabels, BaseLabels, UpdateLabels, UsesIndex
  <2> QED BY <2>1, <2>2, <2>3, <2>4, <2>5, <2>6, KeptStep
<1>8. ASSUME BaseDone(c) PROVE StepOK(c)
  <2>1. /\ pc[c] = "baseDone" /\ pc[c] \in Locked
        /\ pc'[c] = "baseEnd" /\ Moves(c, Locked)
    BY <1>8, GotoInside DEF BaseDone, Locked, Labels
  <2>2. JobKept(c)
    BY <1>8, JobSame DEF BaseDone
  <2>3. DocsKept(c)
    BY <1>8, MarkKept, JobTyped DEF BaseDone, Status
  <2>4. StagingKept
    BY <1>8, StagingSame DEF BaseDone
  <2>5. RestOK /\ lock' = lock
    BY <1>8 DEF BaseDone, RestOK, TypeOK, Journal, Ops, JournalStates
  <2>6. Relies(c)'
    BY <2>1, <2>2, <2>3, <2>4, KeepsRelies
       DEF StagedLabels, BaseLabels, UpdateLabels, UsesIndex
  <2> QED BY <2>1, <2>2, <2>3, <2>4, <2>5, <2>6, KeptStep
<1>9. ASSUME BaseEnd(c) PROVE StepOK(c)
  <2>1. /\ pc[c] = "baseEnd" /\ pc[c] \in Locked
        /\ pc'[c] \in {"updRemark", "insMark"} /\ Moves(c, Locked)
    BY <1>9, GotoInside DEF BaseEnd, Locked, Labels
  <2>2. JobKept(c)
    BY <1>9, JobSame DEF BaseEnd
  <2>3. DocsKept(c)
    BY <1>9, DocsSame DEF BaseEnd
  <2>4. StagingKept
    BY <1>9, StagingSame DEF BaseEnd
  <2>5. RestOK /\ lock' = lock
    BY <1>9 DEF BaseEnd, RestOK, TypeOK, Journal, Ops, JournalStates
  <2>6. Relies(c)'
    <3>1. pc'[c] = "updRemark" => job[c].op = "update"
      <4>1. job[c].op = "update" \/ Goto(c, "insMark")
        BY <1>9 DEF BaseEnd
      <4> QED BY <4>1, GotoInside DEF Locked, Labels
    <3> QED BY <2>1, <2>2, <2>3, <2>4, <3>1, KeepsRelies
            DEF StagedLabels, BaseLabels, UpdateLabels, UsesIndex
  <2> QED BY <2>1, <2>2, <2>3, <2>4, <2>5, <2>6, KeptStep
<1>10. ASSUME InstallMark(c) PROVE StepOK(c)
  <2>1. /\ pc[c] = "insMark" /\ pc[c] \in Locked
        /\ pc'[c] = "insSelect" /\ Moves(c, Locked)
    BY <1>10, GotoInside DEF InstallMark, Locked, Labels
  <2>2. JobKept(c)
    BY <1>10, JobSame DEF InstallMark
  <2>3. DocsKept(c)
    BY <1>10, MarkKept, JobTyped DEF InstallMark, Status
  <2>4. StagingKept
    BY <1>10, StagingSame DEF InstallMark
  <2>5. RestOK /\ lock' = lock
    BY <1>10 DEF InstallMark, RestOK, TypeOK, Journal, Ops, JournalStates
  <2>6. Relies(c)'
    BY <2>1, <2>2, <2>3, <2>4, KeepsRelies
       DEF StagedLabels, BaseLabels, UpdateLabels, UsesIndex
  <2> QED BY <2>1, <2>2, <2>3, <2>4, <2>5, <2>6, KeptStep
<1>11. ASSUME InstallSelect(c) PROVE StepOK(c)
  <2>1. /\ pc[c] = "insSelect" /\ pc[c] \in Locked
        /\ pc'[c] = "insFiles" /\ Moves(c, Locked)
    BY <1>11, GotoInside DEF InstallSelect, Locked, Labels
  <2>2. JobKept(c)
    <3>1. job[c] \in Job
      BY DEF TypeOK
    <3>2. [job[c].plan EXCEPT !.sel = CurrentSelections] \in Plan
      BY JobTyped, SelectionsTyped DEF Plan
    <3>3. /\ Selected(c, CurrentSelections) \in Job
          /\ Selected(c, CurrentSelections).op = job[c].op
          /\ Selected(c, CurrentSelections).tx = job[c].tx
      BY <3>1, <3>2 DEF Selected, Job
    <3> QED BY <1>11, <3>3, JobReset DEF InstallSelect, JobKept
  <2>3. DocsKept(c)
    <3>1. CurrentSelections \in DocType["selections"]
      BY SelectionsTyped DEF DocType
    <3> QED BY <1>11, <3>1, ReplaceKept DEF InstallSelect, DocNames
  <2>4. StagingKept
    BY <1>11, StagingSame DEF InstallSelect
  <2>5. RestOK /\ lock' = lock
    BY <1>11 DEF InstallSelect, RestOK, TypeOK, Journal, Ops, JournalStates
  <2>6. Relies(c)'
    BY <2>1, <2>2, <2>3, <2>4, KeepsRelies
       DEF StagedLabels, BaseLabels, UpdateLabels, UsesIndex
  <2> QED BY <2>1, <2>2, <2>3, <2>4, <2>5, <2>6, KeptStep
<1>12. ASSUME NEW p \in Paths, InstallFile(c, p) PROVE StepOK(c)
  <2>a. Desired[job[c].plan.to, job[c].plan.sel][p] \in Slot
    BY DesiredTyped, JobTyped DEF Table
  <2>1. /\ pc[c] = "insFiles" /\ pc[c] \in Locked
        /\ pc'[c] = "insFiles" /\ Moves(c, Locked)
    BY <1>12, GotoInside, StayInside DEF InstallFile, CopyInto, Locked, Labels
  <2>2. JobKept(c)
    <3>1. job' = job \/ SetJob(c, "todo", job[c].todo \ {p})
      BY <1>12 DEF InstallFile, CopyInto
    <3> QED BY <3>1, JobSame, JobTodo, JobTyped
  <2>3. DocsKept(c)
    BY <1>12, DocsSame DEF InstallFile, CopyInto
  <2>4. StagingKept
    BY <1>12, StagingSame DEF InstallFile, CopyInto
  <2>5. RestOK /\ lock' = lock
    <3>1. files' \in [Paths -> Slot \cup {UserFile}]
      BY <1>12, <2>a DEF InstallFile, CopyInto, TypeOK, Slot
    <3> QED BY <1>12, <3>1 DEF InstallFile, CopyInto, RestOK, TypeOK
  <2>6. Relies(c)'
    BY <2>1, <2>2, <2>3, <2>4, KeepsRelies
       DEF StagedLabels, BaseLabels, UpdateLabels, UsesIndex
  <2> QED BY <2>1, <2>2, <2>3, <2>4, <2>5, <2>6, KeptStep
<1>13. ASSUME InstallFails(c) PROVE StepOK(c)
  <2>1. /\ pc[c] \in {"insFiles", "insVerify"} /\ pc[c] \in Locked
        /\ pc'[c] = "release" /\ Moves(c, Locked)
    BY <1>13, GotoInside DEF InstallFails, Locked, Labels
  <2>2. JobKept(c)
    BY <1>13, JobSame DEF InstallFails
  <2>3. DocsKept(c)
    BY <1>13, MarkKept, JobTyped DEF InstallFails, Status
  <2>4. StagingKept
    BY <1>13, StagingSame DEF InstallFails
  <2>5. RestOK /\ lock' = lock
    BY <1>13 DEF InstallFails, RestOK, TypeOK, Journal, Ops, JournalStates
  <2>6. Relies(c)'
    BY <2>1, <2>2, <2>3, <2>4, KeepsRelies
       DEF StagedLabels, BaseLabels, UpdateLabels, UsesIndex
  <2> QED BY <2>1, <2>2, <2>3, <2>4, <2>5, <2>6, KeptStep
<1>14. ASSUME InstallCopied(c) PROVE StepOK(c)
  <2>1. /\ pc[c] = "insFiles" /\ pc[c] \in Locked
        /\ pc'[c] = "insVerify" /\ Moves(c, Locked)
    BY <1>14, GotoInside DEF InstallCopied, Locked, Labels
  <2>2. JobKept(c)
    BY <1>14, JobSame DEF InstallCopied
  <2>3. DocsKept(c)
    BY <1>14, DocsSame DEF InstallCopied
  <2>4. StagingKept
    BY <1>14, StagingSame DEF InstallCopied
  <2>5. RestOK /\ lock' = lock
    BY <1>14 DEF InstallCopied, RestOK, TypeOK, Journal, Ops, JournalStates
  <2>6. Relies(c)'
    BY <2>1, <2>2, <2>3, <2>4, KeepsRelies
       DEF StagedLabels, BaseLabels, UpdateLabels, UsesIndex
  <2> QED BY <2>1, <2>2, <2>3, <2>4, <2>5, <2>6, KeptStep
<1>15. ASSUME InstallIndex(c) PROVE StepOK(c)
  <2>1. /\ pc[c] = "insVerify" /\ pc[c] \in Locked
        /\ pc'[c] = "insDone" /\ Moves(c, Locked)
    BY <1>15, GotoInside DEF InstallIndex, Locked, Labels
  <2>2. JobKept(c)
    BY <1>15, JobSame DEF InstallIndex
  <2>3. DocsKept(c)
    <3>1. doc["index"] \in Index
      BY <1>15, IndexTyped DEF InstallIndex
    <3>2. NewIndex(c) \in Index
      BY <3>1, DesiredTyped, JobTyped DEF NewIndex, Index
    <3> QED BY <1>15, <3>2, ReplaceKept DEF InstallIndex, DocNames, DocType
  <2>4. StagingKept
    BY <1>15, StagingSame DEF InstallIndex
  <2>5. RestOK /\ lock' = lock
    BY <1>15 DEF InstallIndex, RestOK, TypeOK, Journal, Ops, JournalStates
  <2>6. Relies(c)'
    BY <2>1, <2>2, <2>3, <2>4, KeepsRelies
       DEF StagedLabels, BaseLabels, UpdateLabels, UsesIndex
  <2> QED BY <2>1, <2>2, <2>3, <2>4, <2>5, <2>6, KeptStep
<1>16. ASSUME InstallDone(c) PROVE StepOK(c)
  <2>1. /\ pc[c] = "insDone" /\ pc[c] \in Locked
        /\ pc'[c] = "release" /\ Moves(c, Locked)
    BY <1>16, GotoInside DEF InstallDone, Locked, Labels
  <2>2. JobKept(c)
    BY <1>16, JobSame DEF InstallDone
  <2>3. DocsKept(c)
    BY <1>16, MarkKept, JobTyped DEF InstallDone, Status
  <2>4. StagingKept
    BY <1>16, StagingSame DEF InstallDone
  <2>5. RestOK /\ lock' = lock
    BY <1>16 DEF InstallDone, RestOK, TypeOK, Journal, Ops, JournalStates
  <2>6. Relies(c)'
    BY <2>1, <2>2, <2>3, <2>4, KeepsRelies
       DEF StagedLabels, BaseLabels, UpdateLabels, UsesIndex
  <2> QED BY <2>1, <2>2, <2>3, <2>4, <2>5, <2>6, KeptStep
<1> QED
  BY <1>1, <1>2, <1>3, <1>4, <1>5, <1>6, <1>7, <1>8, <1>9, <1>10, <1>11, <1>12, <1>13, <1>14,
     <1>15, <1>16

\* Every step of a repair inside the lock keeps it.
LEMMA RepairKeeps ==
    ASSUME TxInv, NEW c \in Cores,
           \/ RepairIndex(c)
           \/ RepairPlan(c)
           \/ (\E p \in Paths : RepairFile(c, p))
           \/ RepairCopied(c)
           \/ RepairRefresh(c)
           \/ RepairDone(c)
           \/ RepairFails(c)
    PROVE  StepOK(c)
<1> USE DEF At, disk
<1> TypeOK
  BY DEF TxInv
<1>1. ASSUME RepairIndex(c) PROVE StepOK(c)
  <2>1. /\ pc[c] = "repIndex" /\ pc[c] \in Locked
        /\ pc'[c] = "repPlan" /\ Moves(c, Locked)
    BY <1>1, GotoInside DEF RepairIndex, Locked, Labels
  <2>2. JobKept(c)
    BY <1>1, JobSame DEF RepairIndex
  <2>3. DocsKept(c)
    <3>1. natives # Absent => BaseIndexOf(job[c].inst) \in DocType["index"]
      BY InputAssumption, EmptyTyped, JobTyped
         DEF InputAssumption, BaseIndexOf, DocType, Index, TypeOK
    <3> QED BY <1>1, <3>1, DocsSame, ReplaceKept DEF RepairIndex, DocNames
  <2>4. StagingKept
    BY <1>1, StagingSame DEF RepairIndex
  <2>5. RestOK /\ lock' = lock
    BY <1>1 DEF RepairIndex, RestOK, TypeOK, Journal, Ops, JournalStates
  <2>6. Relies(c)'
    BY <2>1, <2>2, <2>3, <2>4, KeepsRelies
       DEF StagedLabels, BaseLabels, UpdateLabels, UsesIndex
  <2> QED BY <2>1, <2>2, <2>3, <2>4, <2>5, <2>6, KeptStep
<1>2. ASSUME RepairPlan(c) PROVE StepOK(c)
  <2>1. /\ pc[c] = "repPlan" /\ pc[c] \in Locked
        /\ pc'[c] = "repCopy" /\ Moves(c, Locked)
    BY <1>2, GotoInside DEF RepairPlan, Locked, Labels
  <2>2. JobKept(c)
    <3> DEFINE todo == {p \in Paths : /\ doc["index"].files[p] # Absent
                                      /\ files[p] # doc["index"].files[p]}
               bad == natives # doc["index"].natives
               j == [job[c] EXCEPT !.todo = todo, !.reextract = bad]
    <3>1. job[c] \in Job /\ bad \in BOOLEAN /\ todo \in SUBSET Paths
      BY DEF TypeOK
    <3> HIDE DEF bad, todo
    <3>2. j \in Job /\ j.op = job[c].op /\ j.tx = job[c].tx
      BY <3>1 DEF Job
    <3>3. job' = [job EXCEPT ![c] = j]
      BY <1>2 DEF RepairPlan, todo, bad
    <3> QED BY <3>2, <3>3, JobReset DEF JobKept
  <2>3. DocsKept(c)
    BY <1>2, DocsSame DEF RepairPlan
  <2>4. StagingKept
    BY <1>2, StagingSame DEF RepairPlan
  <2>5. RestOK /\ lock' = lock
    BY <1>2 DEF RepairPlan, RestOK, TypeOK, Journal, Ops, JournalStates
  <2>6. Relies(c)'
    <3>1. UsesIndex(c)' => IndexReadable' /\ pending'[c] = NoWrite
      BY <1>2 DEF RepairPlan, IndexReadable
    <3> QED BY <2>1, <2>2, <2>3, <2>4, <3>1, KeepsRelies
            DEF StagedLabels, BaseLabels, UpdateLabels
  <2> QED BY <2>1, <2>2, <2>3, <2>4, <2>5, <2>6, KeptStep
<1>3. ASSUME NEW p \in Paths, RepairFile(c, p) PROVE StepOK(c)
  <2>a. doc["index"].files[p] \in Slot
    BY <1>3, IndexTyped DEF RepairFile, CopyInto, TxInv, Relies, UsesIndex, Index, Table
  <2>1. /\ pc[c] = "repCopy" /\ pc[c] \in Locked
        /\ pc'[c] = "repCopy" /\ Moves(c, Locked)
    BY <1>3, GotoInside, StayInside DEF RepairFile, CopyInto, Locked, Labels
  <2>2. JobKept(c)
    <3>1. job' = job \/ SetJob(c, "todo", job[c].todo \ {p})
      BY <1>3 DEF RepairFile, CopyInto
    <3> QED BY <3>1, JobSame, JobTodo, JobTyped
  <2>3. DocsKept(c)
    BY <1>3, DocsSame DEF RepairFile, CopyInto
  <2>4. StagingKept
    BY <1>3, StagingSame DEF RepairFile, CopyInto
  <2>5. RestOK /\ lock' = lock
    <3>1. files' \in [Paths -> Slot \cup {UserFile}]
      BY <1>3, <2>a DEF RepairFile, CopyInto, TypeOK, Slot
    <3> QED BY <1>3, <3>1 DEF RepairFile, CopyInto, RestOK, TypeOK
  <2>6. Relies(c)'
    <3>1. UNCHANGED <<doc, pending>> /\ pending[c] = NoWrite
      BY <1>3 DEF RepairFile, CopyInto
    <3>2. UsesIndex(c)' => IndexReadable' /\ pending'[c] = NoWrite
      BY <2>1, <2>2, <3>1 DEF UsesIndex, IndexReadable, TxInv, Relies, JobKept
    <3> QED BY <2>1, <2>2, <2>3, <2>4, <3>2, KeepsRelies
            DEF StagedLabels, BaseLabels, UpdateLabels, TxInv, Relies
  <2> QED BY <2>1, <2>2, <2>3, <2>4, <2>5, <2>6, KeptStep
<1>4. ASSUME RepairCopied(c) PROVE StepOK(c)
  <2>1. /\ pc[c] = "repCopy" /\ pc[c] \in Locked
        /\ pc'[c] \in {"nativesOut", "repRefresh"} /\ Moves(c, Locked)
    BY <1>4, GotoInside DEF RepairCopied, Locked, Labels
  <2>2. JobKept(c)
    BY <1>4, JobSame DEF RepairCopied
  <2>3. DocsKept(c)
    BY <1>4, DocsSame DEF RepairCopied
  <2>4. StagingKept
    BY <1>4, StagingSame DEF RepairCopied
  <2>5. RestOK /\ lock' = lock
    BY <1>4 DEF RepairCopied, RestOK, TypeOK, Journal, Ops, JournalStates
  <2>6. Relies(c)'
    <3>1. UNCHANGED <<doc, pending>> /\ pending[c] = NoWrite
      BY <1>4 DEF RepairCopied
    <3>2. UsesIndex(c)' => IndexReadable' /\ pending'[c] = NoWrite
      BY <2>1, <2>2, <3>1 DEF UsesIndex, IndexReadable, TxInv, Relies, JobKept
    <3> QED BY <2>1, <2>2, <2>3, <2>4, <3>2, KeepsRelies
            DEF StagedLabels, BaseLabels, UpdateLabels, TxInv, Relies
  <2> QED BY <2>1, <2>2, <2>3, <2>4, <2>5, <2>6, KeptStep
<1>5. ASSUME RepairRefresh(c) PROVE StepOK(c)
  <2>1. /\ pc[c] = "repRefresh" /\ pc[c] \in Locked
        /\ pc'[c] = "repVerify" /\ Moves(c, Locked)
    BY <1>5, GotoInside DEF RepairRefresh, Locked, Labels
  <2>2. JobKept(c)
    BY <1>5, JobSame DEF RepairRefresh
  <2>3. DocsKept(c)
    <3>1. doc["index"] \in DocType["index"]
      BY DEF TypeOK, DocNames
    <3> QED BY <1>5, <3>1, ReplaceKept DEF RepairRefresh, DocNames
  <2>4. StagingKept
    BY <1>5, StagingSame DEF RepairRefresh
  <2>5. RestOK /\ lock' = lock
    BY <1>5 DEF RepairRefresh, RestOK, TypeOK, Journal, Ops, JournalStates
  <2>6. Relies(c)'
    BY <2>1, <2>2, <2>3, <2>4, KeepsRelies
       DEF StagedLabels, BaseLabels, UpdateLabels, UsesIndex
  <2> QED BY <2>1, <2>2, <2>3, <2>4, <2>5, <2>6, KeptStep
<1>6. ASSUME RepairDone(c) PROVE StepOK(c)
  <2>1. /\ pc[c] = "repVerify" /\ pc[c] \in Locked
        /\ pc'[c] = "ok" /\ Moves(c, Locked)
    BY <1>6, GotoInside DEF RepairDone, Locked, Labels
  <2>2. JobKept(c)
    BY <1>6, JobSame DEF RepairDone
  <2>3. DocsKept(c)
    BY <1>6, MarkKept, JobTyped DEF RepairDone, Status
  <2>4. StagingKept
    BY <1>6, StagingSame DEF RepairDone
  <2>5. RestOK /\ lock' = lock
    BY <1>6 DEF RepairDone, RestOK, TypeOK, Journal, Ops, JournalStates
  <2>6. Relies(c)'
    BY <2>1, <2>2, <2>3, <2>4, KeepsRelies
       DEF StagedLabels, BaseLabels, UpdateLabels, UsesIndex
  <2> QED BY <2>1, <2>2, <2>3, <2>4, <2>5, <2>6, KeptStep
<1>7. ASSUME RepairFails(c) PROVE StepOK(c)
  <2>1. /\ pc[c] \in {"repCopy", "repIndex", "repPlan", "repRefresh", "repVerify"}
        /\ pc[c] \in Locked
        /\ pc'[c] = "err" /\ Moves(c, Locked)
    BY <1>7, GotoInside DEF RepairFails, Locked, Labels
  <2>2. JobKept(c)
    BY <1>7, JobSame DEF RepairFails
  <2>3. DocsKept(c)
    BY <1>7, MarkKept, JobTyped DEF RepairFails, Status
  <2>4. StagingKept
    BY <1>7, StagingSame DEF RepairFails
  <2>5. RestOK /\ lock' = lock
    BY <1>7 DEF RepairFails, RestOK, TypeOK, Journal, Ops, JournalStates
  <2>6. Relies(c)'
    BY <2>1, <2>2, <2>3, <2>4, KeepsRelies
       DEF StagedLabels, BaseLabels, UpdateLabels, UsesIndex
  <2> QED BY <2>1, <2>2, <2>3, <2>4, <2>5, <2>6, KeptStep
<1> QED
  BY <1>1, <1>2, <1>3, <1>4, <1>5, <1>6, <1>7

\* Every step of the startup recovery inside the lock keeps it.
LEMMA RecoverKeeps ==
    ASSUME TxInv, NEW c \in Cores,
           \/ PickStaging(c)
           \/ (\E p \in Paths : RestoreBackup(c, p))
           \/ (\E f \in {"spec", "index"} : RestoreDoc(c, f))
           \/ DropStaging(c)
           \/ RestoreDone(c)
           \/ RecoverVerify(c)
           \/ RecoverDone(c)
    PROVE  StepOK(c)
<1> USE DEF At, disk
<1> TypeOK
  BY DEF TxInv
<1>1. ASSUME PickStaging(c) PROVE StepOK(c)
  <2>1. /\ pc[c] = "recRestore" /\ pc[c] \in Locked
        /\ pc'[c] = "recRestore" /\ Moves(c, Locked)
    BY <1>1, StayInside DEF PickStaging, Locked, Labels
  <2>2. PICK tx \in TxIds : staging[tx] # Absent /\ SetJob(c, "tx", tx)
    BY <1>1 DEF PickStaging
  <2>3. JobOK(c) /\ job'[c].op = job[c].op /\ job'[c].tx = tx
    BY <2>2, JobTx
  <2>4. DocsKept(c) /\ StagingKept /\ staging' = staging
    BY <1>1, DocsSame, StagingSame DEF PickStaging
  <2>5. RestOK /\ lock' = lock
    BY <1>1 DEF PickStaging, RestOK, TypeOK
  <2>6. Relies(c)'
    BY <2>1, <2>2, <2>3, <2>4
       DEF Relies, UsesStaging, UsesIndex, UpdateLabels, StagedLabels, BaseLabels, DocsKept
  <2> QED BY <2>1, <2>3, <2>4, <2>5, <2>6, InsideStep DEF DocsKept, StagingKept
<1>2. ASSUME NEW p \in Paths, RestoreBackup(c, p) PROVE StepOK(c)
  <2>a. /\ job[c].tx \in TxIds /\ staging[job[c].tx] # Absent
        /\ staging[job[c].tx].backups[p] \in Slot \cup {UserFile}
    BY <1>2, JobTyped DEF RestoreBackup, TxInv, TypeOK, Relies, Stage
  <2>1. /\ pc[c] = "recRestore" /\ pc[c] \in Locked
        /\ pc'[c] = "recRestore" /\ Moves(c, Locked)
    BY <1>2, StayInside DEF RestoreBackup, Locked, Labels
  <2>2. JobKept(c)
    BY <1>2, JobSame DEF RestoreBackup
  <2>3. DocsKept(c)
    BY <1>2, DocsSame DEF RestoreBackup
  <2>4. StagingKept
    BY <1>2, <2>a, StagingSame, StageBackupKept DEF RestoreBackup, Slot
  <2>5. RestOK /\ lock' = lock
    BY <1>2, <2>a DEF RestoreBackup, RestOK, TypeOK, Slot
  <2>6. Relies(c)'
    BY <2>a, <2>1, <2>2, <2>3, <2>4
       DEF Relies, UsesStaging, UsesIndex, UpdateLabels, StagedLabels, BaseLabels, JobKept,
           DocsKept, StagingKept
  <2> QED BY <2>1, <2>2, <2>3, <2>4, <2>5, <2>6, KeptStep
<1>3. ASSUME NEW f \in {"spec", "index"}, RestoreDoc(c, f) PROVE StepOK(c)
  <2> DEFINE w == [file |-> f, val |-> staging[job[c].tx].prev[f], tx |-> job[c].tx]
  <2>a. job[c].tx \in TxIds /\ staging[job[c].tx] # Absent
    BY <1>3, JobTyped DEF RestoreDoc, TxInv, Relies
  <2>b. staging[job[c].tx] \in Stage
    BY <2>a DEF TypeOK
  <2>c. staging[job[c].tx].prev[f] \in DocType[f]
    BY <2>b DEF Stage, DocType
  <2>1. /\ pc[c] = "recRestore" /\ pc[c] \in Locked
        /\ pc'[c] = "recRestore" /\ Moves(c, Locked)
    BY <1>3, StayInside DEF RestoreDoc, Locked, Labels
  <2>2. JobKept(c)
    BY <1>3, JobSame DEF RestoreDoc
  <2>3. w \in Write(f) /\ w.file = f /\ w.tx = job[c].tx
    BY <2>a, <2>c DEF Write, DocNames
  <2>4. doc' = [doc EXCEPT ![f] = Absent] /\ pending' = [pending EXCEPT ![c] = w]
    BY <1>3 DEF RestoreDoc
  <2> HIDE DEF w
  <2>5. /\ DocsOK' /\ pending'[c] = w
        /\ \A d \in Cores \ {c} : pending'[d] = pending[d]
    BY <2>3, <2>4 DEF TypeOK, DocsOK, DocType, DocNames
  <2>6. StagingKept
    BY <1>3, StagingSame DEF RestoreDoc
  <2>7. RestOK /\ lock' = lock
    BY <1>3 DEF RestoreDoc, RestOK, TypeOK
  <2>8. Relies(c)'
    BY <2>a, <2>1, <2>2, <2>3, <2>5, <2>6
       DEF Relies, UsesStaging, UsesIndex, UpdateLabels, StagedLabels, BaseLabels, JobKept,
           StagingKept
  <2> QED BY <2>1, <2>2, <2>5, <2>6, <2>7, <2>8, InsideStep DEF JobKept, StagingKept
<1>4. ASSUME DropStaging(c) PROVE StepOK(c)
  <2>1. /\ pc[c] = "recRestore" /\ pc[c] \in Locked
        /\ pc'[c] = "recRestore" /\ Moves(c, Locked)
    BY <1>4, StayInside DEF DropStaging, Locked, Labels
  <2>2. JobOK(c) /\ job'[c].op = job[c].op /\ job'[c].tx = Absent
    BY <1>4, JobTx DEF DropStaging
  <2>3. DocsKept(c)
    BY <1>4, DocsSame DEF DropStaging
  <2>4. StagingOK
    BY <1>4 DEF DropStaging, StagingOK, TypeOK
  <2>5. RestOK /\ lock' = lock
    BY <1>4 DEF DropStaging, RestOK, TypeOK
  <2>6. Relies(c)'
    BY <2>1, <2>2, <2>3
       DEF Relies, UsesStaging, UsesIndex, UpdateLabels, StagedLabels, BaseLabels, DocsKept
  <2> QED BY <2>1, <2>2, <2>3, <2>4, <2>5, <2>6, InsideStep DEF DocsKept
<1>5. ASSUME RestoreDone(c) PROVE StepOK(c)
  <2>1. /\ pc[c] = "recRestore" /\ pc[c] \in Locked
        /\ pc'[c] = "recVerify" /\ Moves(c, Locked)
    BY <1>5, GotoInside DEF RestoreDone, Locked, Labels
  <2>2. JobKept(c) /\ DocsKept(c) /\ StagingKept
    BY <1>5, JobSame, DocsSame, StagingSame DEF RestoreDone
  <2>3. RestOK /\ lock' = lock
    BY <1>5 DEF RestoreDone, RestOK, TypeOK
  <2>4. Relies(c)'
    BY <2>1, <2>2, KeepsRelies DEF StagedLabels, BaseLabels, UpdateLabels, UsesIndex
  <2> QED BY <2>1, <2>2, <2>3, <2>4, KeptStep
<1>6. ASSUME RecoverVerify(c) PROVE StepOK(c)
  <2>1. /\ pc[c] = "recVerify" /\ pc[c] \in Locked
        /\ pc'[c] = "recDone" /\ Moves(c, Locked)
    BY <1>6, GotoInside DEF RecoverVerify, Locked, Labels
  <2>2. JobKept(c) /\ StagingKept
    BY <1>6, JobSame, StagingSame DEF RecoverVerify
  <2>3. DocsKept(c)
    BY <1>6, SpecTyped, MarkKept DEF RecoverVerify, Status
  <2>4. RestOK /\ lock' = lock
    BY <1>6 DEF RecoverVerify, RestOK, TypeOK
  <2>5. Relies(c)'
    BY <2>1, <2>2, <2>3, KeepsRelies DEF StagedLabels, BaseLabels, UpdateLabels, UsesIndex
  <2> QED BY <2>1, <2>2, <2>3, <2>4, <2>5, KeptStep
<1>7. ASSUME RecoverDone(c) PROVE StepOK(c)
  <2>1. /\ pc[c] = "recDone" /\ pc[c] \in Locked
        /\ pc'[c] = "release" /\ Moves(c, Locked)
    BY <1>7, GotoInside DEF RecoverDone, Locked, Labels
  <2>2. JobKept(c) /\ DocsKept(c) /\ StagingKept
    BY <1>7, JobSame, DocsSame, StagingSame DEF RecoverDone
  <2>3. RestOK /\ lock' = lock
    BY <1>7 DEF RecoverDone, RestOK, TypeOK
  <2>4. Relies(c)'
    BY <2>1, <2>2, KeepsRelies DEF StagedLabels, BaseLabels, UpdateLabels, UsesIndex
  <2> QED BY <2>1, <2>2, <2>3, <2>4, KeptStep
<1> QED BY <1>1, <1>2, <1>3, <1>4, <1>5, <1>6, <1>7

\* So do the steps that make or remove a staging directory and the rename that ends a
\* document's replacement.
LEMMA BoundaryKeeps ==
    ASSUME TxInv, NEW c \in Cores, ApplyBegin(c) \/ CleanStaging(c) \/ Rename(c)
    PROVE  StepOK(c)
<1> USE DEF At, disk
<1> TypeOK
  BY DEF TxInv
<1>1. ASSUME ApplyBegin(c) PROVE StepOK(c)
  <2>1. /\ pc[c] = "updCheck" /\ pc[c] \in Locked
        /\ pc'[c] = "updMkdir" /\ Moves(c, Locked)
    BY <1>1, GotoInside DEF ApplyBegin, Locked, Labels
  <2>2. PICK tx \in TxIds : SetJob(c, "tx", tx)
    BY <1>1 DEF ApplyBegin
  <2>3. JobOK(c) /\ job'[c].op = job[c].op /\ job'[c].tx = tx /\ tx # Absent
    BY <2>2, JobTx, MarkerAssumption DEF MarkerAssumption
  <2>4. DocsKept(c)
    BY <1>1, MarkKept, JobTyped DEF ApplyBegin, Status
  <2>5. StagingOK
    BY <1>1 DEF ApplyBegin, StagingOK, TypeOK
  <2>6. prior' \in Prior
    BY <1>1, JobTyped, SelectionsTyped DEF ApplyBegin, TypeOK, Prior
  <2>7. RestOK /\ lock' = lock
    BY <1>1, <2>6 DEF ApplyBegin, RestOK, TypeOK, Journal, Ops, JournalStates
  <2>8. Relies(c)'
    BY <2>1, <2>3, <2>4
       DEF TxInv, Relies, UsesStaging, UsesIndex, UpdateLabels, StagedLabels, BaseLabels,
           DocsKept
  <2> QED BY <2>1, <2>3, <2>4, <2>5, <2>7, <2>8, InsideStep DEF DocsKept
<1>2. ASSUME CleanStaging(c) PROVE StepOK(c)
  <2>a. job[c].tx \in TxIds /\ staging[job[c].tx] # Absent /\ staging[job[c].tx] \in Stage
    BY <1>2, StagingThere DEF CleanStaging, StagedLabels
  <2>1. JobKept(c) /\ DocsKept(c)
    BY <1>2, JobSame, DocsSame DEF CleanStaging
  <2>2. RestOK /\ lock' = lock
    BY <1>2 DEF CleanStaging, RestOK, TypeOK
  <2>3. CASE pc' = pc
    <3>1. /\ pc[c] = "updClean" /\ pc[c] \in Locked
          /\ pc'[c] = "updClean" /\ Moves(c, Locked)
      BY <1>2, <2>3, StayInside DEF CleanStaging, Locked, Labels
    <3>2. \/ \E f \in {"spec", "index"} :
               staging' = [staging EXCEPT ![job[c].tx].prev[f] = Absent]
          \/ \E p \in Paths : staging' = [staging EXCEPT ![job[c].tx].backups[p] = Absent]
      <4>1. ~Goto(c, "updDone")
        BY <3>1, GotoInside DEF Locked, Labels
      <4> QED BY <1>2, <4>1 DEF CleanStaging
    <3>3. StagingKept
      BY <2>a, <3>2, StagePrevKept, StageBackupKept DEF Slot, DocType
    <3>4. Relies(c)'
      BY <2>1, <3>1, <3>3, KeepsRelies DEF StagedLabels, BaseLabels, UpdateLabels, UsesIndex
    <3> QED BY <2>1, <2>2, <3>1, <3>3, <3>4, KeptStep
  <2>4. CASE Goto(c, "updDone") /\ staging' = [staging EXCEPT ![job[c].tx] = Absent]
    <3>1. /\ pc[c] = "updClean" /\ pc[c] \in Locked
          /\ pc'[c] = "updDone" /\ Moves(c, Locked)
      BY <1>2, <2>4, GotoInside DEF CleanStaging, Locked, Labels
    <3>2. StagingOK
      BY <2>4 DEF StagingOK, TypeOK
    <3>3. Relies(c)'
      BY <2>1, <3>1
         DEF Relies, UsesStaging, UsesIndex, UpdateLabels, StagedLabels, BaseLabels, DocsKept
    <3> QED BY <2>1, <2>2, <3>1, <3>2, <3>3, InsideStep DEF JobKept, DocsKept
  <2> QED BY <1>2, <2>3, <2>4 DEF CleanStaging
<1>3. ASSUME Rename(c) PROVE StepOK(c)
  <2> DEFINE w == pending[c]
  <2>a. w # NoWrite /\ w \in Write(w.file)
    BY <1>3 DEF Rename, TypeOK
  <2>b. w.file \in DocNames /\ w.val \in DocType[w.file] /\ w.tx \in TxIds \cup {Absent}
    BY <2>a DEF Write
  <2>1. pc[c] \in Locked /\ pc'[c] = pc[c] /\ Moves(c, Locked)
    BY <1>3, <2>a, StayInside DEF Rename, TxInv, LockOwner
  <2>2. JobKept(c)
    BY <1>3, JobSame DEF Rename
  <2>3. doc' = [doc EXCEPT ![w.file] = w.val] /\ pending' = [pending EXCEPT ![c] = NoWrite]
    BY <1>3 DEF Rename
  <2>4. w.tx # Absent => /\ w.file \in {"spec", "index"} /\ pc[c] = "recRestore"
                         /\ staging[w.tx] # Absent
    BY DEF TxInv, Relies
  <2>5. /\ w.tx = Absent => staging' = staging
        /\ w.tx # Absent => staging' = [staging EXCEPT ![w.tx].prev[w.file] = Absent]
    BY <1>3 DEF Rename
  <2> HIDE DEF w
  <2>6. DocsKept(c)
    BY <2>b, <2>3 DEF TypeOK, DocsKept, DocsOK, NoWrite
  <2>7. StagingKept
    <3>1. CASE w.tx = Absent
      BY <2>5, <3>1, StagingSame
    <3>2. CASE w.tx # Absent
      BY <2>b, <2>4, <2>5, <3>2, StagePrevKept DEF DocType
    <3> QED BY <3>1, <3>2
  <2>8. RestOK /\ lock' = lock
    BY <1>3 DEF Rename, RestOK, TypeOK
  <2>9. ~UsesIndex(c)
    BY <2>a DEF TxInv, Relies, w
  <2>10. Relies(c)'
    BY <2>1, <2>2, <2>6, <2>7, <2>9
       DEF TxInv, TypeOK, Job, Relies, UsesStaging, UsesIndex, JobKept, DocsKept, StagingKept
  <2> QED BY <2>1, <2>2, <2>6, <2>7, <2>8, <2>10, KeptStep
<1> QED BY <1>1, <1>2, <1>3

\* A core that takes no lock, or has none, changes nothing the others see.
LEMMA OutsideStep ==
    ASSUME TxInv, NEW c \in Cores, pc[c] \notin Locked, lock' = lock,
           UNCHANGED <<disk, avail, prior, pending>>,
           NEW l \in Labels \ Locked, Goto(c, l), JobOK(c), Relies(c)'
    PROVE  StepOK(c)
<1>1. Moves(c, {l})
  BY GotoMoves DEF TxInv
<1>2. lock # c /\ pending[c] = NoWrite
  BY DEF TxInv, LockOwner
<1>3. TypeOK'
  BY <1>1 DEF TxInv, TypeOK, Moves, JobOK, disk
<1> QED BY <1>1, <1>2, <1>3 DEF StepOK, Moves, JobOK, disk

\* The steps before the lock is taken keep the invariant.
LEMMA RequestKeeps ==
    ASSUME TxInv, NEW c \in Cores,
           \/ (\E sel \in Selections : PlanRead(c, sel)) \/ PlanDiff(c) \/ ApplyGet(c)
           \/ InstallRead(c) \/ RepairRead(c) \/ Start(c)
    PROVE  StepOK(c)
<1> USE DEF At, UpdateLabels, StagedLabels, BaseLabels
<1> TypeOK
  BY DEF TxInv
<1>a. {"idle", "planDiff", "planned", "updLock", "insLock", "repLock", "recLock"}
        \subseteq Labels \ Locked
  BY DEF Locked, Labels
<1>b. pc[c] \in {"idle", "planDiff", "planned", "down"} => pc[c] \notin Locked
  BY DEF Locked
<1>c. pc[c] \notin Locked => pending[c].tx = Absent
  BY DEF TxInv, LockOwner, NoWrite
<1>1. ASSUME NEW sel \in Selections, PlanRead(c, sel) PROVE StepOK(c)
  <2> DEFINE plan == [NoPlan EXCEPT !.from = doc["spec"], !.to = avail,
                                    !.sel = sel, !.expected = CurrentSelections]
             j == [NoJob EXCEPT !.op = "update", !.inst = doc["spec"], !.plan = plan]
  <2>1. doc["spec"] \in Revisions /\ avail \in Revisions /\ CurrentSelections \in Selections
    BY <1>1, SpecTyped, SelectionsTyped DEF PlanRead, TypeOK
  <2>2. plan \in Plan
    BY <2>1, EmptyTyped DEF Plan
  <2> HIDE DEF plan
  <2>3. j \in Job /\ j.op = "update"
    BY <2>1, <2>2, EmptyTyped DEF Job, Ops
  <2>4. JobOK(c) /\ job'[c] = j
    BY <1>1, <2>3, JobReset DEF PlanRead, plan
  <2>5. pc'[c] = "planDiff"
    BY <1>1, <1>a, GotoMoves DEF PlanRead, Moves
  <2>6. Relies(c)'
    BY <1>1, <1>b, <1>c, <2>3, <2>4, <2>5 DEF PlanRead, Relies, UsesStaging, UsesIndex
  <2> QED BY <1>1, <1>a, <1>b, <2>4, <2>6, OutsideStep DEF PlanRead
<1>2. ASSUME PlanDiff(c) PROVE StepOK(c)
  <2>1. CASE IndexReadable
    <3> DEFINE want == Desired[job[c].plan.to, job[c].plan.sel]
               have == doc["index"].files
               D == {p \in Paths : want[p] # Absent /\ have[p] = Absent}
               R == {p \in Paths : want[p] # Absent /\ have[p] # Absent /\ have[p] # want[p]}
               M == {p \in Paths : want[p] = Absent /\ have[p] # Absent}
               b == BaseOf[job[c].plan.from] # BaseOf[job[c].plan.to]
               plan == [job[c].plan EXCEPT !.downloads = D, !.replacements = R,
                                           !.removals = M, !.rebase = b]
    <3>1. SetJob(c, "plan", plan) /\ Goto(c, "planned")
      BY <1>2, <2>1 DEF PlanDiff
    <3>2. D \in SUBSET Paths /\ R \in SUBSET Paths /\ M \in SUBSET Paths /\ b \in BOOLEAN
      OBVIOUS
    <3> HIDE DEF D, R, M, b
    <3>3. plan \in Plan
      BY <3>2, JobTyped DEF Plan
    <3> HIDE DEF plan
    <3>4. JobKept(c)
      BY <3>1, <3>3, JobPlan
    <3>5. pc[c] = "planDiff" /\ pc'[c] = "planned"
      BY <1>2, <1>a, <3>1, GotoMoves DEF PlanDiff, Moves
    <3>6. Relies(c)'
      BY <1>2, <1>b, <1>c, <3>4, <3>5
         DEF PlanDiff, TxInv, Relies, UsesStaging, UsesIndex, JobKept
    <3> QED BY <1>2, <1>a, <1>b, <3>1, <3>4, <3>6, OutsideStep DEF PlanDiff, JobKept
  <2>2. CASE ~IndexReadable
    <3>1. JobOK(c) /\ Goto(c, "idle")
      BY <1>2, <2>2, EmptyTyped, JobReset DEF PlanDiff
    <3>2. pc'[c] = "idle"
      BY <1>a, <3>1, GotoMoves DEF Moves
    <3>3. Relies(c)'
      BY <1>2, <1>b, <1>c, <3>2 DEF PlanDiff, Relies, UsesStaging, UsesIndex
    <3> QED BY <1>2, <1>a, <1>b, <3>1, <3>3, OutsideStep DEF PlanDiff
  <2> QED BY <2>1, <2>2
<1>3. ASSUME ApplyGet(c) PROVE StepOK(c)
  <2>1. CASE SpecReadable
    <3>1. SetJob(c, "inst", doc["spec"]) /\ Goto(c, "updLock") /\ doc["spec"] \in Revisions
      BY <1>3, <2>1, SpecTyped DEF ApplyGet
    <3>2. JobKept(c)
      BY <1>a, <3>1, JobInst
    <3>3. pc[c] = "planned" /\ pc'[c] = "updLock"
      BY <1>3, <1>a, <3>1, GotoMoves DEF ApplyGet, Moves
    <3>4. Relies(c)'
      BY <1>3, <1>b, <1>c, <3>2, <3>3
         DEF ApplyGet, TxInv, Relies, UsesStaging, UsesIndex, JobKept
    <3> QED BY <1>3, <1>a, <1>b, <3>1, <3>2, <3>4, OutsideStep DEF ApplyGet, JobKept
  <2>2. CASE ~SpecReadable
    <3>1. JobOK(c) /\ Goto(c, "idle")
      BY <1>3, <2>2, EmptyTyped, JobReset DEF ApplyGet
    <3>2. pc'[c] = "idle"
      BY <1>a, <3>1, GotoMoves DEF Moves
    <3>3. Relies(c)'
      BY <1>3, <1>b, <1>c, <3>2 DEF ApplyGet, Relies, UsesStaging, UsesIndex
    <3> QED BY <1>3, <1>a, <1>b, <3>1, <3>3, OutsideStep DEF ApplyGet
  <2> QED BY <2>1, <2>2
<1>4. ASSUME InstallRead(c) PROVE StepOK(c)
  <2> DEFINE j == [NoJob EXCEPT !.op = "install", !.inst = doc["spec"], !.plan.to = avail]
  <2>1. doc["spec"] \in Revisions /\ avail \in Revisions
    BY <1>4, SpecTyped DEF InstallRead, TypeOK
  <2>2. j \in Job /\ j.op = "install"
    BY <2>1, EmptyTyped DEF Job, Plan, Ops
  <2>3. JobOK(c) /\ job'[c] = j
    BY <1>4, <2>2, JobReset DEF InstallRead
  <2>4. pc'[c] = "insLock"
    BY <1>4, <1>a, GotoMoves DEF InstallRead, Moves
  <2>5. Relies(c)'
    BY <1>4, <1>b, <1>c, <2>2, <2>3, <2>4 DEF InstallRead, Relies, UsesStaging, UsesIndex
  <2> QED BY <1>4, <1>a, <1>b, <2>3, <2>5, OutsideStep DEF InstallRead
<1>5. ASSUME RepairRead(c) PROVE StepOK(c)
  <2> DEFINE j == [NoJob EXCEPT !.op = "repair", !.inst = doc["spec"]]
  <2>1. j \in Job /\ j.op = "repair"
    BY <1>5, SpecTyped, EmptyTyped DEF RepairRead, Job, Ops
  <2>2. JobOK(c) /\ job'[c] = j
    BY <1>5, <2>1, JobReset DEF RepairRead
  <2>3. pc'[c] = "repLock"
    BY <1>5, <1>a, GotoMoves DEF RepairRead, Moves
  <2>4. Relies(c)'
    BY <1>5, <1>b, <1>c, <2>1, <2>2, <2>3 DEF RepairRead, Relies, UsesStaging, UsesIndex
  <2> QED BY <1>5, <1>a, <1>b, <2>2, <2>4, OutsideStep DEF RepairRead
<1>6. ASSUME Start(c) PROVE StepOK(c)
  <2>1. (Goto(c, "recLock") /\ SetJob(c, "op", "recover")) \/ (Goto(c, "idle") /\ job' = job)
    BY <1>6 DEF Start
  <2>2. JobOK(c) /\ job'[c].tx = job[c].tx
    <3> DEFINE j == [job[c] EXCEPT !["op"] = "recover"]
    <3>1. job[c] \in Job /\ job \in [Cores -> Job]
      BY DEF TypeOK
    <3>2. j \in Job /\ j.tx = job[c].tx
      BY <3>1 DEF Job, Ops
    <3>3. CASE SetJob(c, "op", "recover")
      BY <3>2, <3>3, JobReset DEF SetJob
    <3>4. CASE job' = job
      BY <3>1, <3>4 DEF JobOK
    <3> QED BY <2>1, <3>3, <3>4
  <2>3. pc[c] = "down" /\ pc'[c] \in {"recLock", "idle"}
    BY <1>6, <1>a, <2>1, GotoMoves DEF Start, Moves
  <2>4. Relies(c)'
    BY <1>6, <1>b, <1>c, <2>2, <2>3 DEF Start, TxInv, Relies, UsesStaging, UsesIndex
  <2> QED BY <1>6, <1>a, <1>b, <2>1, <2>2, <2>4, OutsideStep DEF Start
<1> QED BY <1>1, <1>2, <1>3, <1>4, <1>5, <1>6

\* Trying the lock takes it, or ends the request.
LEMMA LockKeeps ==
    ASSUME TxInv, NEW c \in Cores,
           ApplyLock(c) \/ InstallLock(c) \/ RepairLock(c) \/ RecoverLock(c)
    PROVE  StepOK(c)
<1> USE DEF At, disk, UpdateLabels, StagedLabels, BaseLabels
<1> TypeOK
  BY DEF TxInv
<1>1. PICK from \in {"updLock", "insLock", "repLock", "recLock"},
           to \in {"updCheck", "base", "repIndex", "recRestore"} :
         /\ TryLock(c, from, to)
         /\ from = "updLock" <=> to = "updCheck"
         /\ from = "insLock" <=> to = "base"
         /\ from = "repLock" <=> to = "repIndex"
         /\ from = "recLock" <=> to = "recRestore"
  BY DEF ApplyLock, InstallLock, RepairLock, RecoverLock
<1>2. /\ pc[c] = from /\ pc[c] \notin Locked /\ to \in Locked /\ to \in Labels
      /\ "idle" \in Labels \ Locked
  BY <1>1 DEF TryLock, Locked, Labels
<1>3. lock # c /\ pending[c] = NoWrite /\ pending[c].tx = Absent
  BY <1>1, <1>2 DEF TryLock, TxInv, LockOwner, NoWrite
<1>4. CASE lock = NoCore /\ lock' = c /\ Goto(c, to) /\ job' = job
  <2>1. Moves(c, {to})
    BY <1>2, <1>4, GotoMoves
  <2>2. TypeOK'
    BY <1>1, <1>4, <2>1 DEF TryLock, TypeOK, Moves
  <2>3. Relies(c)'
    BY <1>1, <1>2, <1>3, <1>4, <2>1 DEF TryLock, TxInv, Relies, UsesStaging, UsesIndex, Moves
  <2>4. \A d \in Cores : d # NoCore
    BY InputAssumption DEF InputAssumption
  <2> QED BY <1>1, <1>2, <1>3, <1>4, <2>1, <2>2, <2>3, <2>4 DEF TryLock, StepOK, Moves
<1>5. CASE lock' = lock /\ Goto(c, "idle") /\ job' = [job EXCEPT ![c] = NoJob]
  <2>1. JobOK(c)
    BY <1>5, EmptyTyped, JobReset
  <2>2. pc'[c] = "idle"
    BY <1>2, <1>5, GotoMoves DEF Moves
  <2>3. Relies(c)'
    BY <1>1, <1>3, <2>2 DEF TryLock, Relies, UsesStaging, UsesIndex
  <2> QED BY <1>1, <1>2, <1>5, <2>1, <2>3, OutsideStep DEF TryLock
<1> QED BY <1>1, <1>4, <1>5 DEF TryLock

\* The core gives the lock back, if it has it, and forgets its locals.
LEMMA LeaveStep ==
    ASSUME TxInv, NEW c \in Cores, NEW l \in {"idle", "down"}, Goto(c, l),
           job' = [job EXCEPT ![c] = NoJob],
           DOMAIN pending' = Cores, pending'[c] = NoWrite,
           \A d \in Cores \ {c} : pending'[d] = pending[d],
           lock' = IF lock = c THEN NoCore ELSE lock,
           UNCHANGED <<doc, staging>>, RestOK
    PROVE  StepOK(c)
<1> TypeOK
  BY DEF TxInv
<1>1. l \in Labels /\ l \notin Locked /\ \A d \in Cores : d # NoCore
  BY InputAssumption DEF Labels, Locked, InputAssumption
<1>2. Moves(c, {l}) /\ JobOK(c) /\ job'[c] = NoJob
  BY <1>1, GotoMoves, JobReset, EmptyTyped
<1>3. NoWrite.tx = Absent /\ NoJob.tx = Absent
  BY DEF NoWrite, NoJob
<1>4. TypeOK'
  BY <1>2 DEF TypeOK, Moves, JobOK, RestOK
<1>5. Relies(c)'
  BY <1>2, <1>3
     DEF Relies, UsesStaging, UsesIndex, UpdateLabels, StagedLabels, BaseLabels, Moves
<1> QED BY <1>1, <1>2, <1>3, <1>4, <1>5 DEF StepOK, Moves, JobOK

\* The end of an operation, a failed startup and a crash keep the invariant.
LEMMA LeaveKeeps ==
    ASSUME TxInv, NEW c \in Cores, Release(c) \/ RecoverFails(c) \/ Crash(c)
    PROVE  StepOK(c)
<1> USE DEF At, disk
<1> TypeOK
  BY DEF TxInv
<1>1. DOMAIN pending = Cores
  BY DEF TypeOK
<1>2. ASSUME Release(c) PROVE StepOK(c)
  <2>1. At(c, pc[c]) /\ pc[c] \in Locked
    BY <1>2 DEF Release, Locked, Labels
  <2>2. lock = c /\ lock' = NoCore
    BY <1>2, <2>1, InsideOwns DEF Release
  <2>3. journal' \in Ops \X JournalStates
    BY <1>2, JobTyped DEF Release, Journal, TypeOK, JournalStates, Why
  <2>4. RestOK
    BY <1>2, <2>3, EmptyTyped DEF Release, RestOK, TypeOK
  <2> QED BY <1>1, <1>2, <2>1, <2>2, <2>4, LeaveStep DEF Release
<1>3. ASSUME RecoverFails(c) PROVE StepOK(c)
  <2>1. At(c, pc[c]) /\ pc[c] \in Locked
    BY <1>3 DEF RecoverFails, Locked, Labels
  <2>2. lock = c /\ lock' = NoCore
    BY <1>3, <2>1, InsideOwns DEF RecoverFails
  <2>3. RestOK
    BY <1>3 DEF RecoverFails, RestOK, TypeOK
  <2> QED BY <1>1, <1>3, <2>1, <2>2, <2>3, LeaveStep DEF RecoverFails
<1>4. ASSUME Crash(c) PROVE StepOK(c)
  <2>1. RestOK /\ Goto(c, "down")
    BY <1>4 DEF Crash, RestOK, TypeOK, Goto
  <2>2. /\ DOMAIN pending' = Cores /\ pending'[c] = NoWrite
        /\ \A d \in Cores \ {c} : pending'[d] = pending[d]
    BY <1>1, <1>4 DEF Crash
  <2>3. UNCHANGED <<doc, staging>>
    BY <1>4 DEF Crash
  <2> QED BY <1>4, <2>1, <2>2, <2>3, LeaveStep DEF Crash
<1> QED BY <1>2, <1>3, <1>4

\* A step of one core that keeps the invariant for itself keeps it for all.
LEMMA Frame ==
    ASSUME TxInv, NEW c \in Cores, StepOK(c)
    PROVE  TxInv'
<1>1. ASSUME NEW d \in Cores \ {c} PROVE Relies(d)'
  <2>1. pc'[d] = pc[d] /\ job'[d] = job[d] /\ pending'[d] = pending[d]
    BY DEF StepOK
  <2>2. CASE pc[d] \in Locked
    <3>1. lock # c
      BY <2>2, InsideOwns
    <3>2. UNCHANGED <<doc, staging>>
      BY <3>1 DEF StepOK
    <3> QED BY <2>1, <3>2 DEF TxInv, Relies, UsesStaging, UsesIndex, IndexReadable
  <2>3. CASE pc[d] \notin Locked
    <3>1. ~UsesStaging(d)' /\ ~UsesIndex(d)' /\ pc'[d] # "recRestore"
      BY <2>1, <2>3
         DEF TxInv, TypeOK, UsesStaging, UsesIndex, Locked, StagedLabels, BaseLabels
    <3> QED BY <2>1, <3>1 DEF TxInv, Relies
  <2> QED BY <2>2, <2>3
<1>2. LockOwner'
  BY DEF TxInv, LockOwner, StepOK
<1> QED BY <1>1, <1>2 DEF TxInv, StepOK

\* A synchronization, a user's file and damage to a file touch nothing a core relies on.
LEMMA EnvironmentKeeps ==
    ASSUME TxInv, SyncDefinition \/ (\E p \in Paths : AddUserFile(p)) \/ Tamper
    PROVE  TxInv'
<1> USE DEF disk
<1>1. UNCHANGED <<doc, staging, journal, prior, lock, pc, job, pending>>
  BY DEF SyncDefinition, AddUserFile, Tamper
<1>2. avail' \in Revisions
  BY InputAssumption
     DEF SyncDefinition, AddUserFile, Tamper, TxInv, TypeOK, Revisions, InputAssumption
<1>3. files' \in [Paths -> Slot \cup {UserFile}] /\ natives' \in Bases \cup {Absent}
  BY DEF SyncDefinition, AddUserFile, Tamper, TxInv, TypeOK
<1>4. TypeOK' /\ LockOwner'
  BY <1>1, <1>2, <1>3 DEF TxInv, TypeOK, LockOwner
<1>5. ASSUME NEW c \in Cores PROVE Relies(c)'
  BY <1>1 DEF TxInv, Relies, UsesStaging, UsesIndex, IndexReadable
<1> QED BY <1>4, <1>5 DEF TxInv

\* Initially nobody is inside and nothing is relied on.
LEMMA InitHolds == Init => TxInv
<1> SUFFICES ASSUME Init PROVE TxInv
  OBVIOUS
<1>1. TypeOK
  <2>1. DOMAIN doc = DocNames /\ \A f \in DocNames : doc[f] \in DocType[f]
    BY InputAssumption DEF Init, DocNames, DocType, Revisions, InputAssumption
  <2> QED BY <2>1, EmptyTyped, InputAssumption
          DEF Init, TypeOK, Ops, JournalStates, Labels, Revisions, InputAssumption
<1>2. LockOwner
  BY InputAssumption DEF Init, LockOwner, Locked, InputAssumption
<1>3. ASSUME NEW c \in Cores PROVE Relies(c)
  BY DEF Init, Relies, UsesStaging, UsesIndex, UpdateLabels, StagedLabels, BaseLabels,
         NoJob, NoWrite
<1> QED BY <1>1, <1>2, <1>3 DEF TxInv

\* Every step of a core keeps the invariant for that core and leaves the others alone.
LEMMA CoreStep ==
    ASSUME TxInv, NEW c \in Cores, Step(c) \/ Fail(c) \/ Request(c) \/ Crash(c)
    PROVE  StepOK(c)
<1>1. CASE Rename(c) \/ Release(c) \/ Crash(c)
  BY <1>1, BoundaryKeeps, LeaveKeeps
<1>2. CASE UpdateStep(c)
  BY <1>2, RequestKeeps, LockKeeps, UpdateKeeps, BoundaryKeeps DEF UpdateStep
<1>3. CASE InstallStep(c)
  BY <1>3, LockKeeps, InstallKeeps DEF InstallStep
<1>4. CASE RepairStep(c)
  BY <1>4, LockKeeps, RepairKeeps DEF RepairStep
<1>5. CASE RecoverStep(c)
  BY <1>5, RequestKeeps, LockKeeps, RecoverKeeps, LeaveKeeps DEF RecoverStep
<1>6. CASE Fail(c)
  BY <1>6, UpdateKeeps, InstallKeeps, RepairKeeps DEF Fail
<1>7. CASE Request(c)
  BY <1>7, RequestKeeps DEF Request
<1> QED BY <1>1, <1>2, <1>3, <1>4, <1>5, <1>6, <1>7 DEF Step

\* Every step keeps the invariant.
LEMMA NextKeeps == TxInv /\ [Next]_vars => TxInv'
<1> SUFFICES ASSUME TxInv, [Next]_vars PROVE TxInv'
  OBVIOUS
<1>1. ASSUME NEW c \in Cores, Step(c) \/ Fail(c) \/ Request(c) \/ Crash(c) PROVE TxInv'
  BY <1>1, CoreStep, Frame
<1>2. CASE UNCHANGED vars
  <2>1. TypeOK' /\ LockOwner'
    BY <1>2 DEF TxInv, TypeOK, LockOwner, vars
  <2>2. ASSUME NEW c \in Cores PROVE Relies(c)'
    BY <1>2 DEF TxInv, Relies, UsesStaging, UsesIndex, IndexReadable, vars
  <2> QED BY <2>1, <2>2 DEF TxInv
<1> QED BY <1>1, <1>2, EnvironmentKeeps DEF Next

(***************************************************************************)
(* The theorems.                                                           *)
(***************************************************************************)
\* The inductive invariant holds in every reachable state.
THEOREM TxInvariant == Spec => []TxInv
BY InitHolds, NextKeeps, PTL DEF Spec

\* Whatever operations, crashes, errors and outside changes come in whatever order, every
\* document, staging directory, plan and rename owed keeps its type: in particular no
\* step of apply_update or recover reads a staging directory or an index that is gone.
THEOREM TransactionTypes == Spec => []TypeOK
BY TxInvariant, PTL DEF TxInv

\* For any number of cores, two transactions never interleave on the instance: a core is
\* between acquiring instance:<id> and dropping its guard exactly while it owns the lock,
\* through every refusal, error arm, rollback and crash.
THEOREM TransactionsExclude == Spec => []LockOwner
BY TxInvariant, PTL DEF TxInv

(***************************************************************************)
(* What a step does to the documents and to the locals of its core.        *)
(***************************************************************************)
\* A document is gone until its rename, the others stay.
LEMMA ReplaceDoes ==
    ASSUME TypeOK, NEW c \in Cores, NEW f \in DocNames, NEW v, Replace(c, f, v)
    PROVE  /\ doc'[f] = Absent /\ \A g \in DocNames \ {f} : doc'[g] = doc[g]
           /\ pending'[c].file = f /\ pending'[c].val = v
BY DEF TypeOK, Replace

LEMMA MarkDoes ==
    ASSUME TypeOK, NEW c \in Cores, NEW s, NEW r, Mark(c, s, r)
    PROVE  /\ doc'["state"] = Absent
           /\ doc'["spec"] = doc["spec"] /\ doc'["index"] = doc["index"]
           /\ doc'["selections"] = doc["selections"]
           /\ pending'[c].file = "state"
           /\ pending'[c].val.status = s /\ pending'[c].val.base = BaseOf[r]
BY ReplaceDoes DEF Mark, DocNames

LEMMA RenameDoes ==
    ASSUME TypeOK, NEW c \in Cores, Rename(c)
    PROVE  /\ pending[c].file \in DocNames
           /\ doc'[pending[c].file] = pending[c].val
           /\ \A g \in DocNames \ {pending[c].file} : doc'[g] = doc[g]
           /\ pending'[c] = NoWrite
           /\ UNCHANGED <<files, natives, avail, prior, lock, pc, job>>
BY DEF TypeOK, Rename, Write

\* A core goes where the action says.
LEMMA GotoDoes == ASSUME TypeOK, NEW c \in Cores, NEW l, Goto(c, l) PROVE pc'[c] = l
BY DEF TypeOK, Goto

\* Recording progress leaves the rest of the locals.
LEMMA TodoDoes ==
    ASSUME TypeOK, NEW c \in Cores, NEW v, SetJob(c, "todo", v)
    PROVE  /\ job'[c].todo = v
           /\ job'[c].op = job[c].op /\ job'[c].inst = job[c].inst /\ job'[c].tx = job[c].tx
           /\ job'[c].plan = job[c].plan /\ job'[c].applied = job[c].applied
BY DEF TypeOK, SetJob, Job

LEMMA AppliedDoes ==
    ASSUME TypeOK, NEW c \in Cores, NEW v, SetJob(c, "applied", v)
    PROVE  /\ job'[c].applied = v
           /\ job'[c].op = job[c].op /\ job'[c].inst = job[c].inst /\ job'[c].tx = job[c].tx
           /\ job'[c].plan = job[c].plan /\ job'[c].todo = job[c].todo
BY DEF TypeOK, SetJob, Job

LEMMA TxDoes ==
    ASSUME TypeOK, NEW c \in Cores, NEW v, SetJob(c, "tx", v)
    PROVE  /\ job'[c].tx = v
           /\ job'[c].op = job[c].op /\ job'[c].inst = job[c].inst
           /\ job'[c].plan = job[c].plan /\ job'[c].applied = job[c].applied
           /\ job'[c].todo = job[c].todo
BY DEF TypeOK, SetJob, Job

LEMMA AppliesDoes ==
    ASSUME TypeOK, NEW c \in Cores, NEW p,
           job' = [job EXCEPT ![c] = Applied(c, p)]
    PROVE  /\ job'[c].todo = job[c].todo \ {p}
           /\ job'[c].applied = job[c].applied \cup {p}
           /\ job'[c].op = job[c].op /\ job'[c].inst = job[c].inst
           /\ job'[c].plan = job[c].plan /\ job'[c].tx = job[c].tx
<1>1. job[c] \in Job /\ job'[c] = Applied(c, p)
  BY DEF TypeOK
<1> HIDE DEF TypeOK
<1> QED BY ONLY <1>1 DEF Job, Applied

LEMMA SelectedDoes ==
    ASSUME TypeOK, NEW c \in Cores, NEW sel \in Selections,
           job' = [job EXCEPT ![c] = Selected(c, sel)]
    PROVE  /\ job'[c].inst = job[c].inst /\ job'[c].op = job[c].op
           /\ job'[c].plan.to = job[c].plan.to /\ job'[c].plan.sel = sel
<1>1. job[c] \in Job /\ job'[c] = Selected(c, sel) /\ job[c].plan \in Plan
  BY DEF TypeOK, Job
<1> QED BY ONLY <1>1 DEF Job, Plan, Selected

(***************************************************************************)
(* Toggles.  From the comparison under the lock to the commit, nothing     *)
(* writes components.json, so the choices compared are the ones replaced.  *)
(***************************************************************************)
\* core c has compared the choices and not yet replaced them
Compared(c) ==
    \/ pc[c] \in {"updMkdir", "saveSpec", "saveIndex", "updStage", "updSpec", "updRemark",
                  "updApplying", "updBackup", "updApply", "updVerify", "updIndex", "updSelect"}
    \/ pc[c] \in BaseLabels /\ job[c].op = "update"

ChoicesHeld(c) ==
    Compared(c) => /\ CurrentSelections = job[c].plan.expected
                   /\ pending[c].file # "selections"

\* Going on under the same plan, with the choices and the rename owed for them unchanged.
LEMMA ChoicesKept ==
    ASSUME TypeOK, NEW c \in Cores, ChoicesHeld(c), Compared(c)' => Compared(c),
           job'[c].plan = job[c].plan, doc'["selections"] = doc["selections"],
           pending'[c].file = "selections" => pending[c].file = "selections"
    PROVE  ChoicesHeld(c)'
BY DEF ChoicesHeld, CurrentSelections

\* The steps of an update that write no document.
LEMMA QuietUpdate ==
    ASSUME TypeOK, NEW c \in Cores,
           \/ MakeStaging(c) \/ SaveSpec(c) \/ SaveIndex(c) \/ CopyFails(c)
           \/ (\E p \in Paths : StageFile(c, p)) \/ StageFails(c) \/ StageDone(c)
           \/ StartApplying(c) \/ CancelBeforeApply(c)
           \/ (\E p \in Paths : BackupFile(c, p)) \/ BackupDone(c)
           \/ (\E p \in Paths : ApplyFile(c, p)) \/ ApplyDone(c)
           \/ VerifyUpdate(c) \/ RollbackApplied(c) \/ RollbackBackups(c)
    PROVE  /\ doc' = doc /\ pending' = pending /\ pending[c] = NoWrite
           /\ job'[c].op = job[c].op /\ job'[c].inst = job[c].inst
           /\ job'[c].plan = job[c].plan /\ job'[c].tx = job[c].tx
           /\ \/ pc'[c] = pc[c]
              \/ pc[c] = "updMkdir" /\ pc'[c] = "saveSpec"
              \/ pc[c] = "saveSpec" /\ pc'[c] \in {"saveIndex", "updFail"}
              \/ pc[c] = "saveIndex" /\ pc'[c] \in {"updStage", "updFail"}
              \/ pc[c] = "updStage" /\ pc'[c] \in {"updSpec", "updApplying", "updFail"}
              \/ pc[c] = "updApplying" /\ pc'[c] = "updBackup"
              \/ pc[c] = "updBackup" /\ pc'[c] \in {"updApply", "updFail"}
              \/ pc[c] = "updApply" /\ pc'[c] \in {"updVerify", "rollApplied"}
              \/ pc[c] = "updVerify" /\ pc'[c] \in {"updIndex", "rollApplied", "updFail"}
              \/ pc[c] = "rollApplied" /\ pc'[c] = "rollBackups"
              \/ pc[c] = "rollBackups" /\ pc'[c] = "updFail"
<1> USE GotoDoes, TodoDoes, AppliedDoes DEF At, disk
<1>1. CASE MakeStaging(c) \/ SaveSpec(c) \/ SaveIndex(c) \/ CopyFails(c)
  BY <1>1 DEF MakeStaging, SaveSpec, SaveIndex, CopyPrevious, CopyFails
<1>2. CASE (\E p \in Paths : StageFile(c, p)) \/ StageFails(c) \/ StageDone(c)
  BY <1>2 DEF StageFile, StageFails, StageDone
<1>3. CASE StartApplying(c) \/ CancelBeforeApply(c) \/ BackupDone(c) \/ ApplyDone(c)
  BY <1>3 DEF StartApplying, CancelBeforeApply, BackupDone, ApplyDone
<1>4. CASE \E p \in Paths : BackupFile(c, p)
  BY <1>4 DEF BackupFile
<1>5. CASE \E p \in Paths : ApplyFile(c, p)
  <2>1. PICK p \in Paths : ApplyFile(c, p)
    BY <1>5
  <2>2. job' = job \/ job' = [job EXCEPT ![c] = Applied(c, p)]
    BY <2>1 DEF ApplyFile
  <2>3. /\ job'[c].op = job[c].op /\ job'[c].inst = job[c].inst
        /\ job'[c].plan = job[c].plan /\ job'[c].tx = job[c].tx
    BY <2>2, AppliesDoes
  <2> QED BY <2>1, <2>3 DEF ApplyFile
<1>6. CASE VerifyUpdate(c)
  BY <1>6 DEF VerifyUpdate
<1>7. CASE RollbackApplied(c) \/ RollbackBackups(c)
  BY <1>7 DEF RollbackApplied, RollbackBackups
<1> QED BY <1>1, <1>2, <1>3, <1>4, <1>5, <1>6, <1>7

\* The steps of the other operations that write no document.
LEMMA QuietOther ==
    ASSUME TypeOK, NEW c \in Cores,
           \/ ApplyRefuse(c) \/ CleanStaging(c)
           \/ BaseFetch(c) \/ NativesOut(c) \/ NativesIn(c) \/ BaseIndexFails(c) \/ BaseEnd(c)
           \/ (\E p \in Paths : InstallFile(c, p)) \/ InstallCopied(c)
           \/ RepairPlan(c) \/ (\E p \in Paths : RepairFile(c, p)) \/ RepairCopied(c)
           \/ PickStaging(c) \/ (\E p \in Paths : RestoreBackup(c, p)) \/ DropStaging(c)
           \/ RestoreDone(c) \/ RecoverDone(c)
    PROVE  /\ doc' = doc /\ pending' = pending /\ pending[c] = NoWrite
           /\ job'[c].op = job[c].op /\ job'[c].inst = job[c].inst /\ job'[c].plan = job[c].plan
           /\ \/ pc'[c] = pc[c] /\ pc[c] \notin {"updCheck", "repPlan"}
              \/ pc[c] = "updCheck" /\ pc'[c] = "release"
              \/ pc[c] = "updClean" /\ pc'[c] = "updDone"
              \/ pc[c] = "baseFetch" /\ pc'[c] = "nativesOut"
              \/ pc[c] = "nativesOut" /\ pc'[c] = "nativesIn"
              \/ pc[c] = "nativesIn" /\ job[c].op = "repair" /\ pc'[c] = "repRefresh"
              \/ pc[c] = "nativesIn" /\ job[c].op # "repair" /\ pc'[c] = "baseIndex"
              \/ pc[c] = "baseIndex" /\ pc'[c] = "release"
              \/ pc[c] = "baseIndex" /\ job[c].op = "update" /\ pc'[c] = "updFail"
              \/ pc[c] = "baseEnd" /\ job[c].op # "update" /\ pc'[c] = "insMark"
              \/ pc[c] = "baseEnd" /\ job[c].op = "update" /\ pc'[c] = "updRemark"
              \/ pc[c] = "insFiles" /\ pc'[c] = "insVerify"
              \/ pc[c] = "repPlan" /\ pc'[c] = "repCopy"
              \/ pc[c] = "repCopy" /\ pc'[c] \in {"nativesOut", "repRefresh"}
              \/ pc[c] = "recRestore" /\ pc'[c] = "recVerify"
              \/ pc[c] = "recDone" /\ pc'[c] = "release"
<1> USE GotoDoes, TodoDoes, TxDoes DEF At, disk
<1>1. CASE ApplyRefuse(c) \/ CleanStaging(c)
  BY <1>1 DEF ApplyRefuse, CleanStaging
<1>2. CASE BaseFetch(c) \/ NativesOut(c) \/ NativesIn(c) \/ BaseIndexFails(c) \/ BaseEnd(c)
  BY <1>2 DEF BaseFetch, NativesOut, NativesIn, BaseIndexFails, BaseEnd
<1>3. CASE (\E p \in Paths : InstallFile(c, p)) \/ InstallCopied(c)
  BY <1>3 DEF InstallFile, InstallCopied, CopyInto
<1>4. CASE RepairPlan(c)
  <2>1. PICK t, r : job' = [job EXCEPT ![c] = [@ EXCEPT !.todo = t, !.reextract = r]]
    BY <1>4 DEF RepairPlan
  <2>2. /\ job'[c].op = job[c].op /\ job'[c].inst = job[c].inst /\ job'[c].plan = job[c].plan
    BY <2>1 DEF TypeOK, Job
  <2> QED BY <1>4, <2>2 DEF RepairPlan
<1>5. CASE (\E p \in Paths : RepairFile(c, p)) \/ RepairCopied(c)
  BY <1>5 DEF RepairFile, RepairCopied, CopyInto
<1>6. CASE \/ PickStaging(c) \/ (\E p \in Paths : RestoreBackup(c, p)) \/ DropStaging(c)
           \/ RestoreDone(c) \/ RecoverDone(c)
  BY <1>6 DEF PickStaging, RestoreBackup, DropStaging, RestoreDone, RecoverDone
<1> QED BY <1>1, <1>2, <1>3, <1>4, <1>5, <1>6

\* A step of a core keeps what it compared.
LEMMA ChoicesStep ==
    ASSUME TxInv, NEW c \in Cores, ChoicesHeld(c),
           Step(c) \/ Fail(c) \/ Request(c) \/ Crash(c)
    PROVE  ChoicesHeld(c)'
<1> TypeOK
  BY DEF TxInv
<1> USE GotoDoes, TxDoes DEF At, disk
<1> "selections" \in DocNames /\ "state" \in DocNames /\ "spec" \in DocNames /\ "index" \in DocNames
  BY DEF DocNames
<1>1. CASE \/ MakeStaging(c) \/ SaveSpec(c) \/ SaveIndex(c) \/ CopyFails(c)
           \/ (\E p \in Paths : StageFile(c, p)) \/ StageFails(c) \/ StageDone(c)
           \/ StartApplying(c) \/ CancelBeforeApply(c)
           \/ (\E p \in Paths : BackupFile(c, p)) \/ BackupDone(c)
           \/ (\E p \in Paths : ApplyFile(c, p)) \/ ApplyDone(c)
           \/ VerifyUpdate(c) \/ RollbackApplied(c) \/ RollbackBackups(c)
  BY <1>1, QuietUpdate, ChoicesKept DEF Compared, BaseLabels
<1>2. CASE \/ ApplyRefuse(c) \/ CleanStaging(c)
           \/ BaseFetch(c) \/ NativesOut(c) \/ NativesIn(c) \/ BaseIndexFails(c) \/ BaseEnd(c)
           \/ (\E p \in Paths : InstallFile(c, p)) \/ InstallCopied(c)
           \/ RepairPlan(c) \/ (\E p \in Paths : RepairFile(c, p)) \/ RepairCopied(c)
           \/ PickStaging(c) \/ (\E p \in Paths : RestoreBackup(c, p)) \/ DropStaging(c)
           \/ RestoreDone(c) \/ RecoverDone(c)
  <2>1. pc[c] = "repCopy" => job[c].op = "repair"
    BY DEF TxInv, Relies
  <2> QED BY <1>2, <2>1, QuietOther, ChoicesKept DEF Compared, BaseLabels
<1>3. CASE ApplyBegin(c)
  BY <1>3, MarkDoes DEF ApplyBegin, PlanIsCurrent, ChoicesHeld, CurrentSelections
<1>4. CASE Rename(c)
  BY <1>4, RenameDoes, ChoicesKept DEF NoWrite, Compared, ChoicesHeld, CurrentSelections
<1>5. CASE RebaseSpec(c) \/ RebaseDone(c) \/ CommitIndex(c)
  BY <1>5, ReplaceDoes, MarkDoes, ChoicesKept
     DEF RebaseSpec, RebaseDone, CommitIndex, Compared, BaseLabels
<1>6. CASE BaseBegin(c) \/ BaseIndex(c) \/ BaseDone(c)
  BY <1>6, ReplaceDoes, MarkDoes, ChoicesKept
     DEF BaseBegin, BaseIndex, BaseDone, Compared, BaseLabels
<1>7. CASE ~Compared(c)'
  BY <1>7 DEF ChoicesHeld
<1>8. CASE \/ UpdateFails(c) \/ CommitSelections(c) \/ CommitSpec(c) \/ UpdateDone(c)
           \/ (\E why \in Why : BaseFails(c, why))
           \/ InstallMark(c) \/ InstallSelect(c) \/ InstallIndex(c) \/ InstallDone(c)
           \/ InstallFails(c) \/ RepairIndex(c) \/ RepairRefresh(c) \/ RepairDone(c)
           \/ RepairFails(c)
  <2>1. ~Compared(c)'
    BY <1>8 DEF UpdateFails, CommitSelections, CommitSpec, UpdateDone, BaseFails, InstallMark,
                InstallSelect, InstallIndex, InstallDone, InstallFails, RepairIndex,
                RepairRefresh, RepairDone, RepairFails, Compared, BaseLabels
  <2> QED BY <1>7, <2>1
<1>9. CASE \/ ApplyLock(c) \/ InstallLock(c) \/ RepairLock(c) \/ RecoverLock(c)
  <2>1. pc[c] = "insLock" => job[c].op = "install"
    BY DEF TxInv, Relies
  <2>2. ~Compared(c)'
    BY <1>9, <2>1
       DEF ApplyLock, InstallLock, RepairLock, RecoverLock, TryLock, Compared, BaseLabels
  <2> QED BY <1>7, <2>2
<1>10. CASE \/ (\E sel \in Selections : PlanRead(c, sel)) \/ PlanDiff(c) \/ ApplyGet(c)
            \/ InstallRead(c) \/ RepairRead(c) \/ Start(c) \/ Release(c) \/ RecoverFails(c)
            \/ RecoverVerify(c) \/ (\E f \in {"spec", "index"} : RestoreDoc(c, f)) \/ Crash(c)
  <2>1. ~Compared(c)'
    BY <1>10, ZenonT(40) DEF PlanRead, PlanDiff, ApplyGet, InstallRead, RepairRead, Start, Release,
                 RecoverFails, RecoverVerify, RestoreDoc, Crash, Compared, BaseLabels, TypeOK
  <2> QED BY <1>7, <2>1
<1> QED BY <1>1, <1>2, <1>3, <1>4, <1>5, <1>6, <1>8, <1>9, <1>10
        DEF Step, Fail, Request, UpdateStep, InstallStep, RepairStep, RecoverStep

\* The choices compared are kept, for every core: whoever compared them has the lock.
LEMMA ChoicesInductive ==
    ASSUME TxInv, \A c \in Cores : ChoicesHeld(c), [Next]_vars
    PROVE  \A c \in Cores : ChoicesHeld(c)'
<1> SUFFICES ASSUME NEW c \in Cores PROVE ChoicesHeld(c)'
  OBVIOUS
<1>1. CASE UNCHANGED <<doc, pc, job, pending>>
  BY <1>1 DEF ChoicesHeld, Compared, CurrentSelections
<1>2. CASE SyncDefinition \/ (\E p \in Paths : AddUserFile(p)) \/ Tamper
  BY <1>1, <1>2 DEF SyncDefinition, AddUserFile, Tamper, disk
<1>3. ASSUME NEW d \in Cores, Step(d) \/ Fail(d) \/ Request(d) \/ Crash(d)
      PROVE  ChoicesHeld(c)'
  <2>1. CASE d = c
    BY <1>3, <2>1, ChoicesStep
  <2>2. CASE d # c
    <3>1. /\ pc'[c] = pc[c] /\ job'[c] = job[c] /\ pending'[c] = pending[c]
          /\ lock = d \/ UNCHANGED <<doc, staging>>
      BY <1>3, <2>2, CoreStep DEF StepOK
    <3>2. Compared(c) => lock = c
      BY DEF TxInv, TypeOK, LockOwner, Compared, Locked, BaseLabels
    <3> QED BY <2>2, <3>1, <3>2 DEF ChoicesHeld, Compared, CurrentSelections
  <2> QED BY <2>1, <2>2
<1> QED BY <1>1, <1>2, <1>3 DEF Next, vars

\* For any number of cores and any faults, a component toggle never overwrites a choice
\* committed after it was planned: apply_update compares components.json again under the
\* lock, and no other transaction writes it before the commit.
THEOREM TogglesNeverLost == Spec => []NoLostToggle
<1>1. Init => \A c \in Cores : ChoicesHeld(c)
  BY DEF Init, ChoicesHeld, Compared, BaseLabels
<1>2. (TxInv /\ \A c \in Cores : ChoicesHeld(c)) /\ [Next]_vars =>
         (\A c \in Cores : ChoicesHeld(c))'
  BY ChoicesInductive
<1>3. (\A c \in Cores : ChoicesHeld(c)) => NoLostToggle
  BY DEF NoLostToggle, At, ChoicesHeld, Compared
<1> QED BY <1>1, <1>2, <1>3, TxInvariant, PTL DEF Spec

(***************************************************************************)
(* The installed version.  A process that works on the instance alone      *)
(* (Alone) replaces instance.json only while install-state.json does not   *)
(* say Installed, and says Installed only of the revision instance.json    *)
(* holds: the handle an installation or a repair read before the lock is   *)
(* still the one on disk.                                                  *)
(***************************************************************************)
\* one core works on the instance
Alone == \E c : Cores = {c}

\* an operation that has begun and is not finished
Unfinished(c) ==
    \/ pc[c] \in {"updMkdir", "saveSpec", "saveIndex", "updStage", "updSpec", "updApplying",
                  "updBackup", "updApply", "updVerify", "updIndex", "updSelect", "updCommit",
                  "updClean", "updDone", "rollApplied", "rollBackups", "updFail",
                  "baseFetch", "baseIndex", "baseDone",
                  "insSelect", "insFiles", "insVerify", "insDone",
                  "recLock", "recRestore", "recVerify"}
    \/ pc[c] = "base" /\ job[c].op = "update"
    \/ pc[c] \in {"nativesOut", "nativesIn"} /\ job[c].op # "repair"

\* install-state.json does not say Installed, nor will the rename owed make it
NotInstalled(c) ==
    /\ ~InStatus("Installed")
    /\ pending[c].file = "state" => pending[c].val.status # "Installed"

\* core c works with the instance handle it read before the lock
KeepsHandle(c) ==
    \/ pc[c] \in {"insLock", "insMark", "insSelect", "insFiles", "insVerify", "insDone",
                  "repLock", "repIndex", "repPlan", "repCopy", "repRefresh", "repVerify"}
    \/ pc[c] \in BaseLabels /\ job[c].op # "update"

\* instance.json holds revision r, or will once the rename owed is done
SpecIs(c, r) == IF pending[c].file = "spec" THEN pending[c].val = r ELSE doc["spec"] = r

VersionHeld(c) ==
    /\ Unfinished(c) => NotInstalled(c)
    /\ KeepsHandle(c) => doc["spec"] = job[c].inst /\ pending[c].file # "spec"
    /\ (pc[c] \in BaseLabels \cup {"updRemark"}) /\ job[c].op = "update" =>
          SpecIs(c, job[c].plan.to)
    /\ SpecReadable /\ InStatus("Installed") => doc["state"].base = BaseOf[doc["spec"]]
    /\ SpecReadable /\ pending[c].file = "state" /\ pending[c].val.status = "Installed" =>
          pending[c].val.base = BaseOf[doc["spec"]]
    /\ pending[c].file = "spec" => ~InStatus("Installed")

\* Nothing written, the same handle and target, and a label that asks for no more.
LEMMA VersionKept ==
    ASSUME NEW c \in Cores, VersionHeld(c), UNCHANGED <<doc, pending>>,
           Unfinished(c)' => Unfinished(c),
           KeepsHandle(c)' => KeepsHandle(c) /\ job'[c].inst = job[c].inst,
           pc'[c] \in BaseLabels \cup {"updRemark"} /\ job'[c].op = "update" =>
              /\ pc[c] \in BaseLabels \cup {"updRemark"} /\ job[c].op = "update"
              /\ job'[c].plan = job[c].plan
    PROVE  VersionHeld(c)'
BY DEF VersionHeld, NotInstalled, SpecIs, InStatus, SpecReadable

\* Marking the state, with the base version of instance.json when it is Installed.
LEMMA MarkVersion ==
    ASSUME TypeOK, NEW c \in Cores, VersionHeld(c), pending[c] = NoWrite,
           NEW s, NEW r, Mark(c, s, r),
           s = "Installed" => ~Unfinished(c)' /\ doc["spec"] = r,
           job'[c].inst = job[c].inst, job'[c].op = job[c].op, job'[c].plan = job[c].plan,
           KeepsHandle(c)' => KeepsHandle(c),
           pc'[c] \in BaseLabels \cup {"updRemark"} => pc[c] \in BaseLabels \cup {"updRemark"}
    PROVE  VersionHeld(c)'
BY MarkDoes DEF VersionHeld, NotInstalled, SpecIs, InStatus, SpecReadable, NoWrite

\* Replacing another document.
LEMMA ReplaceVersion ==
    ASSUME TypeOK, NEW c \in Cores, VersionHeld(c), pending[c] = NoWrite,
           NEW f \in {"index", "selections"}, NEW v, Replace(c, f, v),
           job'[c].inst = job[c].inst, job'[c].op = job[c].op, job'[c].plan.to = job[c].plan.to,
           Unfinished(c)' => Unfinished(c), KeepsHandle(c)' => KeepsHandle(c),
           pc'[c] \in BaseLabels \cup {"updRemark"} => pc[c] \in BaseLabels \cup {"updRemark"}
    PROVE  VersionHeld(c)'
<1>1. /\ doc'["state"] = doc["state"] /\ doc'["spec"] = doc["spec"]
      /\ pending'[c].file = f
  BY ReplaceDoes DEF DocNames
<1> QED BY <1>1 DEF VersionHeld, NotInstalled, SpecIs, InStatus, SpecReadable, NoWrite

\* A step of the core keeps the version.
LEMMA VersionStep ==
    ASSUME TxInv, NEW c \in Cores, VersionHeld(c),
           Step(c) \/ Fail(c) \/ Request(c) \/ Crash(c)
    PROVE  VersionHeld(c)'
<1> TypeOK
  BY DEF TxInv
<1> USE GotoDoes DEF At, disk
<1> "selections" \in DocNames /\ "state" \in DocNames /\ "spec" \in DocNames /\ "index" \in DocNames
  BY DEF DocNames
<1>o. /\ pc[c] \in UpdateLabels => job[c].op = "update"
      /\ pc[c] = "insLock" => job[c].op = "install"
      /\ pc[c] \in {"base", "baseFetch"} => job[c].op \in {"install", "update"}
      /\ pc[c] \in {"repLock", "repIndex", "repPlan", "repCopy"} => job[c].op = "repair"
      /\ job[c].op # "none" => job[c].op \in {"update", "install", "repair", "recover"}
  BY JobTyped DEF TxInv, Relies, Ops
<1>1. CASE \/ MakeStaging(c) \/ SaveSpec(c) \/ SaveIndex(c) \/ CopyFails(c)
           \/ (\E p \in Paths : StageFile(c, p)) \/ StageFails(c) \/ StageDone(c)
           \/ StartApplying(c) \/ CancelBeforeApply(c)
           \/ (\E p \in Paths : BackupFile(c, p)) \/ BackupDone(c)
           \/ (\E p \in Paths : ApplyFile(c, p)) \/ ApplyDone(c)
           \/ VerifyUpdate(c) \/ RollbackApplied(c) \/ RollbackBackups(c)
  BY <1>1, QuietUpdate, VersionKept DEF Unfinished, KeepsHandle, BaseLabels
<1>2. CASE \/ ApplyRefuse(c) \/ CleanStaging(c)
           \/ BaseFetch(c) \/ NativesOut(c) \/ NativesIn(c) \/ BaseIndexFails(c) \/ BaseEnd(c)
           \/ (\E p \in Paths : InstallFile(c, p)) \/ InstallCopied(c)
           \/ RepairPlan(c) \/ (\E p \in Paths : RepairFile(c, p)) \/ RepairCopied(c)
           \/ PickStaging(c) \/ (\E p \in Paths : RestoreBackup(c, p)) \/ DropStaging(c)
           \/ RestoreDone(c) \/ RecoverDone(c)
  BY <1>2, <1>o, QuietOther, VersionKept DEF Unfinished, KeepsHandle, BaseLabels
<1>3. CASE ApplyBegin(c)
  <2>1. pc'[c] = "updMkdir" /\ Mark(c, "Updating", job[c].inst)
    BY <1>3 DEF ApplyBegin
  <2> QED BY <1>3, <2>1, MarkDoes
          DEF ApplyBegin, VersionHeld, NotInstalled, KeepsHandle, InStatus, BaseLabels
<1>4. CASE Rename(c)
  <2>1. pc' = pc /\ job' = job /\ pending'[c] = NoWrite /\ pending'[c].file = "none"
    BY <1>4, RenameDoes DEF NoWrite
  <2>2. (Unfinished(c)' <=> Unfinished(c)) /\ (KeepsHandle(c)' <=> KeepsHandle(c))
    BY <2>1 DEF Unfinished, KeepsHandle
  <2>3. CASE pending[c].file = "spec"
    <3>1. /\ doc'["state"] = doc["state"] /\ doc'["spec"] = pending[c].val
      BY <1>4, <2>3, RenameDoes DEF DocNames
    <3> QED BY <2>1, <2>2, <2>3, <3>1 DEF VersionHeld, NotInstalled, SpecIs, InStatus
  <2>4. CASE pending[c].file = "state"
    <3>1. /\ doc'["state"] = pending[c].val /\ doc'["spec"] = doc["spec"]
      BY <1>4, <2>4, RenameDoes DEF DocNames
    <3> QED BY <2>1, <2>2, <2>4, <3>1
            DEF VersionHeld, NotInstalled, SpecIs, InStatus, SpecReadable
  <2>5. CASE pending[c].file \in {"index", "selections"}
    <3>1. /\ doc'["state"] = doc["state"] /\ doc'["spec"] = doc["spec"]
      BY <1>4, <2>5, RenameDoes DEF DocNames
    <3> QED BY <2>1, <2>2, <2>5, <3>1
            DEF VersionHeld, NotInstalled, SpecIs, InStatus, SpecReadable
  <2> QED BY <1>4, <2>3, <2>4, <2>5, RenameDoes DEF DocNames
<1>5. CASE RebaseSpec(c)
  <2>1. NotInstalled(c) /\ job' = job /\ job[c].op = "update" /\ pending[c] = NoWrite
    BY <1>5, <1>o DEF RebaseSpec, VersionHeld, Unfinished, UpdateLabels, StagedLabels
  <2>2. CASE Replace(c, "spec", job[c].plan.to) /\ Goto(c, "base")
    <3>1. /\ doc'["state"] = doc["state"] /\ doc'["spec"] = Absent
          /\ pending'[c].file = "spec" /\ pending'[c].val = job[c].plan.to
      BY <2>2, ReplaceDoes
    <3> QED BY <2>1, <2>2, <3>1
            DEF VersionHeld, NotInstalled, KeepsHandle, SpecIs, InStatus, SpecReadable, BaseLabels
  <2>3. CASE Goto(c, "updFail") /\ UNCHANGED <<doc, pending>>
    BY <1>5, <2>3, VersionKept DEF RebaseSpec, Unfinished, KeepsHandle, BaseLabels
  <2> QED BY <1>5, <2>2, <2>3 DEF RebaseSpec
<1>6. CASE CommitSpec(c)
  <2>1. NotInstalled(c) /\ job' = job /\ pending[c] = NoWrite /\ pc'[c] = "updClean"
    BY <1>6 DEF CommitSpec, VersionHeld, Unfinished
  <2>2. CASE Replace(c, "spec", job[c].plan.to)
    <3>1. /\ doc'["state"] = doc["state"] /\ doc'["spec"] = Absent
          /\ pending'[c].file = "spec"
      BY <2>2, ReplaceDoes
    <3> QED BY <2>1, <2>2, <3>1
            DEF VersionHeld, NotInstalled, KeepsHandle, SpecIs, InStatus, SpecReadable, BaseLabels
  <2>3. CASE UNCHANGED <<doc, pending>>
    BY <1>6, <2>1, <2>3, VersionKept DEF CommitSpec, Unfinished, KeepsHandle, BaseLabels
  <2> QED BY <1>6, <2>2, <2>3 DEF CommitSpec
<1>7. CASE \E f \in {"spec", "index"} : RestoreDoc(c, f)
  <2>1. PICK f \in {"spec", "index"} : RestoreDoc(c, f)
    BY <1>7
  <2>2. NotInstalled(c) /\ job' = job /\ pc[c] = "recRestore" /\ pc' = pc
    BY <2>1 DEF RestoreDoc, VersionHeld, Unfinished
  <2>3. doc'["state"] = doc["state"] /\ pending'[c].file = f
    BY <2>1 DEF RestoreDoc, TypeOK
  <2> QED BY <2>2, <2>3
          DEF VersionHeld, NotInstalled, KeepsHandle, InStatus, BaseLabels
<1>8. CASE RebaseDone(c) \/ UpdateFails(c) \/ UpdateDone(c)
  <2>1. job' = job /\ pending[c] = NoWrite
    BY <1>8 DEF RebaseDone, UpdateFails, UpdateDone
  <2>2. CASE RebaseDone(c)
    <3>1. pc'[c] = "updApplying" /\ Mark(c, "Updating", job[c].plan.to)
      BY <2>2 DEF RebaseDone
    <3> QED BY <2>1, <3>1, MarkVersion DEF KeepsHandle, BaseLabels
  <2>3. CASE UpdateFails(c)
    <3>1. pc'[c] = "err" /\ Mark(c, "Interrupted", job[c].inst)
      BY <2>3 DEF UpdateFails
    <3> QED BY <2>1, <3>1, MarkVersion DEF KeepsHandle, BaseLabels
  <2>4. CASE UpdateDone(c)
    <3>1. pc'[c] = "ok" /\ Mark(c, "Installed", doc["spec"])
      BY <2>4 DEF UpdateDone
    <3> QED BY <2>1, <3>1, MarkVersion DEF KeepsHandle, Unfinished, BaseLabels
  <2> QED BY <1>8, <2>2, <2>3, <2>4
<1>9. CASE CommitIndex(c) \/ CommitSelections(c)
  BY <1>9, ReplaceVersion DEF CommitIndex, CommitSelections, Unfinished, KeepsHandle, BaseLabels
<1>10. CASE BaseBegin(c) \/ BaseDone(c) \/ (\E why \in Why : BaseFails(c, why))
  <2>1. /\ job' = job /\ pending[c] = NoWrite /\ pending[c].file = "none"
        /\ pc[c] \in BaseLabels
    BY <1>10 DEF BaseBegin, BaseDone, BaseFails, NoWrite, BaseLabels
  <2>2. CASE BaseBegin(c)
    <3>1. pc'[c] = "baseFetch" /\ Mark(c, "Installing", BaseRevision(c))
      BY <2>2 DEF BaseBegin
    <3> QED BY <2>1, <3>1, MarkVersion DEF KeepsHandle, BaseLabels
  <2>3. CASE BaseDone(c)
    <3>1. pc'[c] = "baseEnd" /\ Mark(c, "Installed", BaseRevision(c))
      BY <2>3 DEF BaseDone
    <3>2. doc["spec"] = BaseRevision(c)
      BY <2>1 DEF VersionHeld, KeepsHandle, SpecIs, BaseRevision
    <3> QED BY <2>1, <3>1, <3>2, MarkVersion DEF KeepsHandle, Unfinished, BaseLabels
  <2>4. CASE \E why \in Why : BaseFails(c, why)
    <3>1. PICK why \in Why : BaseFails(c, why)
      BY <2>4
    <3>2. PICK s \in {"Interrupted", "Broken"} : Mark(c, s, BaseRevision(c))
      BY <3>1 DEF BaseFails
    <3>3. pc'[c] \in {"updFail", "release"}
      BY <3>1 DEF BaseFails
    <3> QED BY <2>1, <3>2, <3>3, MarkVersion DEF KeepsHandle, BaseLabels
  <2> QED BY <1>10, <2>2, <2>3, <2>4
<1>11. CASE BaseIndex(c) \/ InstallIndex(c)
  BY <1>11, ReplaceVersion DEF BaseIndex, InstallIndex, Unfinished, KeepsHandle, BaseLabels
<1>12. CASE InstallMark(c) \/ InstallDone(c) \/ InstallFails(c)
  <2>1. /\ job' = job /\ pending[c] = NoWrite /\ KeepsHandle(c) /\ doc["spec"] = job[c].inst
    BY <1>12 DEF InstallMark, InstallDone, InstallFails, KeepsHandle, VersionHeld
  <2>2. PICK s \in Status : Mark(c, s, job[c].inst) /\ (s = "Installed" => pc'[c] = "release")
    BY <1>12 DEF InstallMark, InstallDone, InstallFails, Status
  <2>3. pc'[c] \in {"insSelect", "release"}
    BY <1>12 DEF InstallMark, InstallDone, InstallFails
  <2> QED BY <2>1, <2>2, <2>3, MarkVersion DEF Unfinished, BaseLabels
<1>13. CASE InstallSelect(c)
  <2>1. job' = [job EXCEPT ![c] = Selected(c, CurrentSelections)]
    BY <1>13 DEF InstallSelect
  <2>2. /\ job'[c].inst = job[c].inst /\ job'[c].op = job[c].op
        /\ job'[c].plan.to = job[c].plan.to
    BY <2>1, SelectedDoes, SelectionsTyped
  <2> QED BY <1>13, <2>2, ReplaceVersion
          DEF InstallSelect, Unfinished, KeepsHandle, BaseLabels
<1>14. CASE RepairIndex(c) \/ RepairRefresh(c)
  <2>1. /\ job' = job /\ pending[c] = NoWrite /\ KeepsHandle(c)
        /\ pc'[c] \in {"repPlan", "repVerify"}
    BY <1>14 DEF RepairIndex, RepairRefresh, KeepsHandle
  <2>2. UNCHANGED <<doc, pending>> \/ \E v : Replace(c, "index", v)
    BY <1>14 DEF RepairIndex, RepairRefresh
  <2> QED BY <2>1, <2>2, VersionKept, ReplaceVersion DEF Unfinished, BaseLabels
<1>15. CASE RepairDone(c) \/ RepairFails(c)
  <2>1. /\ job' = job /\ pending[c] = NoWrite /\ KeepsHandle(c) /\ doc["spec"] = job[c].inst
    BY <1>15 DEF RepairDone, RepairFails, KeepsHandle, VersionHeld
  <2>2. /\ \E s : Mark(c, s, job[c].inst)
        /\ pc'[c] \in {"ok", "err"}
    BY <1>15 DEF RepairDone, RepairFails
  <2> QED BY <2>1, <2>2, MarkVersion DEF Unfinished, KeepsHandle, BaseLabels
<1>16. CASE RecoverVerify(c)
  <2>1. /\ job' = job /\ pending[c] = NoWrite /\ pc'[c] = "recDone"
        /\ \E s : Mark(c, s, doc["spec"])
    BY <1>16 DEF RecoverVerify
  <2> QED BY <2>1, MarkVersion DEF Unfinished, KeepsHandle, BaseLabels
<1>17. CASE ApplyLock(c) \/ InstallLock(c) \/ RepairLock(c) \/ RecoverLock(c)
  <2>1. PICK from \in {"updLock", "insLock", "repLock", "recLock"},
             to \in {"updCheck", "base", "repIndex", "recRestore"} :
           /\ TryLock(c, from, to)
           /\ from = "updLock" <=> to = "updCheck"
           /\ from = "insLock" <=> to = "base"
           /\ from = "repLock" <=> to = "repIndex"
           /\ from = "recLock" <=> to = "recRestore"
    BY <1>17 DEF ApplyLock, InstallLock, RepairLock, RecoverLock
  <2>2. (pc'[c] = to /\ job' = job) \/ pc'[c] = "idle"
    BY <2>1 DEF TryLock
  <2>3. pc[c] = from /\ UNCHANGED <<doc, pending>>
    BY <2>1 DEF TryLock
  <2> QED BY <1>o, <2>1, <2>2, <2>3, VersionKept DEF Unfinished, KeepsHandle, BaseLabels
<1>18. CASE (\E sel \in Selections : PlanRead(c, sel)) \/ PlanDiff(c) \/ ApplyGet(c) \/ Release(c)
            \/ RecoverFails(c)
  <2>1. UNCHANGED <<doc, pending>> /\ pc'[c] \in {"planDiff", "planned", "updLock", "idle", "down"}
    BY <1>18 DEF PlanRead, PlanDiff, ApplyGet, Release, RecoverFails
  <2> QED BY <2>1, VersionKept DEF Unfinished, KeepsHandle, BaseLabels
<1>19. CASE InstallRead(c) \/ RepairRead(c)
  <2>1. /\ UNCHANGED <<doc, pending>> /\ pending[c] = NoWrite /\ pc'[c] \in {"insLock", "repLock"}
    BY <1>19 DEF InstallRead, RepairRead
  <2>2. job'[c].inst = doc["spec"]
    BY <1>19, EmptyTyped, ZenonT(40) DEF InstallRead, RepairRead, TypeOK, NoJob
  <2> QED BY <2>1, <2>2
          DEF VersionHeld, Unfinished, KeepsHandle, NotInstalled, InStatus, SpecReadable,
              BaseLabels, NoWrite
<1>20. CASE Start(c)
  <2>1. /\ UNCHANGED <<doc, pending>> /\ pending[c] = NoWrite /\ pc'[c] \in {"recLock", "idle"}
        /\ pc'[c] = "recLock" => ~InStatus("Installed")
    BY <1>20 DEF Start, InStatus
  <2> QED BY <2>1
          DEF VersionHeld, Unfinished, KeepsHandle, NotInstalled, InStatus, SpecReadable,
              BaseLabels, NoWrite
<1>21. CASE Crash(c)
  <2>1. /\ doc' = doc /\ pending'[c] = NoWrite /\ pc'[c] = "down"
    BY <1>21 DEF Crash, TypeOK
  <2> QED BY <2>1
          DEF VersionHeld, Unfinished, KeepsHandle, NotInstalled, InStatus, SpecReadable,
              BaseLabels, NoWrite
<1> QED BY <1>1, <1>2, <1>3, <1>4, <1>5, <1>6, <1>7, <1>8, <1>9, <1>10, <1>11, <1>12, <1>13,
           <1>14, <1>15, <1>16, <1>17, <1>18, <1>19, <1>20, <1>21
        DEF Step, Fail, Request, UpdateStep, InstallStep, RepairStep, RecoverStep

LEMMA VersionInductive ==
    ASSUME Alone, TxInv, \A c \in Cores : VersionHeld(c), [Next]_vars
    PROVE  \A c \in Cores : VersionHeld(c)'
<1> SUFFICES ASSUME NEW c \in Cores PROVE VersionHeld(c)'
  OBVIOUS
<1>1. CASE UNCHANGED <<doc, pc, job, pending>>
  BY <1>1, VersionKept DEF Unfinished, KeepsHandle
<1>2. CASE SyncDefinition \/ (\E p \in Paths : AddUserFile(p)) \/ Tamper
  BY <1>1, <1>2 DEF SyncDefinition, AddUserFile, Tamper, disk
<1>3. CASE Step(c) \/ Fail(c) \/ Request(c) \/ Crash(c)
  BY <1>3, VersionStep
<1> QED BY <1>1, <1>2, <1>3 DEF Next, vars, Alone

LEMMA VersionInvariant == Alone => (Spec => [](\A c \in Cores : VersionHeld(c)))
<1> SUFFICES ASSUME Alone PROVE Spec => [](\A c \in Cores : VersionHeld(c))
  OBVIOUS
<1>1. Init => \A c \in Cores : VersionHeld(c)
  BY DEF Init, VersionHeld, Unfinished, KeepsHandle, NotInstalled, InStatus, BaseLabels, NoWrite
<1>2. TxInv /\ (\A c \in Cores : VersionHeld(c)) /\ [Next]_vars
         => (\A c \in Cores : VersionHeld(c))'
  BY VersionInductive
<1> QED BY <1>1, <1>2, TxInvariant, PTL DEF Spec

\* When one core works on the instance, whatever crashes, errors, cancellations and outside
\* changes to its files come, an instance that says Installed names the base version of its
\* instance.json, which is what build_launch_plan compares before every launch.
THEOREM InstalledNamesVersion ==
    ASSUME Alone PROVE Spec => []InstalledVersionAgrees
<1>1. (\A c \in Cores : VersionHeld(c)) => InstalledVersionAgrees
  BY DEF Alone, VersionHeld, InstalledVersionAgrees
<1> QED BY <1>1, VersionInvariant, PTL

(***************************************************************************)
(* The specification file.  Without kills and errors a copy of             *)
(* instance.json is half-written only while its update copies it, so that  *)
(* no recovery restores a torn one, and instance.json is missing only      *)
(* while somebody owes its rename.                                         *)
(***************************************************************************)
\* no process is killed, no I/O fails and nothing is cancelled
Uninterrupted == Faults \cap {"crash", "fail"} = {}

TornCopy(tx) == staging[tx] # Absent /\ staging[tx].prev["spec"] = Torn

SpecHeld ==
    /\ SpecReadable \/ \E c \in Cores : pending[c].file = "spec"
    /\ \A c \in Cores : pending[c].file = "spec" => pending[c].val \notin {Absent, Torn}
    /\ \A tx \in TxIds : TornCopy(tx) => \E c \in Cores : pc[c] = "saveSpec" /\ job[c].tx = tx

\* the same as the core that has the lock sees it
SpecAt(c) ==
    /\ SpecReadable \/ pending[c].file = "spec"
    /\ pending[c].file = "spec" => pending[c].val \notin {Absent, Torn}
    /\ \A tx \in TxIds : TornCopy(tx) => pc[c] = "saveSpec" /\ job[c].tx = tx

\* The core that has the lock is the only one that copies or owes a rename.
LEMMA SpecSeen ==
    ASSUME TxInv, NEW c \in Cores, lock = c, SpecHeld PROVE SpecAt(c)
<1>1. ASSUME NEW d \in Cores, pending[d].file = "spec" \/ pc[d] = "saveSpec" PROVE d = c
  BY <1>1 DEF TxInv, LockOwner, Locked, Labels, NoWrite
<1> QED BY <1>1 DEF SpecHeld, SpecAt

LEMMA SpecShown ==
    ASSUME TxInv', NEW c \in Cores, lock' = c, SpecAt(c)' PROVE SpecHeld'
<1>1. ASSUME NEW d \in Cores, pending'[d].file = "spec" PROVE d = c
  BY <1>1 DEF TxInv, LockOwner, NoWrite
<1> QED BY <1>1 DEF SpecHeld, SpecAt

\* A step that writes neither instance.json nor a copy of it.
LEMMA SpecKept ==
    ASSUME NEW c \in Cores, SpecAt(c), doc'["spec"] = doc["spec"],
           pending'[c] = pending[c] \/ (pending[c].file # "spec" /\ pending'[c].file # "spec"),
           \A tx \in TxIds : TornCopy(tx)' => TornCopy(tx),
           pc[c] = "saveSpec" => pc'[c] = "saveSpec" /\ job'[c].tx = job[c].tx
    PROVE  SpecAt(c)'
BY DEF SpecAt, SpecReadable

\* A staging directory that is the same, gone, new, or differs in other files.
LEMMA TornKept ==
    ASSUME TypeOK, NEW tx \in TxIds, NEW st,
           staging' = [staging EXCEPT ![tx] = st],
           \/ st = Absent \/ st = EmptyStage
           \/ staging[tx] # Absent /\ st.prev["spec"] = staging[tx].prev["spec"]
           \/ st.prev["spec"] = Absent
    PROVE  \A t \in TxIds : TornCopy(t)' => TornCopy(t)
<1>1. staging'[tx] = st /\ \A t \in TxIds \ {tx} : staging'[t] = staging[t]
  BY DEF TypeOK
<1>2. Torn # Absent
  BY MarkerAssumption DEF MarkerAssumption
<1> QED BY <1>1, <1>2 DEF TornCopy, EmptyStage

\* Writing into the other parts of a staging directory leaves the copy.
LEMMA TornStaged ==
    ASSUME TypeOK, NEW tx \in TxIds, staging[tx] # Absent, NEW p \in Paths, NEW v,
           \/ staging' = [staging EXCEPT ![tx].staged[p] = v]
           \/ staging' = [staging EXCEPT ![tx].backups[p] = v]
    PROVE  \A t \in TxIds : TornCopy(t)' => TornCopy(t)
<1>1. PICK st \in Stage : st = staging[tx]
  BY DEF TypeOK
<1>2. PICK a, b : a = [st EXCEPT !.staged[p] = v] /\ b = [st EXCEPT !.backups[p] = v]
  OBVIOUS
<1>3. a.prev = st.prev /\ b.prev = st.prev
  BY <1>1, <1>2 DEF Stage
<1>4. staging' = [staging EXCEPT ![tx] = a] \/ staging' = [staging EXCEPT ![tx] = b]
  BY <1>1, <1>2
<1> QED BY <1>1, <1>3, <1>4, TornKept

\* So does replacing a copy by nothing, and the copy of the index by anything.
LEMMA TornPrevious ==
    ASSUME TypeOK, NEW tx \in TxIds, staging[tx] # Absent, NEW f \in {"spec", "index"}, NEW v,
           f = "spec" => v # Torn,
           staging' = [staging EXCEPT ![tx].prev[f] = v]
    PROVE  /\ \A t \in TxIds : TornCopy(t)' => TornCopy(t)
           /\ f = "spec" => ~TornCopy(tx)'
<1>1. PICK st \in Stage : st = staging[tx]
  BY DEF TypeOK
<1>2. PICK a : a = [st EXCEPT !.prev[f] = v]
  OBVIOUS
<1>3. a.prev["spec"] = IF f = "spec" THEN v ELSE st.prev["spec"]
  BY <1>1, <1>2 DEF Stage
<1>4. staging'[tx] = a /\ \A t \in TxIds \ {tx} : staging'[t] = staging[t]
  BY <1>1, <1>2 DEF TypeOK
<1>5. TornCopy(tx)' => f = "index" /\ TornCopy(tx)
  BY <1>1, <1>3, <1>4 DEF TornCopy
<1>6. ASSUME NEW t \in TxIds \ {tx}, TornCopy(t)' PROVE TornCopy(t)
  BY <1>4, <1>6 DEF TornCopy
<1> QED BY <1>5, <1>6

\* The steps of a transaction, between taking the lock and giving it back.
Inside(c) ==
    \/ ApplyRefuse(c) \/ ApplyBegin(c)
    \/ MakeStaging(c) \/ SaveSpec(c) \/ SaveIndex(c) \/ CopyFails(c)
    \/ (\E p \in Paths : StageFile(c, p)) \/ StageFails(c) \/ StageDone(c)
    \/ RebaseSpec(c) \/ RebaseDone(c) \/ StartApplying(c) \/ CancelBeforeApply(c)
    \/ (\E p \in Paths : BackupFile(c, p)) \/ BackupDone(c)
    \/ (\E p \in Paths : ApplyFile(c, p)) \/ ApplyDone(c) \/ VerifyUpdate(c)
    \/ RollbackApplied(c) \/ RollbackBackups(c) \/ UpdateFails(c)
    \/ CommitIndex(c) \/ CommitSelections(c) \/ CommitSpec(c) \/ CleanStaging(c)
    \/ UpdateDone(c)
    \/ BaseBegin(c) \/ BaseFetch(c) \/ NativesOut(c) \/ NativesIn(c)
    \/ BaseIndex(c) \/ BaseDone(c) \/ BaseEnd(c)
    \/ (\E why \in Why : BaseFails(c, why)) \/ BaseIndexFails(c)
    \/ InstallMark(c) \/ InstallSelect(c)
    \/ (\E p \in Paths : InstallFile(c, p)) \/ InstallCopied(c)
    \/ InstallIndex(c) \/ InstallDone(c) \/ InstallFails(c)
    \/ RepairIndex(c) \/ RepairPlan(c)
    \/ (\E p \in Paths : RepairFile(c, p)) \/ RepairCopied(c)
    \/ RepairRefresh(c) \/ RepairDone(c) \/ RepairFails(c)
    \/ PickStaging(c) \/ (\E p \in Paths : RestoreBackup(c, p))
    \/ (\E f \in {"spec", "index"} : RestoreDoc(c, f))
    \/ DropStaging(c) \/ RestoreDone(c) \/ RecoverVerify(c) \/ RecoverDone(c)
    \/ Rename(c)

\* The steps before it, which write nothing.
Outside(c) ==
    \/ (\E sel \in Selections : PlanRead(c, sel)) \/ PlanDiff(c) \/ ApplyGet(c)
    \/ InstallRead(c) \/ RepairRead(c) \/ Start(c)
    \/ ApplyLock(c) \/ InstallLock(c) \/ RepairLock(c) \/ RecoverLock(c)

LEMMA StepKinds ==
    ASSUME NEW c \in Cores, Step(c) \/ Fail(c) \/ Request(c) \/ Crash(c)
    PROVE  Inside(c) \/ Outside(c) \/ Release(c) \/ RecoverFails(c) \/ Crash(c)
BY DEF Step, Fail, Request, UpdateStep, InstallStep, RepairStep, RecoverStep, Inside, Outside

LEMMA InsideHolds ==
    ASSUME TxInv, NEW c \in Cores, Inside(c)
    PROVE  lock = c /\ lock' = c
<1> USE DEF At, disk, Locked, Labels
<1>1. CASE Rename(c)
  BY <1>1 DEF Rename, TxInv, LockOwner
<1>2. pc[c] \in Locked /\ lock' = lock => lock = c /\ lock' = c
  BY InsideOwns
<1>3. CASE \/ ApplyRefuse(c) \/ ApplyBegin(c)
           \/ MakeStaging(c) \/ SaveSpec(c) \/ SaveIndex(c) \/ CopyFails(c)
           \/ (\E p \in Paths : StageFile(c, p)) \/ StageFails(c) \/ StageDone(c)
           \/ RebaseSpec(c) \/ RebaseDone(c) \/ StartApplying(c) \/ CancelBeforeApply(c)
  BY <1>2, <1>3 DEF ApplyRefuse, ApplyBegin, MakeStaging, SaveSpec, SaveIndex, CopyPrevious,
                    CopyFails, StageFile, StageFails, StageDone, RebaseSpec, RebaseDone,
                    StartApplying, CancelBeforeApply
<1>4. CASE \/ (\E p \in Paths : BackupFile(c, p)) \/ BackupDone(c)
           \/ (\E p \in Paths : ApplyFile(c, p)) \/ ApplyDone(c) \/ VerifyUpdate(c)
           \/ RollbackApplied(c) \/ RollbackBackups(c) \/ UpdateFails(c)
           \/ CommitIndex(c) \/ CommitSelections(c) \/ CommitSpec(c) \/ CleanStaging(c)
           \/ UpdateDone(c)
  BY <1>2, <1>4 DEF BackupFile, BackupDone, ApplyFile, ApplyDone, VerifyUpdate, RollbackApplied,
                    RollbackBackups, UpdateFails, CommitIndex, CommitSelections, CommitSpec,
                    CleanStaging, UpdateDone
<1>5. CASE \/ BaseBegin(c) \/ BaseFetch(c) \/ NativesOut(c) \/ NativesIn(c)
           \/ BaseIndex(c) \/ BaseDone(c) \/ BaseEnd(c)
           \/ (\E why \in Why : BaseFails(c, why)) \/ BaseIndexFails(c)
           \/ InstallMark(c) \/ InstallSelect(c)
           \/ (\E p \in Paths : InstallFile(c, p)) \/ InstallCopied(c)
           \/ InstallIndex(c) \/ InstallDone(c) \/ InstallFails(c)
  BY <1>2, <1>5 DEF BaseBegin, BaseFetch, NativesOut, NativesIn, BaseIndex, BaseDone, BaseEnd,
                    BaseFails, BaseIndexFails, InstallMark, InstallSelect, InstallFile, CopyInto,
                    InstallCopied, InstallIndex, InstallDone, InstallFails
<1>6. CASE \/ RepairIndex(c) \/ RepairPlan(c)
           \/ (\E p \in Paths : RepairFile(c, p)) \/ RepairCopied(c)
           \/ RepairRefresh(c) \/ RepairDone(c) \/ RepairFails(c)
           \/ PickStaging(c) \/ (\E p \in Paths : RestoreBackup(c, p))
           \/ (\E f \in {"spec", "index"} : RestoreDoc(c, f))
           \/ DropStaging(c) \/ RestoreDone(c) \/ RecoverVerify(c) \/ RecoverDone(c)
  BY <1>2, <1>6 DEF RepairIndex, RepairPlan, RepairFile, CopyInto, RepairCopied, RepairRefresh,
                    RepairDone, RepairFails, PickStaging, RestoreBackup, RestoreDoc, DropStaging,
                    RestoreDone, RecoverVerify, RecoverDone
<1> QED BY <1>1, <1>3, <1>4, <1>5, <1>6 DEF Inside

\* A step before the lock writes nothing and owes no rename.
LEMMA OutsideQuiet ==
    ASSUME TypeOK, NEW c \in Cores, Outside(c)
    PROVE  /\ UNCHANGED <<files, natives, doc, staging, pending>> /\ pending[c] = NoWrite
           /\ pc'[c] \in {"planDiff", "planned", "updLock", "insLock", "repLock", "recLock", "idle",
                          "updCheck", "base", "repIndex", "recRestore"}
           /\ pc[c] \notin Locked
BY GotoDoes
   DEF Outside, PlanRead, PlanDiff, ApplyGet, InstallRead, RepairRead, Start, ApplyLock,
       InstallLock, RepairLock, RecoverLock, TryLock, At, disk, Locked, Labels

\* A step of a transaction keeps the specification, as its core sees it.
LEMMA SpecInside ==
    ASSUME Uninterrupted, TxInv, NEW c \in Cores, SpecAt(c), Inside(c)
    PROVE  SpecAt(c)'
<1> TypeOK
  BY DEF TxInv
<1> USE GotoDoes DEF At, disk
<1>d. /\ "selections" \in DocNames /\ "state" \in DocNames /\ "spec" \in DocNames
      /\ "index" \in DocNames
  BY DEF DocNames
<1>n. NoWrite.file = "none" /\ Torn # Absent /\ (\A r \in Revisions : r \notin {Absent, Torn})
  BY MarkerAssumption DEF NoWrite, MarkerAssumption
<1>u. UsesStaging(c) => job[c].tx \in TxIds /\ staging[job[c].tx] # Absent
  BY DEF TxInv, Relies, TypeOK, Job
<1>o. pc[c] \in UpdateLabels => job[c].op = "update"
  BY DEF TxInv, Relies
<1>1. CASE MakeStaging(c)
  <2>1. job[c].tx \in TxIds
    BY <1>1 DEF MakeStaging, TxInv, Relies, TypeOK, Job
  <2>2. \A tx \in TxIds : TornCopy(tx)' => TornCopy(tx)
    BY <1>1, <2>1, TornKept DEF MakeStaging
  <2> QED BY <1>1, <2>2, SpecKept DEF MakeStaging
<1>2. CASE SaveSpec(c) \/ SaveIndex(c)
  <2>1. PICK f \in {"spec", "index"}, here \in {"saveSpec", "saveIndex"},
             next \in {"saveIndex", "updStage"} :
           /\ CopyPrevious(c, f, here, next)
           /\ f = "spec" <=> here = "saveSpec"
    BY <1>2 DEF SaveSpec, SaveIndex
  <2>2. /\ pc[c] = here /\ pending[c] = NoWrite /\ UNCHANGED <<doc, pending>>
        /\ doc[f] # Absent
    BY <2>1 DEF CopyPrevious
  <2>3. job[c].tx \in TxIds /\ staging[job[c].tx] # Absent
    BY <1>o, <1>u, <2>2 DEF UsesStaging, UpdateLabels, StagedLabels
  <2>4. SpecReadable
    BY <1>n, <2>2 DEF SpecAt
  <2>5. CASE /\ staging' = [staging EXCEPT ![job[c].tx].prev[f] = Torn]
             /\ UNCHANGED <<pc, job>>
    <3>1. CASE f = "index"
      <4>1. \A tx \in TxIds : TornCopy(tx)' => TornCopy(tx)
        BY <2>3, <2>5, <3>1, TornPrevious
      <4> QED BY <2>2, <2>5, <4>1, SpecKept
    <3>2. CASE f = "spec"
      <4>1. \A tx \in TxIds \ {job[c].tx} : staging'[tx] = staging[tx]
        BY <2>5 DEF TypeOK
      <4>2. \A tx \in TxIds : TornCopy(tx)' => tx = job[c].tx
        BY <4>1 DEF TornCopy, SpecAt
      <4> QED BY <1>n, <2>1, <2>2, <2>4, <2>5, <3>2, <4>2 DEF SpecAt, SpecReadable
    <3> QED BY <3>1, <3>2
  <2>6. CASE /\ staging' = [staging EXCEPT ![job[c].tx].prev[f] = doc[f]]
             /\ Goto(c, next)
    <3>1. f = "spec" => doc[f] # Torn
      BY <2>4 DEF SpecReadable
    <3>2. PICK tx, v : tx = job[c].tx /\ v = doc[f]
      OBVIOUS
    <3>3. /\ tx \in TxIds /\ staging[tx] # Absent /\ (f = "spec" => v # Torn)
          /\ staging' = [staging EXCEPT ![tx].prev[f] = v]
      BY <2>3, <2>6, <3>1, <3>2
    <3>4. /\ \A t \in TxIds : TornCopy(t)' => TornCopy(t)
          /\ f = "spec" => ~TornCopy(tx)'
      BY <3>3, TornPrevious, Zenon
    <3>5. ASSUME NEW t \in TxIds, TornCopy(t)' PROVE FALSE
      <4>1. TornCopy(t)
        BY <3>4, <3>5
      <4>2. pc[c] = "saveSpec" /\ job[c].tx = t
        BY <4>1 DEF SpecAt
      <4>3. f = "spec" /\ t = tx
        BY <2>1, <2>2, <3>2, <4>2
      <4> QED BY <3>4, <3>5, <4>3
    <3> QED BY <1>n, <2>2, <2>4, <3>5 DEF SpecAt, SpecReadable
  <2> QED BY <2>1, <2>5, <2>6 DEF CopyPrevious
<1>3. CASE CopyFails(c)
  <2>1. pc[c] # "saveSpec"
    BY <1>3, <1>n DEF CopyFails, Uninterrupted, SpecAt, SpecReadable
  <2> QED BY <1>3, <2>1, SpecKept DEF CopyFails, TornCopy
<1>4. CASE (\E p \in Paths : StageFile(c, p)) \/ (\E p \in Paths : BackupFile(c, p))
           \/ (\E p \in Paths : ApplyFile(c, p)) \/ RollbackBackups(c)
  <2>1. /\ pc[c] \in {"updStage", "updBackup", "updApply", "rollBackups"}
        /\ UNCHANGED <<doc, pending>>
        /\ \/ UNCHANGED staging
           \/ \E p \in Paths : \E v : staging' = [staging EXCEPT ![job[c].tx].staged[p] = v]
           \/ \E p \in Paths : \E v : staging' = [staging EXCEPT ![job[c].tx].backups[p] = v]
    <3>1. ASSUME NEW p \in Paths, StageFile(c, p) PROVE <2>1
      BY <3>1 DEF StageFile
    <3>2. ASSUME NEW p \in Paths, BackupFile(c, p) PROVE <2>1
      BY <3>2 DEF BackupFile
    <3>3. ASSUME NEW p \in Paths, ApplyFile(c, p) PROVE <2>1
      BY <3>3 DEF ApplyFile
    <3>4. CASE RollbackBackups(c)
      BY <3>4, JobTyped DEF RollbackBackups
    <3> QED BY <1>4, <3>1, <3>2, <3>3, <3>4
  <2>2. job[c].tx \in TxIds /\ staging[job[c].tx] # Absent
    BY <1>o, <1>u, <2>1 DEF UsesStaging, UpdateLabels, StagedLabels
  <2>3. \A tx \in TxIds : TornCopy(tx)' => TornCopy(tx)
    <3>1. CASE UNCHANGED staging
      BY <3>1 DEF TornCopy
    <3> QED BY <2>1, <2>2, <3>1, TornStaged
  <2> QED BY <2>1, <2>3, SpecKept
<1>5. CASE CleanStaging(c) \/ DropStaging(c) \/ (\E p \in Paths : RestoreBackup(c, p))
  <2>1. /\ pc[c] \in {"updClean", "recRestore"} /\ UNCHANGED <<doc, pending>>
        /\ \/ UNCHANGED staging
           \/ \E p \in Paths : staging' = [staging EXCEPT ![job[c].tx].backups[p] = Absent]
           \/ \E f \in {"spec", "index"} :
                staging' = [staging EXCEPT ![job[c].tx].prev[f] = Absent]
           \/ staging' = [staging EXCEPT ![job[c].tx] = Absent]
    BY <1>5 DEF CleanStaging, DropStaging, RestoreBackup
  <2>2. job[c].tx \in TxIds /\ staging[job[c].tx] # Absent
    <3>1. CASE pc[c] = "updClean"
      BY <1>o, <1>u, <3>1 DEF UsesStaging, UpdateLabels, StagedLabels
    <3>2. CASE pc[c] = "recRestore"
      BY <1>5, <3>2 DEF CleanStaging, DropStaging, RestoreBackup, TxInv, Relies, TypeOK, Job
    <3> QED BY <2>1, <3>1, <3>2
  <2>3. \A tx \in TxIds : TornCopy(tx)' => TornCopy(tx)
    <3>1. CASE UNCHANGED staging
      BY <3>1 DEF TornCopy
    <3>2. CASE staging' = [staging EXCEPT ![job[c].tx] = Absent]
      BY <2>2, <3>2, TornKept
    <3>3. ASSUME NEW f \in {"spec", "index"},
                 staging' = [staging EXCEPT ![job[c].tx].prev[f] = Absent]
          PROVE  <2>3
      BY <1>n, <2>2, <3>3, TornPrevious
    <3>4. ASSUME NEW p \in Paths, staging' = [staging EXCEPT ![job[c].tx].backups[p] = Absent]
          PROVE  <2>3
      <4>1. PICK tx, v : tx = job[c].tx /\ v = Absent
        OBVIOUS
      <4>2. staging' = [staging EXCEPT ![tx].backups[p] = v]
        BY <3>4, <4>1
      <4> QED BY <2>2, <4>1, <4>2, TornStaged
    <3> QED BY <2>1, <3>1, <3>2, <3>3, <3>4
  <2> QED BY <2>1, <2>3, SpecKept
<1>6. CASE RebaseSpec(c) \/ CommitSpec(c)
  <2>1. /\ staging' = staging /\ pc[c] # "saveSpec" /\ pc[c] # "recRestore" /\ pending[c] = NoWrite
        /\ UNCHANGED <<doc, pending>> \/ Replace(c, "spec", job[c].plan.to)
    BY <1>6 DEF RebaseSpec, CommitSpec
  <2>2. \A tx \in TxIds : TornCopy(tx)' => TornCopy(tx)
    BY <2>1 DEF TornCopy
  <2>3. CASE UNCHANGED <<doc, pending>>
    BY <2>1, <2>2, <2>3, SpecKept
  <2>4. CASE Replace(c, "spec", job[c].plan.to)
    <3>1. pending'[c].file = "spec" /\ pending'[c].val = job[c].plan.to
      BY <1>d, <2>4, ReplaceDoes
    <3>2. pending'[c].val \notin {Absent, Torn}
      BY <1>n, <3>1, JobTyped
    <3> QED BY <2>1, <2>2, <3>1, <3>2 DEF SpecAt
  <2> QED BY <2>1, <2>3, <2>4
<1>7. CASE \E f \in {"spec", "index"} : RestoreDoc(c, f)
  <2>1. PICK f \in {"spec", "index"} : RestoreDoc(c, f)
    BY <1>7
  <2>2. job[c].tx \in TxIds /\ staging[job[c].tx] # Absent
    BY <2>1 DEF RestoreDoc, TxInv, Relies, TypeOK, Job
  <2>3. /\ pc[c] = "recRestore" /\ pending[c] = NoWrite /\ staging' = staging /\ pc' = pc
        /\ staging[job[c].tx].prev[f] # Absent
    BY <2>1 DEF RestoreDoc
  <2>4. /\ pending'[c].file = f /\ pending'[c].val = staging[job[c].tx].prev[f]
        /\ f = "index" => doc'["spec"] = doc["spec"]
    BY <2>1 DEF RestoreDoc, TypeOK
  <2>5. f = "spec" => pending'[c].val \notin {Absent, Torn}
    BY <2>2, <2>3, <2>4 DEF SpecAt, TornCopy
  <2>6. \A tx \in TxIds : TornCopy(tx)' => TornCopy(tx)
    BY <2>3 DEF TornCopy
  <2>7. CASE f = "index"
    BY <1>n, <2>3, <2>4, <2>6, <2>7, SpecKept
  <2>8. CASE f = "spec"
    BY <2>3, <2>4, <2>5, <2>6, <2>8 DEF SpecAt
  <2> QED BY <2>7, <2>8
<1>8. CASE Rename(c)
  <2>1. /\ pending'[c].file = "none" /\ pc' = pc /\ job' = job
        /\ IF pending[c].file = "spec" THEN doc'["spec"] = pending[c].val
           ELSE doc'["spec"] = doc["spec"]
    BY <1>8, <1>d, <1>n, RenameDoes
  <2>2. \A tx \in TxIds : TornCopy(tx)' => TornCopy(tx)
    <3>1. CASE pending[c].tx = Absent
      BY <1>8, <3>1 DEF Rename, TornCopy
    <3>2. CASE pending[c].tx # Absent
      <4>1. /\ pending[c].file \in {"spec", "index"} /\ pending[c].tx = job[c].tx
            /\ job[c].tx \in TxIds /\ staging[job[c].tx] # Absent
        BY <3>2 DEF TxInv, Relies, TypeOK, Job
      <4>2. PICK tx, f, v : tx = job[c].tx /\ f = pending[c].file /\ v = Absent
        OBVIOUS
      <4>3. staging' = [staging EXCEPT ![tx].prev[f] = v]
        BY <1>8, <3>2, <4>1, <4>2 DEF Rename
      <4>4. /\ tx \in TxIds /\ staging[tx] # Absent /\ f \in {"spec", "index"}
            /\ f = "spec" => v # Torn
        BY <1>n, <4>1, <4>2
      <4> QED BY <4>3, <4>4, TornPrevious, Zenon
    <3> QED BY <3>1, <3>2
  <2> QED BY <2>1, <2>2 DEF SpecAt, SpecReadable
<1>9. CASE \/ ApplyRefuse(c) \/ StageFails(c) \/ StageDone(c) \/ StartApplying(c)
           \/ CancelBeforeApply(c) \/ BackupDone(c) \/ ApplyDone(c) \/ VerifyUpdate(c)
           \/ RollbackApplied(c)
           \/ BaseFetch(c) \/ NativesOut(c) \/ NativesIn(c) \/ BaseIndexFails(c) \/ BaseEnd(c)
           \/ (\E p \in Paths : InstallFile(c, p)) \/ InstallCopied(c)
           \/ RepairPlan(c) \/ (\E p \in Paths : RepairFile(c, p)) \/ RepairCopied(c)
           \/ PickStaging(c) \/ RestoreDone(c) \/ RecoverDone(c)
  <2>1. staging' = staging /\ pc[c] # "saveSpec" /\ UNCHANGED <<doc, pending>>
    BY <1>9 DEF ApplyRefuse, StageFails, StageDone, StartApplying, CancelBeforeApply, BackupDone,
                ApplyDone, VerifyUpdate, RollbackApplied, BaseFetch, NativesOut, NativesIn,
                BaseIndexFails, BaseEnd, InstallFile, InstallCopied, RepairPlan, RepairFile,
                CopyInto, RepairCopied, PickStaging, RestoreDone, RecoverDone
  <2> QED BY <2>1, SpecKept DEF TornCopy
<1>10. CASE \/ ApplyBegin(c) \/ RebaseDone(c) \/ UpdateFails(c) \/ CommitIndex(c)
            \/ CommitSelections(c) \/ UpdateDone(c)
            \/ BaseBegin(c) \/ BaseIndex(c) \/ BaseDone(c) \/ (\E why \in Why : BaseFails(c, why))
            \/ InstallMark(c) \/ InstallSelect(c) \/ InstallIndex(c) \/ InstallDone(c)
            \/ InstallFails(c) \/ RepairIndex(c) \/ RepairRefresh(c) \/ RepairDone(c)
            \/ RepairFails(c) \/ RecoverVerify(c)
  <2>1. /\ staging' = staging /\ pc[c] # "saveSpec" /\ pending[c] = NoWrite
        /\ \/ UNCHANGED <<doc, pending>>
           \/ \E f \in {"index", "selections"} : \E v : Replace(c, f, v)
           \/ \E s, r : Mark(c, s, r)
    BY <1>10 DEF ApplyBegin, RebaseDone, UpdateFails, CommitIndex, CommitSelections, UpdateDone,
                 BaseBegin, BaseIndex, BaseDone, BaseFails, InstallMark, InstallSelect,
                 InstallIndex, InstallDone, InstallFails, RepairIndex, RepairRefresh, RepairDone,
                 RepairFails, RecoverVerify
  <2>2. \A tx \in TxIds : TornCopy(tx)' => TornCopy(tx)
    BY <2>1 DEF TornCopy
  <2>3. ASSUME NEW f \in {"index", "selections"}, NEW v, Replace(c, f, v) PROVE SpecAt(c)'
    <3>1. doc'["spec"] = doc["spec"] /\ pending'[c].file = f
      BY <1>d, <2>3, ReplaceDoes
    <3> QED BY <1>n, <2>1, <2>2, <3>1, SpecKept
  <2>4. ASSUME NEW s, NEW r, Mark(c, s, r) PROVE SpecAt(c)'
    <3>1. doc'["spec"] = doc["spec"] /\ pending'[c].file = "state"
      BY <2>4, MarkDoes
    <3> QED BY <1>n, <2>1, <2>2, <3>1, SpecKept
  <2>5. CASE UNCHANGED <<doc, pending>>
    BY <2>1, <2>2, <2>5, SpecKept
  <2> QED BY <2>1, <2>3, <2>4, <2>5
<1> QED BY <1>1, <1>2, <1>3, <1>4, <1>5, <1>6, <1>7, <1>8, <1>9, <1>10 DEF Inside

\* Every step keeps it, for whoever looks.
LEMMA SpecInductive ==
    ASSUME Uninterrupted, TxInv, TxInv', SpecHeld, [Next]_vars
    PROVE  SpecHeld'
<1>1. CASE UNCHANGED <<doc, staging, pc, job, pending>>
  BY <1>1 DEF SpecHeld, SpecReadable, TornCopy
<1>2. CASE SyncDefinition \/ (\E p \in Paths : AddUserFile(p)) \/ Tamper
  BY <1>1, <1>2 DEF SyncDefinition, AddUserFile, Tamper, disk
<1>3. ASSUME NEW c \in Cores, Step(c) \/ Fail(c) \/ Request(c) \/ Crash(c) PROVE SpecHeld'
  <2>1. CASE Inside(c)
    BY <2>1, InsideHolds, SpecSeen, SpecInside, SpecShown
  <2>2. CASE Outside(c)
    <3>1. UNCHANGED <<doc, staging, pending>> /\ pc[c] # "saveSpec"
      BY <2>2, OutsideQuiet DEF TxInv, Locked, Labels
    <3>2. \A d \in Cores \ {c} : pc'[d] = pc[d] /\ job'[d] = job[d]
      BY <1>3, CoreStep DEF StepOK
    <3> QED BY <3>1, <3>2 DEF SpecHeld, SpecReadable, TornCopy
  <2>3. CASE Release(c) \/ RecoverFails(c)
    <3>1. /\ UNCHANGED <<doc, staging, pending>> /\ pending[c].file # "spec"
          /\ pc[c] \in Locked /\ pc[c] # "saveSpec"
      BY <2>3 DEF Release, RecoverFails, At, disk, NoWrite, Locked, Labels
    <3>2. SpecAt(c)
      BY <3>1, InsideOwns, SpecSeen
    <3>3. SpecReadable /\ \A tx \in TxIds : ~TornCopy(tx)
      BY <3>1, <3>2 DEF SpecAt
    <3> QED BY <3>1, <3>3 DEF SpecHeld, SpecReadable, TornCopy
  <2>4. CASE Crash(c)
    BY <2>4 DEF Crash, Uninterrupted
  <2> QED BY <1>3, <2>1, <2>2, <2>3, <2>4, StepKinds
<1> QED BY <1>1, <1>2, <1>3 DEF Next, vars

LEMMA SpecInvariant == Uninterrupted => (Spec => []SpecHeld)
<1> SUFFICES ASSUME Uninterrupted PROVE Spec => []SpecHeld
  OBVIOUS
<1>1. Init => SpecHeld
  <2>1. 1 \notin {Absent, Torn}
    BY InputAssumption, MarkerAssumption DEF InputAssumption, MarkerAssumption, Revisions
  <2> QED BY <2>1 DEF Init, SpecHeld, SpecReadable, TornCopy, NoWrite
<1>2. TxInv /\ TxInv' /\ SpecHeld /\ [Next]_vars => SpecHeld'
  BY SpecInductive
<1> QED BY <1>1, <1>2, TxInvariant, PTL DEF Spec

\* When no process is killed, no I/O fails and nothing is cancelled, instance.json parses
\* between any two transactions of any number of cores, however many updates were refused
\* or rolled back and recovered: only an interruption within a write loses it, which is
\* what the counterexample to SpecSurvives needs.
THEOREM SpecificationKept ==
    ASSUME Uninterrupted PROVE Spec => []SpecSurvives
<1>1. TxInv /\ SpecHeld => SpecSurvives
  BY InputAssumption
     DEF SpecHeld, SpecSurvives, Quiet, TxInv, LockOwner, NoWrite, InputAssumption
<1> QED BY <1>1, SpecInvariant, TxInvariant, PTL

(***************************************************************************)
(* The status.  Whatever other cores and faults do, an operation that has  *)
(* begun to change the instance has taken Installed back before.  A        *)
(* recovery has not: it read the status before it had the lock.            *)
(***************************************************************************)
\* core c restores and verifies under the lock what others may have repaired meanwhile
Recovering(c) == pc[c] \in {"recRestore", "recVerify"}

\* an operation that has begun to change the instance
Working(c) == Unfinished(c) /\ pc[c] # "recLock" /\ ~Recovering(c)

StatusHeld(c) == Working(c) => NotInstalled(c)

\* A step that writes another document, or none.
LEMMA StatusKept ==
    ASSUME NEW c \in Cores, StatusHeld(c), Working(c)' => Working(c),
           doc'["state"] = doc["state"],
           pending'[c] = pending[c] \/ pending'[c].file # "state"
    PROVE  StatusHeld(c)'
BY DEF StatusHeld, NotInstalled, InStatus

\* A mark other than Installed.
LEMMA StatusMarked ==
    ASSUME TypeOK, NEW c \in Cores, NEW s, NEW r, Mark(c, s, r), s # "Installed"
    PROVE  StatusHeld(c)'
BY MarkDoes DEF StatusHeld, NotInstalled, InStatus

\* A step of the core keeps the status.
LEMMA StatusStep ==
    ASSUME TxInv, NEW c \in Cores, StatusHeld(c),
           Step(c) \/ Fail(c) \/ Request(c) \/ Crash(c)
    PROVE  StatusHeld(c)'
<1> TypeOK
  BY DEF TxInv
<1> USE GotoDoes DEF At, disk
<1>d. /\ "selections" \in DocNames /\ "state" \in DocNames /\ "spec" \in DocNames
      /\ "index" \in DocNames
  BY DEF DocNames
<1>o. /\ pc[c] \in UpdateLabels => job[c].op = "update"
      /\ pc[c] = "insLock" => job[c].op = "install"
      /\ pc[c] \in {"base", "baseFetch"} => job[c].op \in {"install", "update"}
      /\ pc[c] \in {"repLock", "repIndex", "repPlan", "repCopy"} => job[c].op = "repair"
  BY DEF TxInv, Relies
<1>f. CASE ~Working(c)'
  BY <1>f DEF StatusHeld
<1>1. CASE \/ MakeStaging(c) \/ SaveSpec(c) \/ SaveIndex(c) \/ CopyFails(c)
           \/ (\E p \in Paths : StageFile(c, p)) \/ StageFails(c) \/ StageDone(c)
           \/ StartApplying(c) \/ CancelBeforeApply(c)
           \/ (\E p \in Paths : BackupFile(c, p)) \/ BackupDone(c)
           \/ (\E p \in Paths : ApplyFile(c, p)) \/ ApplyDone(c)
           \/ VerifyUpdate(c) \/ RollbackApplied(c) \/ RollbackBackups(c)
  BY <1>1, QuietUpdate, StatusKept DEF Working, Unfinished, Recovering
<1>2. CASE \/ ApplyRefuse(c) \/ CleanStaging(c)
           \/ BaseFetch(c) \/ NativesOut(c) \/ NativesIn(c) \/ BaseIndexFails(c) \/ BaseEnd(c)
           \/ (\E p \in Paths : InstallFile(c, p)) \/ InstallCopied(c)
           \/ RepairPlan(c) \/ (\E p \in Paths : RepairFile(c, p)) \/ RepairCopied(c)
           \/ PickStaging(c) \/ (\E p \in Paths : RestoreBackup(c, p)) \/ DropStaging(c)
           \/ RestoreDone(c) \/ RecoverDone(c)
  BY <1>2, <1>o, QuietOther, StatusKept DEF Working, Unfinished, Recovering
<1>3. CASE \/ ApplyBegin(c) \/ RebaseDone(c) \/ BaseBegin(c) \/ InstallMark(c)
           \/ (\E why \in Why : BaseFails(c, why)) \/ UpdateFails(c) \/ InstallFails(c)
           \/ RepairFails(c)
  <2>1. \E s \in Status \ {"Installed"} : \E r : Mark(c, s, r)
    BY <1>3 DEF ApplyBegin, RebaseDone, BaseBegin, InstallMark, BaseFails, UpdateFails,
                InstallFails, RepairFails, Status
  <2> QED BY <2>1, StatusMarked
<1>4. CASE \/ RebaseSpec(c) \/ CommitIndex(c) \/ CommitSelections(c) \/ CommitSpec(c)
           \/ BaseIndex(c) \/ InstallSelect(c) \/ InstallIndex(c)
  <2>1. Working(c)
    BY <1>4 DEF RebaseSpec, CommitIndex, CommitSelections, CommitSpec, BaseIndex, InstallSelect,
                InstallIndex, Working, Unfinished, Recovering
  <2>2. UNCHANGED <<doc, pending>> \/ \E f \in DocNames \ {"state"} : \E v : Replace(c, f, v)
    BY <1>4, <1>d DEF RebaseSpec, CommitIndex, CommitSelections, CommitSpec, BaseIndex,
                      InstallSelect, InstallIndex
  <2>3. doc'["state"] = doc["state"] /\ (pending' = pending \/ pending'[c].file # "state")
    BY <1>d, <2>2, ReplaceDoes
  <2> QED BY <2>1, <2>3, StatusKept
<1>5. CASE Rename(c)
  <2>1. pc' = pc /\ job' = job /\ pending'[c].file = "none"
    BY <1>5, RenameDoes DEF NoWrite
  <2>2. Working(c)' <=> Working(c)
    BY <2>1 DEF Working, Unfinished, Recovering
  <2>3. doc'["state"] = IF pending[c].file = "state" THEN pending[c].val ELSE doc["state"]
    BY <1>d, <1>5, RenameDoes
  <2> QED BY <2>1, <2>2, <2>3 DEF StatusHeld, NotInstalled, InStatus
<1>6. CASE \/ UpdateDone(c) \/ BaseDone(c) \/ InstallDone(c) \/ RepairIndex(c)
           \/ RepairRefresh(c) \/ RepairDone(c) \/ RecoverVerify(c)
           \/ (\E f \in {"spec", "index"} : RestoreDoc(c, f))
           \/ Release(c) \/ RecoverFails(c) \/ Crash(c)
  <2>1. pc'[c] \in {"ok", "baseEnd", "release", "repPlan", "repVerify", "recDone", "recRestore",
                    "idle", "down"}
    BY <1>6 DEF UpdateDone, BaseDone, InstallDone, RepairIndex, RepairRefresh, RepairDone,
                RecoverVerify, RestoreDoc, Release, RecoverFails, Crash, TypeOK
  <2> QED BY <1>f, <2>1 DEF Working, Unfinished, Recovering
<1>7. CASE Outside(c)
  <2>1. /\ pc'[c] \in {"planDiff", "planned", "updLock", "insLock", "repLock", "recLock", "idle",
                       "updCheck", "base", "repIndex", "recRestore"}
    BY <1>7, OutsideQuiet
  <2>2. pc'[c] = "base" => InstallLock(c)
    BY <1>7 DEF Outside, PlanRead, PlanDiff, ApplyGet, InstallRead, RepairRead, Start, ApplyLock,
                RepairLock, RecoverLock, TryLock
  <2>3. pc'[c] = "base" => job' = job /\ job[c].op = "install"
    BY <1>o, <2>2 DEF InstallLock, TryLock
  <2> QED BY <1>f, <2>1, <2>3 DEF Working, Unfinished, Recovering
<1> QED BY <1>1, <1>2, <1>3, <1>4, <1>5, <1>6, <1>7, StepKinds DEF Inside

LEMMA StatusInvariant == Spec => [](\A c \in Cores : StatusHeld(c))
<1>1. Init => \A c \in Cores : StatusHeld(c)
  BY DEF Init, StatusHeld, Working, Unfinished
<1>2. ASSUME TxInv, \A c \in Cores : StatusHeld(c), [Next]_vars
      PROVE  \A c \in Cores : StatusHeld(c)'
  <2> SUFFICES ASSUME NEW c \in Cores PROVE StatusHeld(c)'
    OBVIOUS
  <2>1. CASE UNCHANGED <<doc, pc, job, pending>>
    BY <1>2, <2>1 DEF StatusHeld, Working, Unfinished, Recovering, NotInstalled, InStatus
  <2>2. CASE SyncDefinition \/ (\E p \in Paths : AddUserFile(p)) \/ Tamper
    BY <2>1, <2>2 DEF SyncDefinition, AddUserFile, Tamper, disk
  <2>3. ASSUME NEW d \in Cores, Step(d) \/ Fail(d) \/ Request(d) \/ Crash(d)
        PROVE  StatusHeld(c)'
    <3>1. CASE d = c
      BY <1>2, <2>3, <3>1, StatusStep
    <3>2. CASE d # c
      <4>1. /\ pc'[c] = pc[c] /\ job'[c] = job[c] /\ pending'[c] = pending[c]
            /\ lock = d \/ UNCHANGED <<doc, staging>>
        BY <1>2, <2>3, <3>2, CoreStep DEF StepOK
      <4>2. Working(c) => lock = c
        BY <1>2 DEF TxInv, LockOwner, Working, Unfinished, Recovering, Locked, Labels
      <4> QED BY <1>2, <3>2, <4>1, <4>2
              DEF StatusHeld, Working, Unfinished, Recovering, NotInstalled, InStatus
    <3> QED BY <3>1, <3>2
  <2> QED BY <1>2, <2>1, <2>2, <2>3 DEF Next, vars
<1>3. TxInv /\ (\A c \in Cores : StatusHeld(c)) /\ [Next]_vars => (\A c \in Cores : StatusHeld(c))'
  BY <1>2
<1> QED BY <1>1, <1>3, TxInvariant, PTL DEF Spec

(***************************************************************************)
(* Health.  Installed is said only after a full verification under the     *)
(* same lock, and what the verification looked at (files, natives, index)  *)
(* is not touched again while the instance says Installed: a repair of a   *)
(* healthy instance finds nothing to do.  While a core recovers (Settled   *)
(* is false) the status may be one that another process wrote, so nothing  *)
(* is claimed until the recovery has verified the instance itself.         *)
(***************************************************************************)
\* nobody but CentralCore changes the managed files
NoDamage == Faults \cap {"damage", "tamper"} = {}

\* the labels at which the index on disk, or about to be, has been verified
VerifiedLabels == {"updSelect", "updCommit", "updClean", "updDone", "baseDone", "insDone"}

\* no recovery has the lock
Settled == \A c \in Cores : ~Recovering(c)

HealthHeld(c) ==
    /\ Settled /\ InStatus("Installed") /\ IndexReadable => Healthy(doc["index"])
    /\ Settled /\ InStatus("Installed") /\ pending[c].file = "index" => Healthy(pending[c].val)
    /\ pending[c].file = "state" /\ pending[c].val.status = "Installed" /\ IndexReadable =>
          Healthy(doc["index"])
    /\ pc[c] \in VerifiedLabels => /\ IndexReadable => Healthy(doc["index"])
                                   /\ pending[c].file = "index" => Healthy(pending[c].val)
    /\ pc[c] = "updIndex" => Healthy(NewIndex(c))
    /\ pc[c] \in {"nativesOut", "nativesIn"} => NotInstalled(c)
    /\ pc[c] = "repCopy" /\ InStatus("Installed") => job[c].todo = {} /\ ~job[c].reextract

\* At a label where the instance does not say Installed there is nothing to show.
LEMMA HealthFree ==
    ASSUME NEW c \in Cores, NotInstalled(c)', pc'[c] \notin VerifiedLabels \cup {"updIndex"}
    PROVE  HealthHeld(c)'
BY DEF HealthHeld, NotInstalled

LEMMA WorkingFree ==
    ASSUME NEW c \in Cores, StatusHeld(c)', Working(c)',
           pc'[c] \notin VerifiedLabels \cup {"updIndex"}
    PROVE  HealthHeld(c)'
BY HealthFree DEF StatusHeld

\* Nor while the core recovers.
LEMMA RecoveringFree ==
    ASSUME NEW c \in Cores, Recovering(c)', pending'[c].file # "state"
    PROVE  HealthHeld(c)'
BY DEF HealthHeld, Settled, Recovering, VerifiedLabels

\* A core that has the lock and does not recover sees a settled instance.
LEMMA SettledInside ==
    ASSUME TxInv, NEW c \in Cores, lock = c, ~Recovering(c) PROVE Settled
BY DEF TxInv, LockOwner, Settled, Recovering, Locked, Labels

\* Recovery ends with its core.
LEMMA SettledBefore ==
    ASSUME TxInv, NEW c \in Cores, Step(c) \/ Fail(c) \/ Request(c) \/ Crash(c),
           Settled', ~Recovering(c)
    PROVE  Settled
BY CoreStep DEF StepOK, Settled, Recovering

\* Nothing written, and a label that asks for no more.
LEMMA HealthKept ==
    ASSUME NEW c \in Cores, HealthHeld(c), UNCHANGED <<files, natives, doc, pending>>,
           Settled' => Settled, pc'[c] \in VerifiedLabels => pc[c] \in VerifiedLabels,
           pc'[c] \in {"nativesOut", "nativesIn"} => pc[c] \in {"nativesOut", "nativesIn"},
           pc'[c] \notin {"updIndex", "repCopy"}
    PROVE  HealthHeld(c)'
BY DEF HealthHeld, NotInstalled, InStatus, IndexReadable, Healthy

\* Marking the state: Installed only over an index that is verified.
LEMMA MarkHealth ==
    ASSUME TypeOK, NEW c \in Cores, UNCHANGED <<files, natives>>,
           NEW s, NEW r, Mark(c, s, r), pc'[c] \notin VerifiedLabels \cup {"updIndex"},
           s = "Installed" => /\ pc'[c] \notin {"nativesOut", "nativesIn"}
                              /\ IndexReadable => Healthy(doc["index"])
    PROVE  HealthHeld(c)'
<1>1. /\ doc'["state"] = Absent /\ doc'["index"] = doc["index"]
      /\ pending'[c].file = "state" /\ pending'[c].val.status = s
  BY MarkDoes
<1>2. (IndexReadable' <=> IndexReadable) /\ (Healthy(doc["index"])' <=> Healthy(doc["index"]))
  BY <1>1 DEF IndexReadable, Healthy
<1> QED BY <1>1, <1>2 DEF HealthHeld, NotInstalled, InStatus

\* Replacing the index by one that files and natives agree with.
LEMMA ReplaceHealth ==
    ASSUME TypeOK, NEW c \in Cores, UNCHANGED <<files, natives>>, pending[c] = NoWrite,
           NEW v, Replace(c, "index", v), Healthy(v),
           pc'[c] \notin {"updIndex", "repCopy", "nativesOut", "nativesIn"}
    PROVE  HealthHeld(c)'
<1>1. doc'["index"] = Absent /\ pending'[c].file = "index" /\ pending'[c].val = v
  BY ReplaceDoes DEF DocNames
<1>2. Healthy(pending[c].val)'
  BY <1>1 DEF Healthy
<1> QED BY <1>1, <1>2 DEF HealthHeld, IndexReadable

\* The index of the base game lists the natives on disk and no provider file.
LEMMA BaseIndexHealthy == ASSUME NEW r PROVE Healthy(BaseIndexOf(r))
BY DEF Healthy, BaseIndexOf, NoFiles

\* A step of the core keeps the instance healthy.
LEMMA HealthStep ==
    ASSUME TxInv, NEW c \in Cores, StatusHeld(c), StatusHeld(c)', HealthHeld(c),
           Step(c) \/ Fail(c) \/ Request(c) \/ Crash(c),
           RecoverFails(c) \/ Crash(c) => (Recovering(c) => NotInstalled(c))
    PROVE  HealthHeld(c)'
<1> TypeOK
  BY DEF TxInv
<1> USE GotoDoes DEF At, disk, VerifiedLabels
<1>n. NoWrite.file = "none"
  BY DEF NoWrite
<1>s. /\ Settled' /\ ~Recovering(c) => Settled
      /\ lock = c /\ ~Recovering(c) => Settled
      /\ Inside(c) => lock = c
  BY SettledBefore, SettledInside, InsideHolds
<1>1. CASE \/ MakeStaging(c) \/ SaveSpec(c) \/ SaveIndex(c) \/ CopyFails(c)
           \/ (\E p \in Paths : StageFile(c, p)) \/ StageFails(c) \/ StageDone(c)
           \/ StartApplying(c) \/ CancelBeforeApply(c)
           \/ (\E p \in Paths : BackupFile(c, p)) \/ BackupDone(c)
           \/ (\E p \in Paths : ApplyFile(c, p)) \/ ApplyDone(c)
           \/ VerifyUpdate(c) \/ RollbackApplied(c) \/ RollbackBackups(c)
  <2>1. CASE pc'[c] # "updIndex"
    <3>1. Working(c)' /\ pc'[c] \notin VerifiedLabels \cup {"updIndex"}
      <4>1. pc[c] \in {"updMkdir", "saveSpec", "saveIndex", "updStage", "updApplying", "updBackup",
                       "updApply", "updVerify", "rollApplied", "rollBackups"}
        BY <1>1 DEF MakeStaging, SaveSpec, SaveIndex, CopyPrevious, CopyFails, StageFile,
                    StageFails, StageDone, StartApplying, CancelBeforeApply, BackupFile,
                    BackupDone, ApplyFile, ApplyDone, VerifyUpdate, RollbackApplied,
                    RollbackBackups
      <4> QED BY <1>1, <2>1, <4>1, QuietUpdate DEF Working, Unfinished, Recovering
    <3> QED BY <3>1, WorkingFree
  <2>2. CASE pc'[c] = "updIndex"
    <3>1. pc[c] = "updIndex" \/ pc[c] = "updVerify"
      BY <1>1, <2>2, QuietUpdate
    <3>2. VerifyUpdate(c)
      BY <1>1, <2>2, <3>1
         DEF MakeStaging, SaveSpec, SaveIndex, CopyPrevious, CopyFails, StageFile,
             StageFails, StageDone, StartApplying, CancelBeforeApply, BackupFile,
             BackupDone, ApplyFile, ApplyDone, RollbackApplied, RollbackBackups
    <3>3. /\ UNCHANGED <<files, natives, doc, job, pending>> /\ Healthy(NewIndex(c))
          /\ pending[c] = NoWrite /\ pc[c] = "updVerify"
      BY <2>2, <3>2 DEF VerifyUpdate
    <3>5. Settled' => Settled
      BY <1>s, <3>3 DEF Recovering
    <3>4. Healthy(NewIndex(c))'
      BY <3>3 DEF Healthy, NewIndex
    <3> QED BY <1>n, <2>2, <3>3, <3>4, <3>5
            DEF HealthHeld, InStatus, IndexReadable, Healthy
  <2> QED BY <2>1, <2>2
<1>2. CASE \/ (\E p \in Paths : InstallFile(c, p)) \/ InstallCopied(c) \/ BaseFetch(c)
           \/ InstallMark(c) \/ InstallSelect(c) \/ BaseBegin(c) \/ RebaseSpec(c) \/ RebaseDone(c)
           \/ ApplyBegin(c)
  <2>1. BaseFetch(c) => job[c].op # "repair"
    BY DEF BaseFetch, TxInv, Relies
  <2>2. /\ Working(c)' /\ pc'[c] \notin VerifiedLabels \cup {"updIndex"}
    <3>1. CASE RebaseSpec(c)
      <4>1. job[c].op = "update" /\ job' = job
        BY <3>1 DEF RebaseSpec, TxInv, Relies, UpdateLabels, StagedLabels
      <4> QED BY <3>1, <4>1 DEF RebaseSpec, Working, Unfinished, Recovering
    <3>2. CASE BaseFetch(c)
      BY <2>1, <3>2 DEF BaseFetch, Working, Unfinished, Recovering
    <3> QED BY <1>2, <3>1, <3>2
            DEF InstallFile, CopyInto, InstallCopied, InstallMark, InstallSelect, BaseBegin,
                RebaseDone, ApplyBegin, Working, Unfinished, Recovering
  <2> QED BY <2>2, WorkingFree
<1>21. CASE \/ PickStaging(c) \/ (\E p \in Paths : RestoreBackup(c, p)) \/ DropStaging(c)
            \/ RestoreDone(c) \/ (\E f \in {"spec", "index"} : RestoreDoc(c, f))
  <2>1. pc'[c] \in {"recRestore", "recVerify"}
    BY <1>21 DEF PickStaging, RestoreBackup, DropStaging, RestoreDone, RestoreDoc
  <2>2. pending'[c].file # "state"
    <3>1. ASSUME NEW f \in {"spec", "index"}, RestoreDoc(c, f) PROVE pending'[c].file = f
      BY <3>1 DEF RestoreDoc, TypeOK
    <3>2. CASE \/ PickStaging(c) \/ (\E p \in Paths : RestoreBackup(c, p)) \/ DropStaging(c)
               \/ RestoreDone(c)
      BY <1>n, <3>2 DEF PickStaging, RestoreBackup, DropStaging, RestoreDone
    <3> QED BY <1>21, <3>1, <3>2
  <2> QED BY <2>1, <2>2, RecoveringFree DEF Recovering
<1>3. CASE NativesOut(c) \/ NativesIn(c)
  <2>1. NotInstalled(c) /\ UNCHANGED <<doc, pending>>
    BY <1>3 DEF NativesOut, NativesIn, HealthHeld
  <2>2. NotInstalled(c)'
    BY <2>1 DEF NotInstalled, InStatus
  <2>3. pc'[c] \in {"nativesIn", "repRefresh", "baseIndex"}
    BY <1>3 DEF NativesOut, NativesIn
  <2> QED BY <2>2, <2>3, HealthFree
<1>4. CASE BaseIndex(c)
  <2>1. /\ Replace(c, "index", BaseIndexOf(BaseRevision(c))) /\ UNCHANGED <<files, natives>>
        /\ pending[c] = NoWrite /\ pc'[c] = "baseDone"
    BY <1>4 DEF BaseIndex
  <2> QED BY <2>1, BaseIndexHealthy, ReplaceHealth
<1>5. CASE CommitIndex(c) \/ InstallIndex(c)
  <2>1. /\ Replace(c, "index", NewIndex(c)) /\ UNCHANGED <<files, natives>>
        /\ pending[c] = NoWrite /\ pc'[c] \in {"updSelect", "insDone"}
    BY <1>5 DEF CommitIndex, InstallIndex
  <2>2. Healthy(NewIndex(c))
    BY <1>5 DEF CommitIndex, InstallIndex, HealthHeld
  <2> QED BY <2>1, <2>2, ReplaceHealth
<1>6. CASE CommitSelections(c) \/ CommitSpec(c)
  <2>1. /\ UNCHANGED <<files, natives>> /\ pending[c] = NoWrite /\ pc[c] \in VerifiedLabels
        /\ pc'[c] \in {"updCommit", "updClean"}
        /\ \/ UNCHANGED <<doc, pending>> \/ Replace(c, "selections", job[c].plan.sel)
           \/ Replace(c, "spec", job[c].plan.to)
    BY <1>6 DEF CommitSelections, CommitSpec
  <2>s. Settled' => Settled
    BY <1>s, <2>1 DEF Recovering
  <2>2. CASE UNCHANGED <<doc, pending>>
    BY <2>1, <2>2, <2>s, HealthKept
  <2>3. CASE Replace(c, "selections", job[c].plan.sel) \/ Replace(c, "spec", job[c].plan.to)
    <3>1. /\ doc'["index"] = doc["index"] /\ doc'["state"] = doc["state"]
          /\ pending'[c].file \in {"selections", "spec"}
      BY <2>3, ReplaceDoes DEF DocNames
    <3>2. (IndexReadable' <=> IndexReadable) /\ (Healthy(doc["index"])' <=> Healthy(doc["index"]))
      BY <2>1, <3>1 DEF IndexReadable, Healthy
    <3> QED BY <2>1, <2>s, <3>1, <3>2 DEF HealthHeld, InStatus
  <2> QED BY <2>1, <2>2, <2>3
<1>7. CASE UpdateDone(c) \/ BaseDone(c) \/ InstallDone(c)
  <2>1. /\ UNCHANGED <<files, natives>> /\ pc[c] \in VerifiedLabels
        /\ pc'[c] \in {"ok", "baseEnd", "release"} /\ \E r : Mark(c, "Installed", r)
    BY <1>7 DEF UpdateDone, BaseDone, InstallDone
  <2> QED BY <2>1, MarkHealth DEF HealthHeld
<1>8. CASE RepairDone(c) \/ RecoverVerify(c)
  <2>1. UNCHANGED <<files, natives>> /\ pc'[c] \in {"ok", "recDone"}
    BY <1>8 DEF RepairDone, RecoverVerify
  <2>2. PICK s, r : Mark(c, s, r) /\ (s = "Installed" /\ IndexReadable => Healthy(doc["index"]))
    BY <1>8 DEF RepairDone, RecoverVerify
  <2> QED BY <2>1, <2>2, MarkHealth
<1>9. CASE \/ UpdateFails(c) \/ (\E why \in Why : BaseFails(c, why)) \/ InstallFails(c)
           \/ RepairFails(c)
  <2>1. UNCHANGED <<files, natives>> /\ pc'[c] \in {"err", "updFail", "release"}
    BY <1>9 DEF UpdateFails, BaseFails, InstallFails, RepairFails
  <2>2. \E r : \E s \in {"Interrupted", "Broken"} : Mark(c, s, r)
    BY <1>9 DEF UpdateFails, BaseFails, InstallFails, RepairFails
  <2> QED BY <2>1, <2>2, MarkHealth
<1>10. CASE RepairIndex(c)
  <2>1. /\ UNCHANGED <<files, natives>> /\ pending[c] = NoWrite /\ pc'[c] = "repPlan"
        /\ pc[c] = "repIndex"
        /\ UNCHANGED <<doc, pending>> \/ Replace(c, "index", BaseIndexOf(job[c].inst))
    BY <1>10 DEF RepairIndex
  <2>2. Settled' => Settled
    BY <1>s, <2>1 DEF Recovering
  <2> QED BY <2>1, <2>2, BaseIndexHealthy, HealthKept, ReplaceHealth
<1>11. CASE RepairPlan(c)
  <2>1. /\ UNCHANGED <<files, natives, doc, pending>> /\ IndexReadable /\ pc'[c] = "repCopy"
        /\ pending[c] = NoWrite /\ pc[c] = "repPlan"
    BY <1>11 DEF RepairPlan
  <2>s. Settled
    BY <1>s, <1>11, <2>1 DEF Inside, Recovering
  <2> DEFINE t == {p \in Paths : /\ doc["index"].files[p] # Absent
                                 /\ files[p] # doc["index"].files[p]}
             r == natives # doc["index"].natives
  <2>2. job' = [job EXCEPT ![c] = [@ EXCEPT !.todo = t, !.reextract = r]]
    BY <1>11 DEF RepairPlan
  <2>3. InStatus("Installed") => t = {} /\ ~r
    BY <2>1, <2>s DEF HealthHeld, Healthy
  <2> HIDE DEF t, r
  <2>4. job'[c].todo = t /\ job'[c].reextract = r
    <3>1. job[c] \in Job /\ job'[c] = [job[c] EXCEPT !.todo = t, !.reextract = r]
      BY <2>2 DEF TypeOK
    <3> QED BY ONLY <3>1 DEF Job
  <2> QED BY <1>n, <2>1, <2>s, <2>3, <2>4 DEF HealthHeld, InStatus, IndexReadable, Healthy
<1>12. CASE \E p \in Paths : RepairFile(c, p)
  <2>1. /\ pc[c] = "repCopy" /\ pc'[c] = "repCopy" /\ job[c].todo # {} /\ UNCHANGED <<doc, pending>>
        /\ pending[c] = NoWrite
    BY <1>12 DEF RepairFile, CopyInto
  <2>2. NotInstalled(c)
    BY <1>n, <2>1 DEF HealthHeld, NotInstalled
  <2>3. NotInstalled(c)'
    BY <2>1, <2>2 DEF NotInstalled, InStatus
  <2> QED BY <2>1, <2>3, HealthFree
<1>13. CASE RepairCopied(c)
  <2>1. /\ UNCHANGED <<files, natives, doc, pending>> /\ pending[c] = NoWrite /\ pc[c] = "repCopy"
        /\ pc'[c] = "repRefresh" \/ (job[c].reextract /\ pc'[c] = "nativesOut")
    BY <1>13 DEF RepairCopied
  <2>2. CASE pc'[c] = "repRefresh"
    <3>1. Settled' => Settled
      BY <1>s, <2>1 DEF Recovering
    <3> QED BY <2>1, <2>2, <3>1, HealthKept
  <2>3. CASE job[c].reextract /\ pc'[c] = "nativesOut"
    <3>1. NotInstalled(c)
      BY <1>n, <2>1, <2>3 DEF HealthHeld, NotInstalled
    <3>2. NotInstalled(c)'
      BY <2>1, <3>1 DEF NotInstalled, InStatus
    <3> QED BY <2>3, <3>2, HealthFree
  <2> QED BY <2>1, <2>2, <2>3
<1>14. CASE RepairRefresh(c)
  <2>1. /\ Replace(c, "index", doc["index"]) /\ UNCHANGED <<files, natives>>
        /\ pending[c] = NoWrite /\ pc'[c] = "repVerify" /\ pc[c] = "repRefresh"
    BY <1>14 DEF RepairRefresh
  <2>2. IndexReadable
    BY <2>1 DEF TxInv, Relies, UsesIndex
  <2>3. CASE InStatus("Installed")
    <3>1. Settled
      BY <1>s, <1>14, <2>1 DEF Inside, Recovering
    <3> QED BY <2>1, <2>2, <2>3, <3>1, ReplaceHealth DEF HealthHeld
  <2>4. CASE ~InStatus("Installed")
    <3>1. /\ doc'["state"] = doc["state"] /\ pending'[c].file = "index"
      BY <2>1, ReplaceDoes DEF DocNames
    <3>2. NotInstalled(c)'
      BY <2>4, <3>1 DEF NotInstalled, InStatus
    <3> QED BY <2>1, <3>2, HealthFree
  <2> QED BY <2>3, <2>4
<1>15. CASE Rename(c)
  <2>1. /\ pc' = pc /\ job' = job /\ pending'[c].file = "none" /\ UNCHANGED <<files, natives>>
    BY <1>15, <1>n, RenameDoes
  <2>s. Settled' <=> Settled
    BY <2>1 DEF Settled, Recovering
  <2>2. CASE pending[c].file = "index"
    <3>1. doc'["index"] = pending[c].val /\ doc'["state"] = doc["state"]
      BY <1>15, <2>2, RenameDoes DEF DocNames
    <3>2. Healthy(doc["index"])' <=> Healthy(pending[c].val)
      BY <2>1, <3>1 DEF Healthy
    <3>3. pc[c] # "updIndex"
      BY <1>n, <2>2 DEF TxInv, Relies, UsesIndex
    <3> QED BY <2>1, <2>2, <2>s, <3>1, <3>2, <3>3
            DEF HealthHeld, InStatus, NotInstalled
  <2>3. CASE pending[c].file # "index"
    <3>1. doc'["index"] = doc["index"]
      BY <1>15, <2>3, RenameDoes DEF DocNames
    <3>2. /\ Healthy(doc["index"])' <=> Healthy(doc["index"])
          /\ Healthy(NewIndex(c))' <=> Healthy(NewIndex(c))
          /\ IndexReadable' <=> IndexReadable
      BY <2>1, <3>1 DEF Healthy, NewIndex, IndexReadable
    <3>3. doc'["state"] = IF pending[c].file = "state" THEN pending[c].val ELSE doc["state"]
      BY <1>15, RenameDoes DEF DocNames
    <3>4. pc[c] = "repCopy" => pending[c].file = "none"
      BY <1>n DEF TxInv, Relies, UsesIndex
    <3> QED BY <2>1, <2>3, <2>s, <3>1, <3>2, <3>3, <3>4
            DEF HealthHeld, InStatus, NotInstalled
  <2> QED BY <2>2, <2>3
<1>16. CASE BaseIndexFails(c)
  <2>1. /\ UNCHANGED <<files, natives, doc, pending>>
        /\ pc'[c] \in {"updFail", "release"} /\ pc[c] = "baseIndex"
    BY <1>16 DEF BaseIndexFails
  <2> QED BY <1>s, <2>1, HealthKept DEF Recovering
<1>17. CASE ApplyRefuse(c) \/ BaseEnd(c) \/ RecoverDone(c) \/ Release(c)
  <2>1. /\ UNCHANGED <<files, natives, doc, pending>>
        /\ pc'[c] \in {"release", "updRemark", "insMark", "idle"} /\ ~Recovering(c)
    BY <1>17 DEF ApplyRefuse, BaseEnd, RecoverDone, Release, Recovering
  <2> QED BY <1>s, <2>1, HealthKept
<1>22. CASE RecoverFails(c)
  <2>1. NotInstalled(c) /\ UNCHANGED <<doc, pending>> /\ pc'[c] = "down"
    BY <1>22 DEF RecoverFails, Recovering
  <2>2. NotInstalled(c)'
    BY <2>1 DEF NotInstalled, InStatus
  <2> QED BY <2>1, <2>2, HealthFree
<1>18. CASE CleanStaging(c)
  <2>1. /\ UNCHANGED <<files, natives, doc, pending>> /\ pc[c] = "updClean"
        /\ pc'[c] \in {"updClean", "updDone"}
    BY <1>18 DEF CleanStaging
  <2> QED BY <1>s, <2>1, HealthKept DEF Recovering
<1>19. CASE Outside(c)
  <2>1. /\ UNCHANGED <<files, natives, doc, pending>> /\ pending[c] = NoWrite
        /\ pc'[c] \in {"planDiff", "planned", "updLock", "insLock", "repLock", "recLock", "idle",
                       "updCheck", "base", "repIndex", "recRestore"}
        /\ ~Recovering(c)
    BY <1>19, OutsideQuiet DEF Recovering, Locked, Labels
  <2>2. CASE pc'[c] = "recRestore"
    BY <1>n, <2>1, <2>2, RecoveringFree DEF Recovering
  <2>3. CASE pc'[c] # "recRestore"
    BY <1>s, <2>1, <2>3, HealthKept
  <2> QED BY <2>2, <2>3
<1>20. CASE Crash(c)
  <2>1. /\ UNCHANGED <<files, natives, doc>> /\ pending'[c] = NoWrite /\ pc'[c] = "down"
    BY <1>20 DEF Crash, TypeOK
  <2>2. CASE Recovering(c)
    <3>1. NotInstalled(c)
      BY <1>20, <2>2
    <3>2. NotInstalled(c)'
      BY <1>n, <2>1, <3>1 DEF NotInstalled, InStatus
    <3> QED BY <2>1, <3>2, HealthFree
  <2>3. CASE ~Recovering(c)
    BY <1>n, <1>s, <2>1, <2>3 DEF HealthHeld, InStatus, IndexReadable, Healthy
  <2> QED BY <2>2, <2>3
<1> QED BY <1>1, <1>2, <1>3, <1>4, <1>5, <1>6, <1>7, <1>8, <1>9, <1>10, <1>11, <1>12, <1>13,
           <1>14, <1>15, <1>16, <1>17, <1>18, <1>19, <1>20, <1>21, <1>22, StepKinds
        DEF Inside

\* What it is for the core that steps it is for the others, which are outside.
LEMMA HealthOthers ==
    ASSUME TxInv, NEW d \in Cores, Step(d) \/ Fail(d) \/ Request(d) \/ Crash(d),
           HealthHeld(d)', NEW c \in Cores, c # d, HealthHeld(c),
           RecoverFails(d) \/ Crash(d) => (Recovering(d) => NotInstalled(d))
    PROVE  HealthHeld(c)'
<1>1. pc'[c] = pc[c] /\ job'[c] = job[c] /\ pending'[c] = pending[c]
  BY CoreStep DEF StepOK
<1>2. CASE pc[c] \notin Locked
  <2>1. pending'[c].file = "none" /\ pc'[c] \notin Locked
    BY <1>1, <1>2 DEF TxInv, LockOwner, NoWrite
  <2> QED BY <2>1 DEF HealthHeld, VerifiedLabels, Locked, Labels
<1>3. CASE pc[c] \in Locked
  <2>1. lock = c /\ lock # d
    BY <1>3, InsideOwns
  <2>2. CASE Outside(d)
    <3>1. UNCHANGED <<files, natives, doc>> /\ ~Recovering(d)
      BY <2>2, OutsideQuiet DEF TxInv, Recovering, Locked, Labels
    <3>2. Settled' => Settled
      BY <3>1, SettledBefore
    <3>3. /\ Healthy(doc["index"])' <=> Healthy(doc["index"])
          /\ Healthy(pending[c].val)' <=> Healthy(pending[c].val)
          /\ Healthy(NewIndex(c))' <=> Healthy(NewIndex(c))
      BY <1>1, <3>1 DEF Healthy, NewIndex
    <3> QED BY <1>1, <3>1, <3>2, <3>3 DEF HealthHeld, NotInstalled, InStatus, IndexReadable
  <2>3. CASE Inside(d) \/ Release(d) \/ RecoverFails(d)
    BY <2>1, <2>3, InsideHolds, InsideOwns DEF Release, RecoverFails, At, Locked, Labels
  <2>4. CASE Crash(d)
    <3>1. UNCHANGED <<files, natives, doc>> /\ ~Recovering(d)
      BY <2>1, <2>4, InsideOwns DEF Crash, disk, Recovering, Locked, Labels
    <3>2. Settled' => Settled
      BY <3>1, SettledBefore
    <3>3. /\ Healthy(doc["index"])' <=> Healthy(doc["index"])
          /\ Healthy(pending[c].val)' <=> Healthy(pending[c].val)
          /\ Healthy(NewIndex(c))' <=> Healthy(NewIndex(c))
      BY <1>1, <3>1 DEF Healthy, NewIndex
    <3> QED BY <1>1, <3>1, <3>2, <3>3 DEF HealthHeld, NotInstalled, InStatus, IndexReadable
  <2> QED BY <2>2, <2>3, <2>4, StepKinds
<1> QED BY <1>2, <1>3

LEMMA HealthInductive ==
    ASSUME NoDamage, TxInv, \A c \in Cores : StatusHeld(c) /\ HealthHeld(c),
           \A c \in Cores : StatusHeld(c)', [Next]_vars,
           \A c \in Cores : RecoverFails(c) \/ Crash(c) => (Recovering(c) => NotInstalled(c))
    PROVE  \A c \in Cores : HealthHeld(c)'
<1> SUFFICES ASSUME NEW c \in Cores PROVE HealthHeld(c)'
  OBVIOUS
<1>1. CASE UNCHANGED <<files, natives, doc, pc, job, pending>>
  <2>1. NewIndex(c)' = NewIndex(c)
    BY <1>1 DEF NewIndex
  <2>2. /\ Healthy(doc["index"])' <=> Healthy(doc["index"])
        /\ Healthy(pending[c].val)' <=> Healthy(pending[c].val)
        /\ Healthy(NewIndex(c))' <=> Healthy(NewIndex(c))
    BY <1>1, <2>1 DEF Healthy
  <2> QED BY <1>1, <2>2
          DEF HealthHeld, NotInstalled, InStatus, IndexReadable, Settled, Recovering
<1>2. CASE SyncDefinition
  BY <1>1, <1>2 DEF SyncDefinition, disk
<1>3. CASE Tamper
  BY <1>3 DEF Tamper, NoDamage
<1>4. ASSUME NEW p \in Paths, AddUserFile(p) PROVE HealthHeld(c)'
  <2>1. /\ UNCHANGED <<natives, doc, pc, job, pending>>
        /\ IndexReadable => doc["index"].files[p] = Absent
        /\ files' = [files EXCEPT ![p] = UserFile]
        /\ lock = NoCore
    BY <1>4 DEF AddUserFile
  <2>2. pc[c] \notin VerifiedLabels \cup {"updIndex"} /\ pending[c].file = "none"
    BY <2>1, InputAssumption
       DEF TxInv, LockOwner, Locked, Labels, VerifiedLabels, InputAssumption, NoWrite
  <2>3. IndexReadable /\ Healthy(doc["index"]) => Healthy(doc["index"])'
    BY <2>1 DEF Healthy, TxInv, TypeOK
  <2> QED BY <2>1, <2>2, <2>3
          DEF HealthHeld, NotInstalled, InStatus, IndexReadable, Settled, Recovering
<1>5. ASSUME NEW d \in Cores, Step(d) \/ Fail(d) \/ Request(d) \/ Crash(d)
      PROVE  HealthHeld(c)'
  <2>1. HealthHeld(d)'
    BY <1>5, HealthStep
  <2> QED BY <1>5, <2>1, HealthOthers
<1> QED BY <1>1, <1>2, <1>3, <1>4, <1>5 DEF Next, vars

\* A recovery that ends early leaves an instance that does not say Installed: for one core
\* its status is its own, and without interruptions a recovery always verifies.
LEMMA RecoveryEnds ==
    ASSUME TxInv, NEW c \in Cores, RecoverFails(c) \/ Crash(c), Recovering(c),
           VersionHeld(c) \/ (Uninterrupted /\ SpecHeld)
    PROVE  NotInstalled(c)
<1>1. CASE VersionHeld(c)
  BY <1>1 DEF VersionHeld, Unfinished, Recovering
<1>2. CASE Uninterrupted /\ SpecHeld
  <2>1. RecoverFails(c) /\ lock = c
    BY <1>2, InsideOwns DEF Crash, Uninterrupted, Recovering, Locked, Labels
  <2>2. SpecAt(c)
    BY <1>2, <2>1, SpecSeen
  <2> QED BY <2>1, <2>2 DEF RecoverFails, At, SpecAt, NoWrite
<1> QED BY <1>1, <1>2

\* Where no core works, nothing is ever installed.
LEMMA NobodyInstalls == Cores = {} => (Spec => []HealthyWhenInstalled)
<1> SUFFICES ASSUME Cores = {} PROVE Spec => []HealthyWhenInstalled
  OBVIOUS
<1> DEFINE None == doc["state"] = Absent
<1>1. Init => None
  BY DEF Init
<1>2. None /\ [Next]_vars => None'
  BY DEF Next, vars, SyncDefinition, AddUserFile, Tamper, disk
<1>3. None => HealthyWhenInstalled
  BY DEF HealthyWhenInstalled, InStatus
<1> HIDE DEF None
<1> QED BY <1>1, <1>2, <1>3, PTL DEF Spec

\* When nobody damages its files, an instance that says Installed passes full verification,
\* whatever files the user added: with one core, whatever transaction was killed between any
\* two of its file-system effects, failed, was rolled back, retried or recovered before; and
\* with any number of cores, when none is killed or meets an error of its I/O, whatever
\* installations, updates, rollbacks, repairs and recoveries they interleave.
THEOREM InstalledIsHealthy ==
    ASSUME Alone \/ Uninterrupted, NoDamage PROVE Spec => []HealthyWhenInstalled
<1> DEFINE Held == \A c \in Cores : HealthHeld(c)
           Marked == \A c \in Cores : StatusHeld(c)
           Ends == (\A c \in Cores : VersionHeld(c)) \/ (Uninterrupted /\ SpecHeld)
<1>1. Init => Held
  BY DEF Init, HealthHeld, InStatus, NotInstalled, VerifiedLabels, NoWrite
<1>2. TxInv /\ Ends /\ Marked /\ Marked' /\ Held /\ [Next]_vars => Held'
  <2> SUFFICES ASSUME TxInv, Ends, Marked, Marked', Held, [Next]_vars PROVE Held'
    OBVIOUS
  <2>1. ASSUME NEW c \in Cores, RecoverFails(c) \/ Crash(c), Recovering(c)
        PROVE  NotInstalled(c)
    BY <2>1, RecoveryEnds
  <2> QED BY <2>1, HealthInductive
<1>3. TxInv /\ Held => HealthyWhenInstalled \/ Cores = {}
  BY InputAssumption
     DEF TxInv, LockOwner, HealthHeld, HealthyWhenInstalled, Quiet, Settled, Recovering, Locked,
         Labels, InputAssumption
<1>4. Spec => []Ends
  <2>1. CASE Alone
    <3>1. (\A c \in Cores : VersionHeld(c)) => Ends
      OBVIOUS
    <3> HIDE DEF Ends
    <3> QED BY <2>1, <3>1, VersionInvariant, PTL
  <2>2. CASE Uninterrupted
    <3>1. SpecHeld => Ends
      BY <2>2
    <3> HIDE DEF Ends
    <3> QED BY <2>2, <3>1, SpecInvariant, PTL
  <2> QED BY <2>1, <2>2
<1>5. Spec => []Marked
  BY StatusInvariant
<1>6. CASE Cores = {}
  BY <1>6, NobodyInstalls
<1>7. CASE Cores # {}
  <2>1. TxInv /\ Held => HealthyWhenInstalled
    BY <1>3, <1>7
  <2> HIDE DEF Held, Marked, Ends
  <2> QED BY <1>1, <1>2, <1>4, <1>5, <2>1, TxInvariant, PTL DEF Spec
<1> QED BY <1>6, <1>7

(***************************************************************************)
(* Rollback.  Without a crash or damage, the provider files of the index   *)
(* are on disk before an update begins (IndexFits), so the only way to the *)
(* error arm after a file was moved is through rollback_update_files; and  *)
(* while files are moved, each path is where the transaction can put it    *)
(* back from (MovesHeld).                                                  *)
(***************************************************************************)
\* no crash, no damage: errors, cancellations and files of the user
Undisturbed == Faults \subseteq {"fail", "user"}

\* the files an index lists are among fs
Agrees(index, fs) == \A p \in Paths : index.files[p] # Absent => fs[p] = index.files[p]

Want(c)    == Desired[job[c].plan.to, job[c].plan.sel]
Incoming(c) == job[c].plan.downloads \cup job[c].plan.replacements
Outgoing(c) == job[c].plan.removals \cup job[c].plan.replacements
Backup(c)  == staging[job[c].tx].backups
Staged(c)  == staging[job[c].tx].staged

\* the update has a plan, and later: its transaction has begun and moved no file yet
PlannedLabels == {"planned", "updLock", "updCheck"}

Preparing(c) ==
    \/ pc[c] \in {"updMkdir", "saveSpec", "saveIndex", "updStage", "updSpec", "updRemark",
                  "updApplying"}
    \/ pc[c] \in BaseLabels /\ job[c].op = "update"

\* the files are being moved, forth or back
MovingLabels == {"updBackup", "updApply", "updVerify", "rollApplied", "rollBackups"}

\* every changed file is in staging
StagedAll(c) ==
    Preparing(c) /\ pc[c] \notin {"updMkdir", "saveSpec", "saveIndex", "updStage"}

\* an installation: the index lists the base game only
BareLabels(c) ==
    \/ pc[c] \in {"insMark", "insSelect", "insFiles", "insVerify"}
    \/ pc[c] \in {"baseDone", "baseEnd"} /\ job[c].op # "update"

NoRecovery(c) ==
    /\ pc[c] \notin {"recLock", "recRestore", "recVerify", "recDone"}
    /\ pc[c] = "down" => doc["state"] = Absent

\* the index speaks of the files on disk, or of those before the moves of an update
IndexFits(c) ==
    /\ IndexReadable =>
          Agrees(doc["index"],
                 IF pc[c] \in MovingLabels \cup {"updIndex"} THEN prior.files ELSE files)
    /\ pending[c].file = "index" => /\ pending[c].val \in Index
                                    /\ Agrees(pending[c].val, files)
    /\ pc[c] \in MovingLabels \cup {"updIndex"} => pending[c] = NoWrite
    /\ pc[c] = "updIndex" => Agrees(NewIndex(c), files)
    /\ BareLabels(c) => /\ IndexReadable => doc["index"].files = NoFiles
                        /\ pending[c].file = "index" => pending[c].val.files = NoFiles
    /\ pc[c] = "repCopy" => job[c].todo = {}

\* no file has moved, or every one is back
FilesBefore(c) == pc[c] = "updFail" \/ Preparing(c) => files = prior.files

\* what the plan says of the files it was computed from
PlanHeld(c) ==
    /\ pc[c] \in PlannedLabels \cup {"updBackup", "updApply", "updVerify"} \/ Preparing(c) =>
          /\ pending[c].file = "index" \/ IndexReadable
          /\ \A p \in Paths : Want(c)[p] # Absent => p \in Incoming(c) \/ files[p] # Absent
          /\ \A p \in Incoming(c) : Want(c)[p] # Absent
          /\ \A p \in job[c].plan.removals : Want(c)[p] = Absent
    /\ pc[c] \in PlannedLabels \/ Preparing(c) =>
          \A p \in Outgoing(c) : files[p] \in Contents
    /\ pc[c] \in PlannedLabels \cup {"planDiff", "updBackup", "rollBackups"} \/ Preparing(c) =>
          job[c].applied = {}

StageHeld(c) ==
    /\ Preparing(c) /\ pc[c] # "updMkdir" => Backup(c) = NoFiles
    /\ pc[c] = "updStage" => \A p \in Incoming(c) : p \in job[c].todo \/ Staged(c)[p] # Absent
    /\ StagedAll(c) \/ pc[c] \in {"updBackup", "updApply"} =>
          \A p \in Incoming(c) : p \in job[c].applied \/ Staged(c)[p] # Absent

\* while files are moved
MovesHeld(c) ==
    pc[c] \in MovingLabels => \A p \in Paths :
        /\ Backup(c)[p] # Absent => prior.files[p] = Backup(c)[p] /\ p \in Outgoing(c)
        /\ p \notin job[c].applied =>
              files[p] = IF Backup(c)[p] = Absent THEN prior.files[p] ELSE Absent
        /\ p \in job[c].applied => /\ Backup(c)[p] = Absent => prior.files[p] = Absent
                                   /\ files[p] \in Contents
        /\ pc[c] = "updBackup" /\ p \in job[c].todo =>
              Backup(c)[p] = Absent /\ files[p] \in Contents /\ p \in Outgoing(c)
        /\ pc[c] = "updApply" => /\ p \in job[c].todo => p \in Incoming(c) \ job[c].applied
                                 /\ p \in Incoming(c) => p \in job[c].todo \cup job[c].applied
        /\ pc[c] = "updVerify" /\ p \in Incoming(c) => p \in job[c].applied
        /\ pc[c] = "rollBackups" /\ Backup(c)[p] # Absent => p \in job[c].todo

FilesHeld(c) ==
    NoRecovery(c) /\ IndexFits(c) /\ FilesBefore(c) /\ PlanHeld(c) /\ StageHeld(c) /\ MovesHeld(c)

\* A step that moves no file, writes no index, and goes to a label that asks for no more.
LEMMA FilesKept ==
    ASSUME NEW c \in Cores, FilesHeld(c),
           files' = files, doc'["index"] = doc["index"],
           pending[c].file # "index", pending'[c].file # "index",
           pc[c] \notin MovingLabels \cup {"updIndex"},
           pc'[c] \notin MovingLabels \cup {"updIndex", "updStage", "repCopy", "planDiff", "down",
                                            "recLock", "recRestore", "recVerify", "recDone"},
           BareLabels(c)' => BareLabels(c),
           pc'[c] = "updFail" \/ Preparing(c)' =>
              (pc[c] = "updFail" \/ Preparing(c)) /\ prior' = prior,
           pc'[c] \in PlannedLabels \/ Preparing(c)' =>
              /\ pc[c] \in PlannedLabels \/ Preparing(c)
              /\ job'[c].plan = job[c].plan /\ job'[c].applied = job[c].applied,
           Preparing(c)' /\ pc'[c] # "updMkdir" =>
              /\ Preparing(c) /\ pc[c] # "updMkdir"
              /\ staging' = staging /\ job'[c].tx = job[c].tx,
           StagedAll(c)' => StagedAll(c)
    PROVE  FilesHeld(c)'
<1>1. NoRecovery(c)'
  BY DEF NoRecovery
<1>2. IndexFits(c)'
  BY DEF FilesHeld, IndexFits, IndexReadable, Agrees
<1>3. FilesBefore(c)'
  BY DEF FilesHeld, FilesBefore
<1>4. PlanHeld(c)'
  BY DEF FilesHeld, PlanHeld, Want, Incoming, Outgoing, IndexReadable, MovingLabels
<1>5. StageHeld(c)'
  BY DEF FilesHeld, StageHeld, Incoming, Backup, Staged, StagedAll, MovingLabels
<1>6. MovesHeld(c)'
  BY DEF MovesHeld
<1> QED BY <1>1, <1>2, <1>3, <1>4, <1>5, <1>6 DEF FilesHeld

\* Writing one path of the backups, or of the staged files.
LEMMA BackupDoes ==
    ASSUME TypeOK, NEW c \in Cores, job[c].tx \in TxIds, staging[job[c].tx] \in Stage,
           job'[c].tx = job[c].tx, NEW p \in Paths, NEW v,
           staging' = [staging EXCEPT ![job[c].tx].backups[p] = v]
    PROVE  /\ Backup(c)'[p] = v /\ \A q \in Paths \ {p} : Backup(c)'[q] = Backup(c)[q]
           /\ Staged(c)' = Staged(c)
<1>1. staging'[job[c].tx] = [staging[job[c].tx] EXCEPT !.backups[p] = v]
  BY DEF TypeOK
<1>2. PICK st \in Stage : st = staging[job[c].tx]
  OBVIOUS
<1>3. PICK new : new = [st EXCEPT !.backups[p] = v]
  OBVIOUS
<1>4. /\ new.backups[p] = v /\ \A q \in Paths \ {p} : new.backups[q] = st.backups[q]
      /\ new.staged = st.staged
  BY <1>3 DEF Stage
<1>5. staging'[job'[c].tx] = new
  BY <1>1, <1>2, <1>3
<1> QED BY <1>2, <1>4, <1>5 DEF Backup, Staged

LEMMA StagedDoes ==
    ASSUME TypeOK, NEW c \in Cores, job[c].tx \in TxIds, staging[job[c].tx] \in Stage,
           job'[c].tx = job[c].tx, NEW p \in Paths, NEW v,
           staging' = [staging EXCEPT ![job[c].tx].staged[p] = v]
    PROVE  /\ Staged(c)'[p] = v /\ \A q \in Paths \ {p} : Staged(c)'[q] = Staged(c)[q]
           /\ Backup(c)' = Backup(c)
<1>1. staging'[job[c].tx] = [staging[job[c].tx] EXCEPT !.staged[p] = v]
  BY DEF TypeOK
<1>2. PICK st \in Stage : st = staging[job[c].tx]
  OBVIOUS
<1>3. PICK new : new = [st EXCEPT !.staged[p] = v]
  OBVIOUS
<1>4. /\ new.staged[p] = v /\ \A q \in Paths \ {p} : new.staged[q] = st.staged[q]
      /\ new.backups = st.backups
  BY <1>3 DEF Stage, Table
<1>5. staging'[job'[c].tx] = new
  BY <1>1, <1>2, <1>3
<1> QED BY <1>2, <1>4, <1>5 DEF Backup, Staged

\* The files of the instance are a function of the paths, before and after.
LEMMA FilesTyped ==
    ASSUME TypeOK
    PROVE  /\ files \in [Paths -> Slot \cup {UserFile}]
           /\ prior.files \in [Paths -> Slot \cup {UserFile}]
BY DEF TypeOK, Prior

\* Moving files forth and back keeps what each path can be put back from.
LEMMA MovesKeep ==
    ASSUME TxInv, NEW c \in Cores, FilesHeld(c),
           \/ StartApplying(c) \/ CancelBeforeApply(c)
           \/ (\E p \in Paths : BackupFile(c, p)) \/ BackupDone(c)
           \/ (\E p \in Paths : ApplyFile(c, p)) \/ ApplyDone(c)
           \/ VerifyUpdate(c) \/ RollbackApplied(c) \/ RollbackBackups(c)
    PROVE  FilesHeld(c)'
<1> TypeOK
  BY DEF TxInv
<1> USE GotoDoes DEF At, disk, MovingLabels, PlannedLabels, BaseLabels
<1>a. pc[c] \in MovingLabels \cup {"updApplying"}
  BY DEF StartApplying, CancelBeforeApply, BackupFile, BackupDone, ApplyFile, ApplyDone,
         VerifyUpdate, RollbackApplied, RollbackBackups
<1>b. /\ job[c].tx \in TxIds /\ staging[job[c].tx] # Absent /\ staging[job[c].tx] \in Stage
  BY <1>a, StagingThere DEF StagedLabels
<1>c. /\ doc' = doc /\ pending' = pending /\ pending[c] = NoWrite /\ pending[c].file = "none"
      /\ job'[c].op = job[c].op /\ job'[c].plan = job[c].plan /\ job'[c].tx = job[c].tx
  BY QuietUpdate DEF NoWrite
<1>d. prior' = prior
  BY DEF StartApplying, CancelBeforeApply, BackupFile, BackupDone, ApplyFile, ApplyDone,
         VerifyUpdate, RollbackApplied, RollbackBackups
<1>e. /\ IndexReadable' <=> IndexReadable
      /\ Want(c)' = Want(c) /\ Incoming(c)' = Incoming(c) /\ Outgoing(c)' = Outgoing(c)
  BY <1>c DEF IndexReadable, Want, Incoming, Outgoing
<1>f. Absent \notin Contents /\ Slot = Contents \cup {Absent} /\ UserFile \notin Slot
  BY MarkerAssumption DEF MarkerAssumption, Slot
<1>g. Incoming(c) \subseteq Paths /\ Outgoing(c) \subseteq Paths
  BY JobTyped DEF Incoming, Outgoing
<1>h. NoRecovery(c)'
  BY <1>a, QuietUpdate DEF NoRecovery
<1>i. ~Preparing(c)' /\ ~BareLabels(c)' /\ ~StagedAll(c)'
  <2>1. pc[c] = "updApplying" => StartApplying(c)
    BY DEF CancelBeforeApply, BackupFile, BackupDone, ApplyFile, ApplyDone,
           VerifyUpdate, RollbackApplied, RollbackBackups
  <2>2. pc'[c] \in MovingLabels \cup {"updFail", "updIndex"}
    BY <1>a, <2>1, QuietUpdate DEF StartApplying
  <2> QED BY <2>2 DEF Preparing, BareLabels, StagedAll
<1>1. CASE StartApplying(c)
  <2>1. /\ files' = files /\ staging' = staging /\ pc[c] = "updApplying" /\ pc'[c] = "updBackup"
        /\ job'[c].todo = Outgoing(c) /\ job'[c].applied = job[c].applied
    BY <1>1, TodoDoes DEF StartApplying, Outgoing
  <2>2. Preparing(c) /\ StagedAll(c)
    BY <2>1 DEF Preparing, StagedAll
  <2>3. /\ Backup(c) = NoFiles /\ files = prior.files /\ job[c].applied = {}
        /\ Backup(c)' = Backup(c) /\ Staged(c)' = Staged(c)
    BY <1>c, <2>1, <2>2 DEF FilesHeld, StageHeld, FilesBefore, PlanHeld, Backup, Staged
  <2>4. IndexFits(c)'
    BY <1>c, <1>d, <1>e, <1>i, <2>1, <2>3 DEF FilesHeld, IndexFits, Agrees
  <2>5. FilesBefore(c)'
    BY <1>i, <2>1 DEF FilesBefore
  <2>6. PlanHeld(c)'
    BY <1>c, <1>e, <1>i, <2>1, <2>2, <2>3 DEF FilesHeld, PlanHeld
  <2>7. StageHeld(c)'
    BY <1>c, <1>e, <1>i, <2>1, <2>2, <2>3 DEF FilesHeld, StageHeld
  <2>8. MovesHeld(c)'
    BY <1>c, <1>d, <1>e, <1>g, <2>1, <2>2, <2>3 DEF FilesHeld, MovesHeld, NoFiles, PlanHeld
  <2> QED BY <1>h, <2>4, <2>5, <2>6, <2>7, <2>8 DEF FilesHeld
<1>2. CASE CancelBeforeApply(c)
  <2>1. /\ files' = files /\ pc[c] = "updBackup" /\ pc'[c] = "updFail"
        /\ job[c].todo = Outgoing(c)
    BY <1>2 DEF CancelBeforeApply, Outgoing
  <2>2. \A p \in Paths : files[p] = prior.files[p]
    BY <2>1 DEF FilesHeld, MovesHeld, PlanHeld
  <2>3. files = prior.files
    BY <2>2, FilesTyped
  <2>4. IndexFits(c)'
    BY <1>c, <1>d, <1>e, <1>i, <2>1, <2>3 DEF FilesHeld, IndexFits, Agrees
  <2>5. FilesBefore(c)'
    BY <1>d, <2>1, <2>3 DEF FilesBefore
  <2>6. PlanHeld(c)' /\ StageHeld(c)' /\ MovesHeld(c)'
    BY <1>i, <2>1 DEF PlanHeld, StageHeld, MovesHeld
  <2> QED BY <1>h, <2>4, <2>5, <2>6 DEF FilesHeld
<1>3. CASE \E p \in Paths : BackupFile(c, p)
  <2>0. PICK p \in Paths : BackupFile(c, p)
    BY <1>3
  <2>1. /\ pc[c] = "updBackup" /\ pc'[c] = "updBackup" /\ p \in job[c].todo
        /\ job'[c].todo = job[c].todo \ {p} /\ job'[c].applied = job[c].applied
        /\ job[c].applied = {}
    BY <2>0, TodoDoes DEF BackupFile, FilesHeld, PlanHeld
  <2>2. /\ Backup(c)[p] = Absent /\ files[p] \in Contents /\ p \in Outgoing(c)
        /\ files[p] = prior.files[p]
    BY <2>1 DEF FilesHeld, MovesHeld
  <2>3. /\ staging' = [staging EXCEPT ![job[c].tx].backups[p] = files[p]]
        /\ files' = [files EXCEPT ![p] = Absent]
    BY <1>f, <2>0, <2>2 DEF BackupFile
  <2>4. /\ Backup(c)'[p] = files[p] /\ \A q \in Paths \ {p} : Backup(c)'[q] = Backup(c)[q]
        /\ Staged(c)' = Staged(c)
    BY <1>b, <1>c, <2>3, BackupDoes
  <2>5. files'[p] = Absent /\ \A q \in Paths \ {p} : files'[q] = files[q]
    BY <2>3, FilesTyped
  <2>6. IndexFits(c)'
    BY <1>c, <1>d, <1>e, <1>i, <2>1 DEF FilesHeld, IndexFits, Agrees
  <2>7. FilesBefore(c)'
    BY <1>i, <2>1 DEF FilesBefore
  <2>8. PlanHeld(c)'
    <3>1. Want(c)[p] # Absent => p \in Incoming(c)
      BY <2>1, <2>2 DEF FilesHeld, PlanHeld, Incoming, Outgoing
    <3>2. \A q \in Paths : Want(c)[q] # Absent => q \in Incoming(c) \/ files'[q] # Absent
      BY <2>1, <2>5, <3>1 DEF FilesHeld, PlanHeld
    <3> QED BY <1>c, <1>e, <1>i, <2>1, <3>2 DEF FilesHeld, PlanHeld
  <2>9. StageHeld(c)'
    BY <1>c, <1>e, <1>i, <2>1, <2>4 DEF FilesHeld, StageHeld
  <2>10. MovesHeld(c)'
    BY <1>c, <1>d, <1>e, <1>f, <2>1, <2>2, <2>4, <2>5 DEF FilesHeld, MovesHeld
  <2> QED BY <1>h, <2>6, <2>7, <2>8, <2>9, <2>10 DEF FilesHeld
<1>4. CASE BackupDone(c)
  <2>1. /\ files' = files /\ staging' = staging /\ pc[c] = "updBackup" /\ pc'[c] = "updApply"
        /\ job'[c].todo = Incoming(c) /\ job'[c].applied = job[c].applied
        /\ job[c].applied = {}
    BY <1>4, TodoDoes DEF BackupDone, Incoming, FilesHeld, PlanHeld
  <2>2. Backup(c)' = Backup(c) /\ Staged(c)' = Staged(c)
    BY <1>c, <2>1 DEF Backup, Staged
  <2>3. IndexFits(c)'
    BY <1>c, <1>d, <1>e, <1>i, <2>1 DEF FilesHeld, IndexFits, Agrees
  <2>4. FilesBefore(c)'
    BY <1>i, <2>1 DEF FilesBefore
  <2>5. PlanHeld(c)' /\ StageHeld(c)'
    BY <1>c, <1>e, <1>i, <2>1, <2>2 DEF FilesHeld, PlanHeld, StageHeld
  <2>6. MovesHeld(c)'
    BY <1>c, <1>d, <1>e, <2>1, <2>2 DEF FilesHeld, MovesHeld
  <2> QED BY <1>h, <2>3, <2>4, <2>5, <2>6 DEF FilesHeld
<1>5. CASE \E p \in Paths : ApplyFile(c, p)
  <2>0. PICK p \in Paths : ApplyFile(c, p)
    BY <1>5
  <2>1. pc[c] = "updApply" /\ p \in job[c].todo
    BY <2>0 DEF ApplyFile, NextToApply
  <2>2. p \in Incoming(c) /\ p \notin job[c].applied
    BY <2>1 DEF FilesHeld, MovesHeld
  <2>3. CASE files[p] = Absent
    <3>1. /\ files' = [files EXCEPT ![p] = staging[job[c].tx].staged[p]]
          /\ staging' = [staging EXCEPT ![job[c].tx].staged[p] = Absent]
          /\ job' = [job EXCEPT ![c] = Applied(c, p)] /\ pc'[c] = "updApply"
      BY <2>0, <2>1, <2>3 DEF ApplyFile
    <3>2. /\ job'[c].todo = job[c].todo \ {p} /\ job'[c].applied = job[c].applied \cup {p}
      BY <3>1, AppliesDoes
    <3>3. /\ Staged(c)'[p] = Absent /\ \A q \in Paths \ {p} : Staged(c)'[q] = Staged(c)[q]
          /\ Backup(c)' = Backup(c)
      BY <1>b, <1>c, <3>1, StagedDoes
    <3>4. Staged(c)[p] \in Contents
      <4>1. Staged(c)[p] # Absent
        BY <2>1, <2>2 DEF FilesHeld, StageHeld
      <4>2. Staged(c)[p] \in Slot
        BY <1>b DEF Staged, Stage, Table
      <4> QED BY <1>f, <4>1, <4>2
    <3>5. files'[p] \in Contents /\ \A q \in Paths \ {p} : files'[q] = files[q]
      BY <3>1, <3>4, FilesTyped DEF Staged
    <3>6. IndexFits(c)'
      BY <1>c, <1>d, <1>e, <1>i, <2>1, <3>1 DEF FilesHeld, IndexFits, Agrees
    <3>7. FilesBefore(c)'
      BY <1>i, <3>1 DEF FilesBefore
    <3>8. PlanHeld(c)'
      BY <1>c, <1>e, <1>f, <1>i, <2>1, <3>1, <3>5 DEF FilesHeld, PlanHeld
    <3>9. StageHeld(c)'
      BY <1>c, <1>e, <1>g, <1>i, <2>1, <3>1, <3>2, <3>3 DEF FilesHeld, StageHeld
    <3>10. MovesHeld(c)'
      BY <1>c, <1>d, <1>e, <2>1, <2>2, <2>3, <3>1, <3>2, <3>3, <3>5 DEF FilesHeld, MovesHeld
    <3> QED BY <1>h, <3>6, <3>7, <3>8, <3>9, <3>10 DEF FilesHeld
  <2>4. CASE files[p] # Absent
    <3>1. pc'[c] = "rollApplied" /\ UNCHANGED <<files, staging, job>>
      BY <2>0, <2>4 DEF ApplyFile
    <3>2. Backup(c)' = Backup(c)
      BY <3>1 DEF Backup
    <3>3. IndexFits(c)' /\ FilesBefore(c)' /\ PlanHeld(c)' /\ StageHeld(c)'
      BY <1>c, <1>d, <1>e, <1>i, <2>1, <3>1
         DEF FilesHeld, IndexFits, Agrees, FilesBefore, PlanHeld, StageHeld
    <3>4. MovesHeld(c)'
      BY <1>d, <1>e, <2>1, <3>1, <3>2 DEF FilesHeld, MovesHeld
    <3> QED BY <1>h, <3>3, <3>4 DEF FilesHeld
  <2> QED BY <2>3, <2>4
<1>6. CASE ApplyDone(c)
  <2>1. /\ UNCHANGED <<files, staging, job>> /\ pc[c] = "updApply" /\ pc'[c] = "updVerify"
        /\ job[c].todo = {}
    BY <1>6 DEF ApplyDone
  <2>2. Backup(c)' = Backup(c)
    BY <2>1 DEF Backup
  <2>3. IndexFits(c)' /\ FilesBefore(c)' /\ PlanHeld(c)' /\ StageHeld(c)'
    BY <1>c, <1>d, <1>e, <1>i, <2>1
       DEF FilesHeld, IndexFits, Agrees, FilesBefore, PlanHeld, StageHeld
  <2>4. MovesHeld(c)'
    BY <1>d, <1>e, <2>1, <2>2 DEF FilesHeld, MovesHeld
  <2> QED BY <1>h, <2>3, <2>4 DEF FilesHeld
<1>7. CASE VerifyUpdate(c)
  <2>1. UNCHANGED <<files, staging, job>> /\ pc[c] = "updVerify"
    BY <1>7 DEF VerifyUpdate
  <2>2. IndexReadable /\ \A p \in Paths : Want(c)[p] # Absent => files[p] # Absent
    <3>1. \A p \in Incoming(c) : files[p] \in Contents
      BY <1>g, <2>1 DEF FilesHeld, MovesHeld
    <3> QED BY <1>c, <1>f, <2>1, <3>1 DEF FilesHeld, PlanHeld
  <2>3. \/ pc'[c] = "rollApplied"
        \/ pc'[c] = "updIndex" /\ Healthy(NewIndex(c))
    BY <1>7, <2>2 DEF VerifyUpdate, Want
  <2>4. Backup(c)' = Backup(c) /\ NewIndex(c)' = NewIndex(c)
    BY <1>c, <2>1 DEF Backup, NewIndex
  <2>5. pc'[c] = "updIndex" => Agrees(NewIndex(c), files)'
    BY <2>1, <2>3, <2>4 DEF Healthy, Agrees
  <2>6. IndexFits(c)'
    BY <1>c, <1>d, <1>e, <1>i, <2>1, <2>3, <2>5 DEF FilesHeld, IndexFits, Agrees
  <2>7. FilesBefore(c)' /\ PlanHeld(c)' /\ StageHeld(c)'
    BY <1>i, <2>3 DEF FilesBefore, PlanHeld, StageHeld
  <2>8. MovesHeld(c)'
    BY <1>d, <1>e, <2>1, <2>3, <2>4 DEF FilesHeld, MovesHeld
  <2> QED BY <1>h, <2>6, <2>7, <2>8 DEF FilesHeld
<1>8. CASE RollbackApplied(c)
  <2>1. pc[c] = "rollApplied" /\ staging' = staging
    BY <1>8 DEF RollbackApplied
  <2>2. Backup(c)' = Backup(c)
    BY <1>c, <2>1 DEF Backup
  <2>3. CASE job[c].applied = {}
    <3>1. /\ files' = files /\ pc'[c] = "rollBackups" /\ job'[c].todo = Outgoing(c)
          /\ job'[c].applied = {}
      BY <1>8, <2>3, TodoDoes DEF RollbackApplied, Outgoing
    <3>2. IndexFits(c)' /\ FilesBefore(c)' /\ PlanHeld(c)' /\ StageHeld(c)'
      BY <1>c, <1>d, <1>e, <1>i, <2>1, <3>1
         DEF FilesHeld, IndexFits, Agrees, FilesBefore, PlanHeld, StageHeld
    <3>3. MovesHeld(c)'
      BY <1>d, <1>e, <2>1, <2>2, <2>3, <3>1 DEF FilesHeld, MovesHeld
    <3> QED BY <1>h, <3>2, <3>3 DEF FilesHeld
  <2>4. CASE job[c].applied # {}
    <3>1. PICK p \in job[c].applied :
             /\ files' = [files EXCEPT ![p] = Absent]
             /\ SetJob(c, "applied", job[c].applied \ {p}) /\ pc' = pc
      BY <1>8, <2>4 DEF RollbackApplied
    <3>2. p \in Paths /\ job'[c].applied = job[c].applied \ {p}
      BY <3>1, JobTyped, AppliedDoes
    <3>3. files'[p] = Absent /\ \A q \in Paths \ {p} : files'[q] = files[q]
      BY <3>1, <3>2, FilesTyped
    <3>4. IndexFits(c)' /\ FilesBefore(c)' /\ PlanHeld(c)' /\ StageHeld(c)'
      BY <1>c, <1>d, <1>e, <1>i, <2>1, <3>1
         DEF FilesHeld, IndexFits, Agrees, FilesBefore, PlanHeld, StageHeld
    <3>5. MovesHeld(c)'
      BY <1>d, <1>e, <2>1, <2>2, <3>1, <3>2, <3>3 DEF FilesHeld, MovesHeld
    <3> QED BY <1>h, <3>4, <3>5 DEF FilesHeld
  <2> QED BY <2>3, <2>4
<1>9. CASE RollbackBackups(c)
  <2>1. pc[c] = "rollBackups" /\ job[c].applied = {}
    BY <1>9 DEF RollbackBackups, FilesHeld, PlanHeld
  <2>2. CASE job[c].todo = {}
    <3>1. pc'[c] = "updFail" /\ files' = files
      BY <1>9, <2>2 DEF RollbackBackups
    <3>2. \A p \in Paths : files[p] = prior.files[p]
      BY <2>1, <2>2 DEF FilesHeld, MovesHeld
    <3>3. files = prior.files
      BY <3>2, FilesTyped
    <3>4. IndexFits(c)'
      BY <1>c, <1>d, <1>e, <1>i, <2>1, <3>1, <3>3 DEF FilesHeld, IndexFits, Agrees
    <3>5. FilesBefore(c)' /\ PlanHeld(c)' /\ StageHeld(c)' /\ MovesHeld(c)'
      BY <1>d, <1>i, <3>1, <3>3 DEF FilesBefore, PlanHeld, StageHeld, MovesHeld
    <3> QED BY <1>h, <3>4, <3>5 DEF FilesHeld
  <2>3. CASE job[c].todo # {}
    <3>1. PICK p \in Paths :
             /\ p \in job[c].todo
             /\ IF staging[job[c].tx].backups[p] = Absent THEN UNCHANGED <<files, staging>>
                ELSE /\ files' = [files EXCEPT ![p] = staging[job[c].tx].backups[p]]
                     /\ staging' = [staging EXCEPT ![job[c].tx].backups[p] = Absent]
             /\ SetJob(c, "todo", job[c].todo \ {p}) /\ pc' = pc
      BY <1>9, <2>3, JobTyped DEF RollbackBackups
    <3>2. /\ p \in Paths /\ job'[c].todo = job[c].todo \ {p} /\ job'[c].applied = {}
      BY <2>1, <3>1, JobTyped, TodoDoes
    <3>3. IndexFits(c)' /\ FilesBefore(c)' /\ PlanHeld(c)' /\ StageHeld(c)'
      BY <1>c, <1>d, <1>e, <1>i, <2>1, <3>1, <3>2
         DEF FilesHeld, IndexFits, Agrees, FilesBefore, PlanHeld, StageHeld
    <3>4. MovesHeld(c)'
      <4>1. CASE Backup(c)[p] = Absent
        <5>1. UNCHANGED <<files, staging>>
          BY <3>1, <4>1 DEF Backup
        <5>2. Backup(c)' = Backup(c)
          BY <1>c, <5>1 DEF Backup
        <5> QED BY <1>d, <1>e, <2>1, <3>1, <3>2, <4>1, <5>1, <5>2 DEF FilesHeld, MovesHeld
      <4>2. CASE Backup(c)[p] # Absent
        <5>1. /\ files' = [files EXCEPT ![p] = Backup(c)[p]]
              /\ staging' = [staging EXCEPT ![job[c].tx].backups[p] = Absent]
          BY <3>1, <4>2 DEF Backup
        <5>2. files'[p] = Backup(c)[p] /\ \A q \in Paths \ {p} : files'[q] = files[q]
          BY <3>2, <5>1, FilesTyped
        <5>3. Backup(c)'[p] = Absent /\ \A q \in Paths \ {p} : Backup(c)'[q] = Backup(c)[q]
          BY <1>b, <1>c, <5>1, BackupDoes, ZenonT(40)
        <5> QED BY <1>d, <1>e, <2>1, <3>1, <3>2, <4>2, <5>2, <5>3 DEF FilesHeld, MovesHeld
      <4> QED BY <4>1, <4>2
    <3> QED BY <1>h, <3>3, <3>4 DEF FilesHeld
  <2> QED BY <2>2, <2>3
<1> QED BY <1>1, <1>2, <1>3, <1>4, <1>5, <1>6, <1>7, <1>8, <1>9

\* Preparing an update keeps the files as they were found.
LEMMA PrepareKeeps ==
    ASSUME TxInv, NEW c \in Cores, FilesHeld(c),
           \/ ApplyBegin(c) \/ MakeStaging(c) \/ SaveSpec(c) \/ SaveIndex(c)
           \/ (\E p \in Paths : StageFile(c, p)) \/ StageDone(c)
    PROVE  FilesHeld(c)'
<1> TypeOK
  BY DEF TxInv
<1> USE GotoDoes DEF At, disk, MovingLabels, PlannedLabels, BaseLabels
<1>n. NoWrite.file = "none"
  BY DEF NoWrite
<1>1. CASE ApplyBegin(c)
  <2>1. /\ files' = files /\ prior'.files = files /\ staging' = staging
        /\ pc[c] = "updCheck" /\ pc'[c] = "updMkdir" /\ pending[c] = NoWrite
        /\ Mark(c, "Updating", job[c].inst)
    BY <1>1 DEF ApplyBegin
  <2>2. /\ doc'["index"] = doc["index"] /\ pending'[c].file = "state"
    BY <2>1, MarkDoes
  <2>3. job'[c].plan = job[c].plan /\ job'[c].applied = job[c].applied
    BY <1>1, TxDoes DEF ApplyBegin
  <2>4. IndexFits(c)'
    BY <2>1, <2>2 DEF FilesHeld, IndexFits, Agrees, IndexReadable, BareLabels
  <2>5. PlanHeld(c)'
    BY <1>n, <2>1, <2>2, <2>3
       DEF FilesHeld, PlanHeld, Want, Incoming, Outgoing, IndexReadable, Preparing
  <2>6. NoRecovery(c)' /\ FilesBefore(c)' /\ StageHeld(c)' /\ MovesHeld(c)'
    BY <2>1 DEF NoRecovery, FilesBefore, StageHeld, StagedAll, MovesHeld
  <2> QED BY <2>4, <2>5, <2>6 DEF FilesHeld
<1>2. CASE ~ApplyBegin(c)
  <2>1. /\ doc' = doc /\ pending' = pending /\ pending[c] = NoWrite
        /\ job'[c].plan = job[c].plan /\ job'[c].tx = job[c].tx
    BY <1>2, QuietUpdate
  <2>2. /\ files' = files /\ prior' = prior
        /\ pc[c] \in {"updMkdir", "saveSpec", "saveIndex", "updStage"}
        /\ pc'[c] \in {"saveSpec", "saveIndex", "updStage", "updSpec", "updApplying"}
    BY <1>2 DEF MakeStaging, SaveSpec, SaveIndex, CopyPrevious, StageFile, StageDone
  <2>3. job'[c].applied = job[c].applied
    BY <1>2, TodoDoes DEF MakeStaging, SaveSpec, SaveIndex, CopyPrevious, StageFile, StageDone
  <2>4. Preparing(c) /\ Preparing(c)' /\ ~BareLabels(c)'
    BY <2>2 DEF Preparing, BareLabels
  <2>5. IndexFits(c)'
    BY <1>n, <2>1, <2>2, <2>4 DEF FilesHeld, IndexFits, Agrees, IndexReadable
  <2>6. PlanHeld(c)'
    BY <2>1, <2>2, <2>3, <2>4
       DEF FilesHeld, PlanHeld, Want, Incoming, Outgoing, IndexReadable
  <2>7. NoRecovery(c)' /\ FilesBefore(c)' /\ MovesHeld(c)'
    BY <2>2, <2>4 DEF FilesHeld, NoRecovery, FilesBefore, MovesHeld
  <2>8. Incoming(c)' = Incoming(c) /\ job'[c].applied = {}
    BY <2>1, <2>3, <2>4 DEF Incoming, FilesHeld, PlanHeld
  <2>9. StageHeld(c)'
    <3>1. CASE MakeStaging(c)
      <4>1. job[c].tx \in TxIds /\ pc'[c] = "saveSpec"
        BY <3>1, JobTyped DEF MakeStaging, TxInv, Relies
      <4>2. staging'[job[c].tx] = EmptyStage
        BY <3>1, <4>1 DEF MakeStaging, TypeOK
      <4> QED BY <2>1, <4>1, <4>2 DEF StageHeld, Backup, StagedAll, EmptyStage
    <3>2. ASSUME NEW f \in {"spec", "index"}, NEW here \in {"saveSpec", "saveIndex"},
                 NEW next \in {"saveIndex", "updStage"}, CopyPrevious(c, f, here, next)
          PROVE  StageHeld(c)'
      <4>1. pc[c] = here
        BY <3>2 DEF CopyPrevious
      <4>2. job[c].tx \in TxIds /\ staging[job[c].tx] \in Stage
        BY <4>1, StagingThere DEF StagedLabels
      <4>3. PICK v : staging' = [staging EXCEPT ![job[c].tx].prev[f] = v]
        BY <3>2 DEF CopyPrevious
      <4>4. staging'[job[c].tx] = [staging[job[c].tx] EXCEPT !.prev[f] = v]
        BY <4>2, <4>3 DEF TypeOK
      <4>5. Backup(c)' = Backup(c)
        BY <2>1, <4>2, <4>4 DEF Backup, Stage
      <4>6. pc'[c] = here \/ (pc'[c] = next /\ job'[c].todo = Incoming(c))
        BY <3>2, TodoDoes DEF CopyPrevious, Incoming
      <4> QED BY <2>4, <2>8, <4>1, <4>5, <4>6 DEF FilesHeld, StageHeld, StagedAll
    <3>3. ASSUME NEW p \in Paths, StageFile(c, p) PROVE StageHeld(c)'
      <4>1. pc[c] = "updStage" /\ pc'[c] = "updStage" /\ job'[c].todo = job[c].todo \ {p}
        BY <3>3, TodoDoes DEF StageFile
      <4>2. job[c].tx \in TxIds /\ staging[job[c].tx] \in Stage
        BY <4>1, StagingThere DEF StagedLabels
      <4>3. staging' = [staging EXCEPT ![job[c].tx].staged[p] = Want(c)[p]]
        BY <3>3 DEF StageFile, Want
      <4>4. /\ Staged(c)'[p] = Want(c)[p] /\ \A q \in Paths \ {p} : Staged(c)'[q] = Staged(c)[q]
            /\ Backup(c)' = Backup(c)
        BY <2>1, <4>2, <4>3, StagedDoes
      <4>5. \A q \in Incoming(c) : Want(c)[q] # Absent /\ q \in Paths
        BY <2>4, JobTyped DEF FilesHeld, PlanHeld, Incoming
      <4> QED BY <2>4, <2>8, <4>1, <4>4, <4>5 DEF FilesHeld, StageHeld, StagedAll
    <3>4. CASE StageDone(c)
      <4>1. /\ pc[c] = "updStage" /\ pc'[c] # "updStage" /\ job[c].todo = {} /\ staging' = staging
        BY <3>4 DEF StageDone
      <4>2. Backup(c)' = Backup(c) /\ Staged(c)' = Staged(c)
        BY <2>1, <4>1 DEF Backup, Staged
      <4> QED BY <2>2, <2>4, <2>8, <4>1, <4>2 DEF FilesHeld, StageHeld
    <3> QED BY <1>2, <3>1, <3>2, <3>3, <3>4 DEF SaveSpec, SaveIndex
  <2> QED BY <2>5, <2>6, <2>7, <2>9 DEF FilesHeld
<1> QED BY <1>1, <1>2

\* A new index that lists what is on disk: the commit, the base game, an installation, a repair.
LEMMA IndexWritten ==
    ASSUME TypeOK, NEW c \in Cores, FilesHeld(c), pending[c] = NoWrite,
           UNCHANGED <<files, prior, staging, job>>,
           NEW v \in Index, Agrees(v, files), Replace(c, "index", v),
           \/ pc'[c] \in {"updSelect", "insDone", "repPlan", "repVerify"}
           \/ pc[c] = "baseIndex" /\ pc'[c] = "baseDone" /\ v.files = NoFiles
    PROVE  FilesHeld(c)'
<1>1. doc'["index"] = Absent /\ pending'[c].file = "index" /\ pending'[c].val = v
  BY ReplaceDoes DEF DocNames
<1>2. ~IndexReadable'
  BY <1>1 DEF IndexReadable
<1>3. Preparing(c)' => Preparing(c) /\ StagedAll(c) /\ pc'[c] = "baseDone"
  BY DEF Preparing, StagedAll, BaseLabels
<1>4. IndexFits(c)'
  BY <1>1, <1>2 DEF IndexFits, MovingLabels, BareLabels, Agrees
<1>5. PlanHeld(c)'
  <2>1. /\ Want(c)' = Want(c) /\ Incoming(c)' = Incoming(c) /\ Outgoing(c)' = Outgoing(c)
    BY DEF Want, Incoming, Outgoing
  <2> QED BY <1>1, <1>3, <2>1 DEF FilesHeld, PlanHeld, PlannedLabels
<1>6. StageHeld(c)'
  <2>1. Backup(c)' = Backup(c) /\ Staged(c)' = Staged(c) /\ Incoming(c)' = Incoming(c)
    BY DEF Backup, Staged, Incoming
  <2> QED BY <1>3, <2>1 DEF FilesHeld, StageHeld, StagedAll
<1>7. NoRecovery(c)' /\ FilesBefore(c)' /\ MovesHeld(c)'
  BY <1>3 DEF FilesHeld, NoRecovery, FilesBefore, MovesHeld, MovingLabels
<1> QED BY <1>4, <1>5, <1>6, <1>7 DEF FilesHeld

LEMMA BaseIndexTyped ==
    ASSUME TypeOK, NEW r \in Revisions, natives # Absent PROVE BaseIndexOf(r) \in Index
<1>1. natives \in Bases /\ BaseOf[r] \in Bases
  BY InputAssumption DEF TypeOK, InputAssumption
<1> QED BY <1>1, EmptyTyped DEF BaseIndexOf, Index

\* A plan: what it leaves alone is on disk, and what it moves away is CentralCore's.
LEMMA PlanFits ==
    ASSUME TypeOK, NEW c \in Cores, FilesHeld(c), PlanDiff(c)
    PROVE  FilesHeld(c)'
<1> USE GotoDoes DEF At, disk, MovingLabels, PlannedLabels, BaseLabels
<1>n. NoWrite.file = "none"
  BY DEF NoWrite
<1>1. /\ UNCHANGED <<files, prior, doc, pending>> /\ pending[c] = NoWrite
      /\ pc[c] = "planDiff" /\ pc'[c] \in {"planned", "idle"}
  BY DEF PlanDiff
<1>2. CASE pc'[c] = "idle"
  BY <1>n, <1>1, <1>2, FilesKept DEF BareLabels, Preparing, StagedAll
<1>3. CASE pc'[c] = "planned"
  <2> DEFINE want == Desired[job[c].plan.to, job[c].plan.sel]
             have == doc["index"].files
             D == {p \in Paths : want[p] # Absent /\ have[p] = Absent}
             R == {p \in Paths : want[p] # Absent /\ have[p] # Absent /\ have[p] # want[p]}
             M == {p \in Paths : want[p] = Absent /\ have[p] # Absent}
             b == BaseOf[job[c].plan.from] # BaseOf[job[c].plan.to]
             plan == [job[c].plan EXCEPT !.downloads = D, !.replacements = R,
                                         !.removals = M, !.rebase = b]
  <2>1. SetJob(c, "plan", plan) /\ IndexReadable
    BY <1>3 DEF PlanDiff
  <2>2. Agrees(doc["index"], files) /\ job[c].applied = {}
    BY <1>1, <2>1 DEF FilesHeld, IndexFits, PlanHeld
  <2>3. have \in [Paths -> Slot]
    BY <2>1, IndexTyped DEF Index, Table
  <2>4. /\ \A p \in Paths : want[p] # Absent => p \in D \cup R \/ files[p] # Absent
        /\ \A p \in D \cup R : want[p] # Absent
        /\ \A p \in M : want[p] = Absent
        /\ \A p \in M \cup R : files[p] \in Contents
    BY <2>2, <2>3 DEF Agrees, Slot
  <2> HIDE DEF D, R, M, b
  <2>5. /\ plan.downloads = D /\ plan.replacements = R /\ plan.removals = M
        /\ plan.to = job[c].plan.to /\ plan.sel = job[c].plan.sel
    <3>1. job[c].plan \in Plan
      BY JobTyped
    <3> QED BY ONLY <3>1 DEF Plan
  <2> HIDE DEF plan
  <2>6. job'[c].plan = plan /\ job'[c].applied = job[c].applied
    BY <2>1 DEF SetJob, TypeOK, Job
  <2>7. Want(c)' = want /\ Incoming(c)' = D \cup R /\ Outgoing(c)' = M \cup R
    BY <2>5, <2>6 DEF Want, Incoming, Outgoing
  <2>8. ~Preparing(c)' /\ ~StagedAll(c)' /\ ~BareLabels(c)'
    BY <1>3 DEF Preparing, StagedAll, BareLabels
  <2> HIDE DEF want, have
  <2>9. PlanHeld(c)'
    BY <1>1, <1>3, <2>1, <2>2, <2>4, <2>5, <2>6, <2>7, <2>8 DEF PlanHeld, IndexReadable
  <2>10. IndexFits(c)'
    BY <1>n, <1>1, <1>3, <2>8 DEF FilesHeld, IndexFits, IndexReadable, Agrees
  <2>11. NoRecovery(c)' /\ FilesBefore(c)' /\ StageHeld(c)' /\ MovesHeld(c)'
    BY <1>3, <2>8 DEF NoRecovery, FilesBefore, StageHeld, MovesHeld
  <2> QED BY <2>9, <2>10, <2>11 DEF FilesHeld
<1> QED BY <1>1, <1>2, <1>3

\* Every other step of the core keeps the index fitting the files.
LEMMA FilesStep ==
    ASSUME Undisturbed, TxInv, NEW c \in Cores, FilesHeld(c),
           Step(c) \/ Fail(c) \/ Request(c) \/ Crash(c)
    PROVE  FilesHeld(c)'
<1> TypeOK
  BY DEF TxInv
<1> USE GotoDoes DEF At, disk, MovingLabels, PlannedLabels, BaseLabels
<1>n. NoWrite.file = "none"
  BY DEF NoWrite
<1>d. /\ "selections" \in DocNames /\ "state" \in DocNames
      /\ "spec" \in DocNames /\ "index" \in DocNames
  BY DEF DocNames
<1>o. /\ pc[c] \in UpdateLabels => job[c].op = "update"
      /\ pc[c] = "insLock" => job[c].op = "install"
      /\ pc[c] \in {"base", "baseFetch"} => job[c].op \in {"install", "update"}
      /\ pc[c] \in {"repLock", "repIndex", "repPlan", "repCopy"} => job[c].op = "repair"
  BY DEF TxInv, Relies
<1>r. pc[c] \notin {"recLock", "recRestore", "recVerify", "recDone"}
  BY DEF FilesHeld, NoRecovery
<1>1. CASE \/ StartApplying(c) \/ CancelBeforeApply(c)
           \/ (\E p \in Paths : BackupFile(c, p)) \/ BackupDone(c)
           \/ (\E p \in Paths : ApplyFile(c, p)) \/ ApplyDone(c)
           \/ VerifyUpdate(c) \/ RollbackApplied(c) \/ RollbackBackups(c)
  BY <1>1, MovesKeep
<1>2. CASE \/ ApplyBegin(c) \/ MakeStaging(c) \/ SaveSpec(c) \/ SaveIndex(c)
           \/ (\E p \in Paths : StageFile(c, p)) \/ StageDone(c)
  BY <1>2, PrepareKeeps
<1>3. CASE CommitIndex(c) \/ InstallIndex(c)
  <2>1. /\ Replace(c, "index", NewIndex(c)) /\ UNCHANGED <<files, prior, staging, job>>
        /\ pending[c] = NoWrite /\ pc'[c] \in {"updSelect", "insDone"}
    BY <1>3 DEF CommitIndex, InstallIndex
  <2>2. IndexReadable
    BY <1>3 DEF CommitIndex, InstallIndex, TxInv, Relies, UsesIndex
  <2>3. NewIndex(c) \in Index
    BY <2>2, IndexTyped, JobTyped, DesiredTyped DEF NewIndex, Index
  <2>4. Agrees(NewIndex(c), files)
    BY <1>3 DEF CommitIndex, InstallIndex, Healthy, Agrees, FilesHeld, IndexFits
  <2> QED BY <2>1, <2>3, <2>4, IndexWritten
<1>4. CASE BaseIndex(c)
  <2>1. /\ Replace(c, "index", BaseIndexOf(BaseRevision(c)))
        /\ UNCHANGED <<files, prior, staging, job>> /\ natives # Absent
        /\ pending[c] = NoWrite /\ pc[c] = "baseIndex" /\ pc'[c] = "baseDone"
    BY <1>4 DEF BaseIndex
  <2>2. BaseIndexOf(BaseRevision(c)) \in Index
    BY <2>1, BaseIndexTyped, JobTyped
  <2>3. /\ Agrees(BaseIndexOf(BaseRevision(c)), files)
        /\ BaseIndexOf(BaseRevision(c)).files = NoFiles
    BY DEF Agrees, BaseIndexOf, NoFiles
  <2> QED BY <2>1, <2>2, <2>3, IndexWritten
<1>5. CASE RepairIndex(c) \/ RepairRefresh(c)
  <2>1. /\ UNCHANGED <<files, prior, staging, job>> /\ pending[c] = NoWrite
        /\ pc[c] \in {"repIndex", "repRefresh"} /\ pc'[c] \in {"repPlan", "repVerify"}
    BY <1>5 DEF RepairIndex, RepairRefresh
  <2>2. CASE RepairIndex(c) /\ doc["index"] = Absent
    <3>1. natives # Absent /\ Replace(c, "index", BaseIndexOf(job[c].inst))
      BY <2>2 DEF RepairIndex
    <3>2. BaseIndexOf(job[c].inst) \in Index
      BY <3>1, BaseIndexTyped, JobTyped
    <3>3. Agrees(BaseIndexOf(job[c].inst), files)
      BY DEF Agrees, BaseIndexOf, NoFiles
    <3> QED BY <2>1, <3>1, <3>2, <3>3, IndexWritten
  <2>3. CASE RepairIndex(c) /\ doc["index"] # Absent
    <3>1. UNCHANGED <<doc, pending>>
      BY <2>3 DEF RepairIndex
    <3> QED BY <1>n, <2>1, <3>1, FilesKept DEF BareLabels, Preparing, StagedAll
  <2>4. CASE RepairRefresh(c)
    <3>1. Replace(c, "index", doc["index"]) /\ pc[c] = "repRefresh"
      BY <2>4 DEF RepairRefresh
    <3>2. IndexReadable
      BY <3>1 DEF TxInv, Relies, UsesIndex
    <3>3. doc["index"] \in Index
      BY <3>2, IndexTyped
    <3>4. Agrees(doc["index"], files)
      BY <3>1, <3>2 DEF FilesHeld, IndexFits
    <3> QED BY <2>1, <3>1, <3>3, <3>4, IndexWritten
  <2> QED BY <1>5, <2>2, <2>3, <2>4
<1>6. CASE Rename(c)
  <2>1. /\ UNCHANGED <<files, prior, pc, job>> /\ pending'[c].file = "none"
    BY <1>6, <1>n, RenameDoes
  <2>2. /\ (Preparing(c)' <=> Preparing(c)) /\ (BareLabels(c)' <=> BareLabels(c))
    BY <2>1 DEF Preparing, BareLabels
  <2>3. StagedAll(c)' <=> StagedAll(c)
    BY <2>1, <2>2 DEF StagedAll
  <2>4. pending[c] # NoWrite /\ pc[c] \notin MovingLabels \cup {"updIndex"}
    BY <1>6 DEF Rename, FilesHeld, IndexFits
  <2>5. staging' = staging
    BY <1>6, <1>r DEF Rename, TxInv, Relies
  <2>6. NoRecovery(c)'
    <3>1. pending[c].file = "state" => pc[c] # "down"
      BY <2>4 DEF TxInv, LockOwner, Locked
    <3> QED BY <1>6, <1>d, <2>1, <3>1, RenameDoes DEF FilesHeld, NoRecovery
  <2>7. \/ doc'["index"] = doc["index"] /\ pending[c].file # "index"
        \/ doc'["index"] = pending[c].val /\ pending[c].file = "index"
    BY <1>6, <1>d, RenameDoes
  <2>8. IndexFits(c)'
    <3>1. pc[c] # "repCopy"
      BY <2>4 DEF TxInv, Relies, UsesIndex
    <3> QED BY <2>1, <2>2, <2>4, <2>7, <3>1 DEF FilesHeld, IndexFits, IndexReadable, Agrees
  <2>9. PlanHeld(c)'
    <3>1. pending[c].file = "index" => IndexReadable'
      BY <2>7, DocumentAssumption DEF FilesHeld, IndexFits, IndexReadable, DocumentAssumption
    <3>2. pending[c].file # "index" => (IndexReadable' <=> IndexReadable)
      BY <2>7 DEF IndexReadable
    <3>3. /\ Want(c)' = Want(c) /\ Incoming(c)' = Incoming(c) /\ Outgoing(c)' = Outgoing(c)
      BY <2>1 DEF Want, Incoming, Outgoing
    <3> QED BY <2>1, <2>2, <3>1, <3>2, <3>3 DEF FilesHeld, PlanHeld
  <2>10. StageHeld(c)'
    BY <2>1, <2>2, <2>3, <2>5 DEF FilesHeld, StageHeld, Backup, Staged, Incoming
  <2>11. FilesBefore(c)' /\ MovesHeld(c)'
    BY <2>1, <2>2, <2>4 DEF FilesHeld, FilesBefore, MovesHeld
  <2> QED BY <2>6, <2>8, <2>9, <2>10, <2>11 DEF FilesHeld
<1>7. CASE \E p \in Paths : InstallFile(c, p)
  <2>1. /\ pc[c] = "insFiles" /\ pc'[c] = "insFiles" /\ UNCHANGED <<doc, pending>>
        /\ pending[c] = NoWrite
    BY <1>7 DEF InstallFile, CopyInto
  <2>2. BareLabels(c) /\ ~Preparing(c)' /\ ~StagedAll(c)'
    BY <2>1 DEF BareLabels, Preparing, StagedAll
  <2>3. IndexFits(c)'
    BY <1>n, <2>1, <2>2 DEF FilesHeld, IndexFits, IndexReadable, Agrees, NoFiles
  <2>4. NoRecovery(c)' /\ FilesBefore(c)' /\ PlanHeld(c)' /\ StageHeld(c)' /\ MovesHeld(c)'
    BY <2>1, <2>2 DEF NoRecovery, FilesBefore, PlanHeld, StageHeld, MovesHeld
  <2> QED BY <2>3, <2>4 DEF FilesHeld
<1>8. CASE RepairPlan(c)
  <2>1. /\ UNCHANGED <<files, doc, pending>> /\ IndexReadable /\ pc[c] = "repPlan"
        /\ pc'[c] = "repCopy" /\ pending[c] = NoWrite
    BY <1>8 DEF RepairPlan
  <2> DEFINE t == {p \in Paths : /\ doc["index"].files[p] # Absent
                                 /\ files[p] # doc["index"].files[p]}
             r == natives # doc["index"].natives
  <2>2. job' = [job EXCEPT ![c] = [@ EXCEPT !.todo = t, !.reextract = r]]
    BY <1>8 DEF RepairPlan
  <2>3. t = {}
    BY <2>1 DEF FilesHeld, IndexFits, Agrees
  <2> HIDE DEF t, r
  <2>4. job'[c].todo = t
    <3>1. job[c] \in Job /\ job'[c] = [job[c] EXCEPT !.todo = t, !.reextract = r]
      BY <2>2 DEF TypeOK
    <3> QED BY ONLY <3>1 DEF Job
  <2>5. IndexFits(c)'
    BY <1>n, <2>1, <2>3, <2>4 DEF FilesHeld, IndexFits, IndexReadable, Agrees, BareLabels
  <2>6. NoRecovery(c)' /\ FilesBefore(c)' /\ PlanHeld(c)' /\ StageHeld(c)' /\ MovesHeld(c)'
    BY <2>1 DEF NoRecovery, FilesBefore, PlanHeld, StageHeld, MovesHeld, Preparing, StagedAll
  <2> QED BY <2>5, <2>6 DEF FilesHeld
<1>9. CASE \E p \in Paths : RepairFile(c, p)
  BY <1>9 DEF RepairFile, FilesHeld, IndexFits
<1>10. CASE ApplyRefuse(c) \/ CopyFails(c) \/ StageFails(c) \/ RebaseSpec(c) \/ RebaseDone(c)
            \/ UpdateFails(c)
  <2>1. /\ UNCHANGED <<files, prior, staging, job>> /\ pending[c] = NoWrite
        /\ \/ pc[c] = "updCheck" /\ pc'[c] = "release"
           \/ pc[c] \in {"saveSpec", "saveIndex", "updStage"} /\ pc'[c] = "updFail"
           \/ pc[c] = "updSpec" /\ pc'[c] \in {"base", "updFail"}
           \/ pc[c] = "updRemark" /\ pc'[c] = "updApplying"
           \/ pc[c] = "updFail" /\ pc'[c] = "err"
    BY <1>10 DEF ApplyRefuse, CopyFails, StageFails, RebaseSpec, RebaseDone, UpdateFails
  <2>2. doc'["index"] = doc["index"] /\ pending'[c].file # "index"
    BY <1>10, <1>n, <1>d, ReplaceDoes, MarkDoes
       DEF ApplyRefuse, CopyFails, StageFails, RebaseSpec, RebaseDone, UpdateFails
  <2>3. /\ ~BareLabels(c)'
        /\ pc'[c] = "updFail" \/ Preparing(c)' => pc[c] = "updFail" \/ Preparing(c)
        /\ Preparing(c)' => StagedAll(c) /\ Preparing(c) /\ pc[c] # "updMkdir"
    BY <1>o, <2>1
       DEF BareLabels, Preparing, StagedAll, UpdateLabels, StagedLabels
  <2>4. StagedAll(c)' => Preparing(c)'
    BY DEF StagedAll
  <2> QED BY <1>n, <2>1, <2>2, <2>3, <2>4, FilesKept
<1>11. CASE UpdateDone(c) \/ CommitSelections(c) \/ CommitSpec(c) \/ CleanStaging(c)
  <2>1. /\ UNCHANGED <<files, prior>> /\ pending[c] = NoWrite
        /\ pc[c] \in {"updDone", "updSelect", "updCommit", "updClean"}
        /\ pc'[c] \in {"ok", "updCommit", "updClean", "updDone"}
    BY <1>11 DEF UpdateDone, CommitSelections, CommitSpec, CleanStaging
  <2>2. doc'["index"] = doc["index"] /\ pending'[c].file # "index"
    BY <1>11, <1>n, <1>d, ReplaceDoes, MarkDoes, ZenonT(40)
       DEF UpdateDone, CommitSelections, CommitSpec, CleanStaging
  <2> QED BY <1>n, <2>1, <2>2, FilesKept DEF BareLabels, Preparing, StagedAll
<1>12. CASE \/ BaseBegin(c) \/ BaseFetch(c) \/ (\E why \in Why : BaseFails(c, why))
            \/ NativesOut(c) \/ NativesIn(c) \/ BaseIndexFails(c) \/ BaseDone(c) \/ BaseEnd(c)
  <2>1. /\ UNCHANGED <<files, prior, staging, job>> /\ pending[c] = NoWrite
        /\ \/ pc[c] = "base" /\ pc'[c] = "baseFetch"
           \/ pc[c] = "baseFetch" /\ pc'[c] = "nativesOut"
           \/ pc[c] \in {"baseFetch", "baseIndex"} /\ job[c].op = "update" /\ pc'[c] = "updFail"
           \/ pc[c] \in {"baseFetch", "baseIndex"} /\ pc'[c] = "release"
           \/ pc[c] = "nativesOut" /\ pc'[c] = "nativesIn"
           \/ pc[c] = "nativesIn" /\ pc'[c] \in {"baseIndex", "repRefresh"}
           \/ pc[c] = "baseDone" /\ pc'[c] = "baseEnd"
           \/ pc[c] = "baseEnd" /\ job[c].op = "update" /\ pc'[c] = "updRemark"
           \/ pc[c] = "baseEnd" /\ job[c].op # "update" /\ pc'[c] = "insMark"
    BY <1>12 DEF BaseBegin, BaseFetch, BaseFails, NativesOut, NativesIn, BaseIndexFails,
                 BaseDone, BaseEnd
  <2>2. doc'["index"] = doc["index"] /\ pending'[c].file # "index"
    BY <1>12, <1>n, <1>d, MarkDoes
       DEF BaseBegin, BaseFetch, BaseFails, NativesOut, NativesIn, BaseIndexFails, BaseDone, BaseEnd
  <2>3. /\ BareLabels(c)' => BareLabels(c)
        /\ pc'[c] = "updFail" => Preparing(c)
        /\ Preparing(c)' => StagedAll(c) /\ Preparing(c) /\ pc[c] # "updMkdir"
    BY <2>1 DEF BareLabels, Preparing, StagedAll
  <2>4. StagedAll(c)' => Preparing(c)'
    BY DEF StagedAll
  <2> QED BY <1>n, <2>1, <2>2, <2>3, <2>4, FilesKept
<1>13. CASE \/ InstallMark(c) \/ InstallSelect(c) \/ InstallCopied(c) \/ InstallDone(c)
            \/ InstallFails(c)
  <2>1. /\ UNCHANGED <<files, prior, staging>> /\ pending[c] = NoWrite
        /\ \/ /\ pc[c] \in {"insMark", "insSelect", "insFiles"}
              /\ pc'[c] \in {"insSelect", "insFiles", "insVerify"}
           \/ pc[c] \in {"insDone", "insFiles", "insVerify"} /\ pc'[c] = "release"
    BY <1>13 DEF InstallMark, InstallSelect, InstallCopied, InstallDone, InstallFails
  <2>2. doc'["index"] = doc["index"] /\ pending'[c].file # "index"
    BY <1>13, <1>n, <1>d, ReplaceDoes, MarkDoes
       DEF InstallMark, InstallSelect, InstallCopied, InstallDone, InstallFails
  <2> QED BY <1>n, <2>1, <2>2, FilesKept DEF BareLabels, Preparing, StagedAll
<1>14. CASE RepairCopied(c) \/ RepairDone(c) \/ RepairFails(c)
  <2>1. /\ UNCHANGED <<files, prior, staging, job>> /\ pending[c] = NoWrite
        /\ pc[c] \in {"repCopy", "repVerify", "repIndex", "repPlan", "repRefresh"}
        /\ pc'[c] \in {"nativesOut", "repRefresh", "ok", "err"}
        /\ pc'[c] = "nativesOut" => pc[c] = "repCopy"
    BY <1>14 DEF RepairCopied, RepairDone, RepairFails
  <2>2. doc'["index"] = doc["index"] /\ pending'[c].file # "index"
    BY <1>14, <1>n, <1>d, MarkDoes DEF RepairCopied, RepairDone, RepairFails
  <2> QED BY <1>n, <1>o, <2>1, <2>2, FilesKept DEF BareLabels, Preparing, StagedAll
<1>15. CASE ApplyLock(c) \/ InstallLock(c) \/ RepairLock(c) \/ RecoverLock(c)
  <2>1. /\ UNCHANGED <<files, prior, staging, doc, pending>> /\ pending[c] = NoWrite
        /\ \/ pc[c] \in {"updLock", "insLock", "repLock", "recLock"} /\ pc'[c] = "idle"
           \/ pc[c] = "updLock" /\ pc'[c] = "updCheck" /\ job' = job
           \/ pc[c] = "insLock" /\ pc'[c] = "base" /\ job' = job
           \/ pc[c] = "repLock" /\ pc'[c] = "repIndex"
    BY <1>15, <1>r DEF ApplyLock, InstallLock, RepairLock, RecoverLock, TryLock
  <2> QED BY <1>n, <1>o, <2>1, FilesKept DEF BareLabels, Preparing, StagedAll
<1>16. CASE ApplyGet(c)
  <2>1. /\ UNCHANGED <<files, prior, staging, doc, pending>> /\ pending[c] = NoWrite
        /\ pc[c] = "planned"
        /\ pc'[c] = "idle" \/ (pc'[c] = "updLock" /\ SetJob(c, "inst", doc["spec"]))
    BY <1>16 DEF ApplyGet
  <2>2. pc'[c] = "updLock" => job'[c].plan = job[c].plan /\ job'[c].applied = job[c].applied
    BY <2>1 DEF SetJob, TypeOK, Job
  <2> QED BY <1>n, <2>1, <2>2, FilesKept DEF BareLabels, Preparing, StagedAll
<1>17. CASE InstallRead(c) \/ RepairRead(c) \/ Release(c)
  <2>1. /\ UNCHANGED <<files, doc, pending>> /\ pending[c] = NoWrite
        /\ pc[c] \in {"idle", "ok", "err", "release"} /\ pc'[c] \in {"insLock", "repLock", "idle"}
    BY <1>17 DEF InstallRead, RepairRead, Release
  <2> QED BY <1>n, <2>1, FilesKept DEF BareLabels, Preparing, StagedAll
<1>18. CASE Start(c)
  <2>1. /\ UNCHANGED <<files, doc, pending>> /\ pending[c] = NoWrite
        /\ pc[c] = "down" /\ pc'[c] = "idle"
    BY <1>18 DEF Start, FilesHeld, NoRecovery
  <2> QED BY <1>n, <2>1, FilesKept DEF BareLabels, Preparing, StagedAll
<1>19. CASE \E sel \in Selections : PlanRead(c, sel)
  <2>1. /\ UNCHANGED <<files, doc, pending>> /\ pending[c] = NoWrite
        /\ pc[c] = "idle" /\ pc'[c] = "planDiff"
    BY <1>19 DEF PlanRead
  <2>2. job'[c].applied = {}
    BY <1>19 DEF PlanRead, TypeOK, NoJob
  <2>3. IndexFits(c)'
    BY <1>n, <2>1 DEF FilesHeld, IndexFits, IndexReadable, Agrees, BareLabels
  <2>4. NoRecovery(c)' /\ FilesBefore(c)' /\ PlanHeld(c)' /\ StageHeld(c)' /\ MovesHeld(c)'
    BY <2>1, <2>2 DEF NoRecovery, FilesBefore, PlanHeld, StageHeld, MovesHeld, Preparing, StagedAll
  <2> QED BY <2>3, <2>4 DEF FilesHeld
<1>20. CASE PlanDiff(c)
  BY <1>20, PlanFits
<1>21. CASE \/ PickStaging(c) \/ (\E p \in Paths : RestoreBackup(c, p))
            \/ (\E f \in {"spec", "index"} : RestoreDoc(c, f))
            \/ DropStaging(c) \/ RestoreDone(c) \/ RecoverVerify(c) \/ RecoverFails(c)
            \/ RecoverDone(c)
  BY <1>21, <1>r DEF PickStaging, RestoreBackup, RestoreDoc, DropStaging, RestoreDone,
                     RecoverVerify, RecoverFails, RecoverDone
<1>22. CASE Crash(c)
  BY <1>22 DEF Crash, Undisturbed
<1> QED BY <1>1, <1>2, <1>3, <1>4, <1>5, <1>6, <1>7, <1>8, <1>9, <1>10, <1>11, <1>12, <1>13,
           <1>14, <1>15, <1>16, <1>17, <1>18, <1>19, <1>20, <1>21, <1>22
        DEF Step, Fail, Request, UpdateStep, InstallStep, RepairStep, RecoverStep

LEMMA FilesInductive ==
    ASSUME Alone, Undisturbed, TxInv, \A c \in Cores : FilesHeld(c), [Next]_vars
    PROVE  \A c \in Cores : FilesHeld(c)'
<1> SUFFICES ASSUME NEW c \in Cores PROVE FilesHeld(c)'
  OBVIOUS
<1>1. CASE UNCHANGED <<files, doc, staging, prior, pc, job, pending>>
  <2>1. /\ (Preparing(c)' <=> Preparing(c)) /\ (BareLabels(c)' <=> BareLabels(c))
        /\ (IndexReadable' <=> IndexReadable)
    BY <1>1 DEF Preparing, BareLabels, IndexReadable
  <2>2. /\ Want(c)' = Want(c) /\ Incoming(c)' = Incoming(c) /\ Outgoing(c)' = Outgoing(c)
        /\ Backup(c)' = Backup(c) /\ Staged(c)' = Staged(c) /\ NewIndex(c)' = NewIndex(c)
    BY <1>1 DEF Want, Incoming, Outgoing, Backup, Staged, NewIndex
  <2>3. NoRecovery(c)' /\ IndexFits(c)' /\ FilesBefore(c)'
    BY <1>1, <2>1, <2>2 DEF FilesHeld, NoRecovery, IndexFits, FilesBefore, Agrees
  <2>4. PlanHeld(c)'
    BY <1>1, <2>1, <2>2 DEF FilesHeld, PlanHeld
  <2>5. StageHeld(c)'
    BY <1>1, <2>1, <2>2 DEF FilesHeld, StageHeld, StagedAll
  <2>6. MovesHeld(c)'
    BY <1>1, <2>2 DEF FilesHeld, MovesHeld
  <2> QED BY <2>3, <2>4, <2>5, <2>6 DEF FilesHeld
<1>2. CASE SyncDefinition
  BY <1>1, <1>2 DEF SyncDefinition, disk
<1>3. CASE Tamper
  BY <1>3 DEF Tamper, Undisturbed
<1>4. ASSUME NEW p \in Paths, AddUserFile(p) PROVE FilesHeld(c)'
  <2>1. /\ UNCHANGED <<doc, staging, prior, pc, job, pending>>
        /\ files[p] = Absent /\ (IndexReadable => doc["index"].files[p] = Absent)
        /\ files' = [files EXCEPT ![p] = UserFile]
        /\ lock = NoCore
    BY <1>4 DEF AddUserFile
  <2>2. /\ pc[c] \notin MovingLabels \cup {"updIndex", "updFail", "updCheck", "updStage", "repCopy"}
        /\ ~Preparing(c) /\ ~BareLabels(c) /\ pending[c].file = "none"
    BY <2>1, InputAssumption
       DEF TxInv, LockOwner, Locked, Labels, MovingLabels, BaseLabels, Preparing, BareLabels,
           InputAssumption, NoWrite
  <2>3. /\ ~Preparing(c)' /\ ~BareLabels(c)' /\ ~StagedAll(c)'
        /\ (IndexReadable' <=> IndexReadable)
    BY <2>1, <2>2 DEF Preparing, BareLabels, StagedAll, IndexReadable
  <2>4. files'[p] = UserFile /\ \A q \in Paths \ {p} : files'[q] = files[q]
    BY <2>1, FilesTyped DEF TxInv
  <2>5. NoRecovery(c)' /\ IndexFits(c)'
    BY <2>1, <2>2, <2>3, <2>4 DEF FilesHeld, NoRecovery, IndexFits, Agrees
  <2>6. FilesBefore(c)' /\ StageHeld(c)' /\ MovesHeld(c)'
    BY <2>1, <2>2, <2>3 DEF FilesBefore, StageHeld, MovesHeld, MovingLabels
  <2>7. PlanHeld(c)'
    <3>1. /\ Want(c)' = Want(c) /\ Incoming(c)' = Incoming(c) /\ Outgoing(c)' = Outgoing(c)
      BY <2>1 DEF Want, Incoming, Outgoing
    <3>2. UserFile # Absent /\ Absent \notin Contents
      BY MarkerAssumption DEF MarkerAssumption, Slot
    <3>3. pc[c] \in PlannedLabels => p \notin Outgoing(c)
      BY <2>1, <3>2 DEF FilesHeld, PlanHeld
    <3>4. Outgoing(c) \subseteq Paths
      BY JobTyped DEF Outgoing, TxInv
    <3> QED BY <2>1, <2>2, <2>3, <2>4, <3>1, <3>2, <3>3, <3>4 DEF FilesHeld, PlanHeld, MovingLabels
  <2> QED BY <2>5, <2>6, <2>7 DEF FilesHeld
<1>5. CASE Step(c) \/ Fail(c) \/ Request(c) \/ Crash(c)
  BY <1>5, FilesStep
<1> QED BY <1>1, <1>2, <1>3, <1>4, <1>5 DEF Next, vars, Alone

LEMMA FilesInvariant ==
    ASSUME Alone, Undisturbed PROVE Spec => [](\A c \in Cores : FilesHeld(c))
<1> DEFINE Held == \A c \in Cores : FilesHeld(c)
<1>1. Init => Held
  <2> SUFFICES ASSUME Init, NEW c \in Cores PROVE FilesHeld(c)
    OBVIOUS
  <2>1. /\ pc[c] = "down" /\ pending[c].file = "none" /\ doc["index"] = Absent
        /\ doc["state"] = Absent
    BY DEF Init, NoWrite
  <2>2. ~Preparing(c) /\ ~BareLabels(c) /\ ~StagedAll(c) /\ ~IndexReadable
    BY <2>1 DEF Preparing, BareLabels, StagedAll, BaseLabels, IndexReadable
  <2> QED BY <2>1, <2>2
          DEF FilesHeld, NoRecovery, IndexFits, FilesBefore, PlanHeld, StageHeld, MovesHeld,
              MovingLabels, PlannedLabels
<1>2. TxInv /\ Held /\ [Next]_vars => Held'
  BY FilesInductive
<1> HIDE DEF Held
<1>3. Spec => []Held
  BY <1>1, <1>2, TxInvariant, PTL DEF Spec
<1> QED BY <1>3 DEF Held

\* When one core works on the instance and it is not killed or damaged, an update that
\* fails before its commit, by an error or a cancellation at any step, leaves every provider
\* file as it was before the update.  A killed process is the business of recovery, and a
\* damaged index file makes verify_update return without a rollback.
THEOREM RollbackRestoresFiles ==
    ASSUME Alone, Undisturbed PROVE Spec => []RollbackRestores
<1> DEFINE Held == \A c \in Cores : FilesHeld(c)
<1>1. Held => RollbackRestores
  BY DEF FilesHeld, FilesBefore, RollbackRestores
<1>2. Spec => []Held
  BY FilesInvariant
<1> HIDE DEF Held
<1> QED BY <1>1, <1>2, PTL

\* the files of an installation are written by an installation
InstallsOnly(c) == pc[c] \in {"insMark", "insSelect", "insFiles"} => job[c].op # "update"

LEMMA InstallsStep ==
    ASSUME TypeOK, NEW c \in Cores, InstallsOnly(c),
           Step(c) \/ Fail(c) \/ Request(c) \/ Crash(c)
    PROVE  InstallsOnly(c)'
<1> USE GotoDoes DEF At, disk, InstallsOnly
<1>1. CASE \/ MakeStaging(c) \/ SaveSpec(c) \/ SaveIndex(c) \/ CopyFails(c)
           \/ (\E p \in Paths : StageFile(c, p)) \/ StageFails(c) \/ StageDone(c)
           \/ StartApplying(c) \/ CancelBeforeApply(c)
           \/ (\E p \in Paths : BackupFile(c, p)) \/ BackupDone(c)
           \/ (\E p \in Paths : ApplyFile(c, p)) \/ ApplyDone(c)
           \/ VerifyUpdate(c) \/ RollbackApplied(c) \/ RollbackBackups(c)
  BY <1>1, QuietUpdate
<1>2. CASE \/ ApplyRefuse(c) \/ CleanStaging(c)
           \/ BaseFetch(c) \/ NativesOut(c) \/ NativesIn(c) \/ BaseIndexFails(c) \/ BaseEnd(c)
           \/ (\E p \in Paths : InstallFile(c, p)) \/ InstallCopied(c)
           \/ RepairPlan(c) \/ (\E p \in Paths : RepairFile(c, p)) \/ RepairCopied(c)
           \/ PickStaging(c) \/ (\E p \in Paths : RestoreBackup(c, p)) \/ DropStaging(c)
           \/ RestoreDone(c) \/ RecoverDone(c)
  BY <1>2, QuietOther
<1>3. CASE \/ ApplyBegin(c) \/ CommitIndex(c) \/ CommitSelections(c) \/ CommitSpec(c)
           \/ UpdateDone(c) \/ UpdateFails(c) \/ RebaseSpec(c) \/ RebaseDone(c)
  <2>1. pc'[c] \notin {"insMark", "insSelect", "insFiles"}
    BY <1>3 DEF ApplyBegin, CommitIndex, CommitSelections, CommitSpec, UpdateDone,
                UpdateFails, RebaseSpec, RebaseDone
  <2> QED BY <2>1
<1>4. CASE \/ BaseBegin(c) \/ (\E why \in Why : BaseFails(c, why)) \/ BaseIndex(c)
           \/ BaseDone(c) \/ InstallIndex(c) \/ InstallDone(c) \/ InstallFails(c)
  <2>1. pc'[c] \notin {"insMark", "insSelect", "insFiles"}
    BY <1>4 DEF BaseBegin, BaseFails, BaseIndex, BaseDone, InstallIndex, InstallDone,
                InstallFails
  <2> QED BY <2>1
<1>5. CASE InstallMark(c)
  BY <1>5 DEF InstallMark
<1>6. CASE InstallSelect(c)
  BY <1>6, SelectionsTyped, SelectedDoes DEF InstallSelect
<1>7. CASE \/ RepairIndex(c) \/ RepairRefresh(c) \/ RepairDone(c) \/ RepairFails(c)
           \/ RecoverVerify(c) \/ RecoverFails(c) \/ Start(c)
           \/ (\E f \in {"spec", "index"} : RestoreDoc(c, f))
  <2>1. pc'[c] \notin {"insMark", "insSelect", "insFiles"}
    BY <1>7 DEF RepairIndex, RepairRefresh, RepairDone, RepairFails,
                RecoverVerify, RecoverFails, Start, RestoreDoc
  <2> QED BY <2>1
<1>8. CASE \/ ApplyLock(c) \/ InstallLock(c) \/ RepairLock(c) \/ RecoverLock(c)
           \/ ApplyGet(c) \/ InstallRead(c) \/ RepairRead(c) \/ Release(c)
           \/ (\E sel \in Selections : PlanRead(c, sel)) \/ PlanDiff(c) \/ Crash(c)
  <2>1. pc'[c] \notin {"insMark", "insSelect", "insFiles"}
    BY <1>8 DEF TypeOK, ApplyLock, InstallLock, RepairLock, RecoverLock, TryLock, ApplyGet,
                InstallRead, RepairRead, Release, PlanRead, PlanDiff, Crash
  <2> QED BY <2>1
<1>9. CASE Rename(c)
  BY <1>9, RenameDoes
<1> QED BY <1>1, <1>2, <1>3, <1>4, <1>5, <1>6, <1>7, <1>8, <1>9
        DEF Step, Fail, Request, UpdateStep, InstallStep, RepairStep, RecoverStep

\* A step inside an update leaves the files of the user.
LEMMA UpdateSpares ==
    ASSUME Undisturbed, TxInv, NEW c \in Cores, FilesHeld(c), InstallsOnly(c),
           Step(c) \/ Fail(c) \/ Request(c) \/ Crash(c), job[c].op = "update", lock = c,
           NEW p \in Paths, files[p] = UserFile
    PROVE  files'[p] = UserFile
<1> TypeOK
  BY DEF TxInv
<1> USE FilesTyped DEF At, disk
<1>f. UserFile \notin Contents /\ UserFile # Absent
  BY MarkerAssumption DEF MarkerAssumption, Slot
<1>1. CASE \E q \in Paths : BackupFile(c, q)
  <2>1. PICK q \in Paths : BackupFile(c, q)
    BY <1>1
  <2>2. q # p
    BY <1>f, <2>1 DEF BackupFile, FilesHeld, MovesHeld, MovingLabels
  <2> QED BY <2>1, <2>2 DEF BackupFile
<1>2. CASE \E q \in Paths : ApplyFile(c, q)
  BY <1>2, <1>f DEF ApplyFile
<1>3. CASE RollbackApplied(c)
  <2>1. \A q \in job[c].applied : q # p
    BY <1>3, <1>f DEF RollbackApplied, FilesHeld, MovesHeld, MovingLabels
  <2> QED BY <1>3, <2>1 DEF RollbackApplied
<1>4. CASE RollbackBackups(c)
  <2>1. \A q \in Paths : Backup(c)[q] # Absent => files[q] = Absent
    BY <1>4 DEF RollbackBackups, FilesHeld, MovesHeld, MovingLabels, PlanHeld
  <2>2. Backup(c)[p] = Absent
    BY <1>f, <2>1
  <2> QED BY <1>4, <2>2 DEF RollbackBackups, Backup
<1>5. CASE \E q \in Paths : InstallFile(c, q) \/ RepairFile(c, q) \/ RestoreBackup(c, q)
  BY <1>5 DEF InstallFile, InstallsOnly, RepairFile, RestoreBackup, TxInv, Relies, FilesHeld,
              NoRecovery
<1>6. CASE \/ ApplyRefuse(c) \/ ApplyBegin(c) \/ MakeStaging(c) \/ SaveSpec(c) \/ SaveIndex(c)
           \/ CopyFails(c) \/ (\E q \in Paths : StageFile(c, q)) \/ StageFails(c) \/ StageDone(c)
           \/ StartApplying(c) \/ CancelBeforeApply(c) \/ BackupDone(c) \/ ApplyDone(c)
           \/ VerifyUpdate(c) \/ RebaseSpec(c) \/ RebaseDone(c) \/ CommitIndex(c)
           \/ CommitSelections(c) \/ CommitSpec(c) \/ CleanStaging(c) \/ UpdateDone(c)
           \/ UpdateFails(c)
  <2>1. files' = files
    BY <1>6 DEF ApplyRefuse, ApplyBegin, MakeStaging, SaveSpec, SaveIndex, CopyPrevious, CopyFails,
                StageFile, StageFails, StageDone, StartApplying, CancelBeforeApply, BackupDone,
                ApplyDone, VerifyUpdate, RebaseSpec, RebaseDone, CommitIndex, CommitSelections,
                CommitSpec, CleanStaging, UpdateDone, UpdateFails
  <2> QED BY <2>1
<1>7. CASE \/ BaseBegin(c) \/ BaseFetch(c) \/ (\E why \in Why : BaseFails(c, why))
           \/ NativesOut(c) \/ NativesIn(c) \/ BaseIndex(c) \/ BaseIndexFails(c) \/ BaseDone(c)
           \/ BaseEnd(c) \/ InstallMark(c) \/ InstallSelect(c) \/ InstallCopied(c)
           \/ InstallIndex(c) \/ InstallDone(c) \/ InstallFails(c)
  <2>1. files' = files
    BY <1>7 DEF BaseBegin, BaseFetch, BaseFails, NativesOut, NativesIn, BaseIndex, BaseIndexFails,
                BaseDone, BaseEnd, InstallMark, InstallSelect, InstallCopied, InstallIndex,
                InstallDone, InstallFails
  <2> QED BY <2>1
<1>8. CASE \/ RepairIndex(c) \/ RepairPlan(c) \/ RepairCopied(c) \/ RepairRefresh(c)
           \/ RepairDone(c) \/ RepairFails(c) \/ PickStaging(c)
           \/ (\E f \in {"spec", "index"} : RestoreDoc(c, f)) \/ DropStaging(c) \/ RestoreDone(c)
           \/ RecoverVerify(c) \/ RecoverFails(c) \/ RecoverDone(c)
  <2>1. files' = files
    BY <1>8 DEF RepairIndex, RepairPlan, RepairCopied, RepairRefresh, RepairDone, RepairFails,
                PickStaging, RestoreDoc, DropStaging, RestoreDone, RecoverVerify, RecoverFails,
                RecoverDone
  <2> QED BY <2>1
<1>9. CASE \/ ApplyLock(c) \/ InstallLock(c) \/ RepairLock(c) \/ RecoverLock(c)
           \/ ApplyGet(c) \/ InstallRead(c) \/ RepairRead(c) \/ Release(c) \/ Start(c)
           \/ (\E sel \in Selections : PlanRead(c, sel)) \/ PlanDiff(c) \/ Crash(c) \/ Rename(c)
  <2>1. files' = files
    BY <1>9, RenameDoes
       DEF ApplyLock, InstallLock, RepairLock, RecoverLock, TryLock, ApplyGet, InstallRead,
           RepairRead, Release, Start, PlanRead, PlanDiff, Crash
  <2> QED BY <2>1
<1> QED BY <1>1, <1>2, <1>3, <1>4, <1>5, <1>6, <1>7, <1>8, <1>9
        DEF Step, Fail, Request, UpdateStep, InstallStep, RepairStep, RecoverStep

\* When one core works on the instance and it is not killed or damaged, no step of an update
\* removes or overwrites a file of the user: what the plan moves away were files of the index
\* when it was computed and still are, and what an update puts in place never takes a path
\* that is in use.
THEOREM UpdatesSpareUserFiles ==
    ASSUME Alone, Undisturbed PROVE Spec => UpdateKeepsUserFiles
<1> DEFINE Held == \A c \in Cores : FilesHeld(c)
           Installs == \A c \in Cores : InstallsOnly(c)
           Spared == (\E c \in Cores : job[c].op = "update" /\ lock = c) =>
                        \A p \in Paths : files[p] = UserFile => files'[p] = UserFile
<1>1. Init => Installs
  BY DEF Init, InstallsOnly
<1>2. TypeOK /\ Installs /\ [Next]_vars => Installs'
  <2> SUFFICES ASSUME TypeOK, Installs, [Next]_vars, NEW c \in Cores PROVE InstallsOnly(c)'
    OBVIOUS
  <2>1. CASE UNCHANGED <<pc, job>>
    BY <2>1 DEF InstallsOnly
  <2>2. CASE Step(c) \/ Fail(c) \/ Request(c) \/ Crash(c)
    BY <2>2, InstallsStep
  <2> QED BY <2>1, <2>2 DEF Next, vars, Alone, SyncDefinition, AddUserFile, Tamper
<1>3. TxInv /\ Held /\ Installs /\ [Next]_vars => [Spared]_vars
  <2> SUFFICES ASSUME TxInv, Held, Installs, [Next]_vars,
                      NEW c \in Cores, job[c].op = "update", lock = c,
                      NEW p \in Paths, files[p] = UserFile
               PROVE  files'[p] = UserFile
    OBVIOUS
  <2>1. CASE files' = files
    BY <2>1
  <2>2. CASE Step(c) \/ Fail(c) \/ Request(c) \/ Crash(c)
    BY <2>2, UpdateSpares
  <2>3. ~Tamper /\ \A q \in Paths : ~AddUserFile(q)
    BY InputAssumption DEF Tamper, AddUserFile, Undisturbed, InputAssumption
  <2>4. SyncDefinition => files' = files
    BY DEF SyncDefinition, disk
  <2> QED BY <2>1, <2>2, <2>3, <2>4 DEF Next, vars, Alone
<1>4. Spec => []Held
  BY FilesInvariant
<1>5. TxInv => TypeOK
  BY DEF TxInv
<1>6. UpdateKeepsUserFiles <=> [][Spared]_vars
  BY DEF UpdateKeepsUserFiles
<1> HIDE DEF Held, Installs, Spared
<1> QED BY <1>1, <1>2, <1>3, <1>4, <1>5, <1>6, TxInvariant, PTL DEF Spec
=============================================================================
