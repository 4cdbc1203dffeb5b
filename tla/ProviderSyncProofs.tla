------------------------- MODULE ProviderSyncProofs -------------------------
(***************************************************************************)
(* Proofs about ProviderSync, for all clients, providers, keys, published  *)
(* documents and budgets.                                                  *)
(***************************************************************************)
EXTENDS ProviderSync, TLAPS

\* What a file or a job's value can hold.
Values == Registry \cup Rollback \cup Snapshot \cup {NoFile}

Jobs == [step : JobStep, op : {"none", "add", "remove", "sync"}, id : Provider \cup {None},
         reg : Registration \cup {None}, override : BOOLEAN, previous : Snapshot \cup {NoFile},
         index : Index \cup {None}, status : Status, key : Key \cup {None},
         packs : [Pack -> Document \cup {None}], left : SUBSET Pack, target : File \cup {None},
         value : Values]

\* The types that TypeOK leaves open.
Shape ==
    /\ file \in [File -> [dest : Values, prev : Values]]
    /\ job \in [Client -> Jobs]
    /\ accepted \in [Provider -> SUBSET [snapshot : Snapshot, override : BOOLEAN]]

Writing == {"move", "rename", "clean"}

\* Which steps an operation has, the locks it holds in them, and what it knows of the file
\* it replaces because of its lock.
Owns(c) ==
    LET j == job[c] IN
    /\ (j.op = "none") = (j.step = "idle")
    /\ j.op \in {"add", "remove"} => /\ j.id \in Provider
                                     /\ j.step \in Writing \cup {"registry_lock"}
                                     /\ j.op = "add" => j.reg # None
    /\ j.op = "sync" => j.id \in Provider /\ lock[j.id] = c /\ j.step # "registry_lock"
    /\ j.step \in Writing =>
         /\ j.target \in File /\ lock[j.target] = c
         /\ j.op = "sync" => j.target \in {"rollback", j.id}
         /\ j.op # "sync" => j.target = "registry"
    /\ j.step = "rename" => file[j.target].dest = NoFile
    /\ j.step = "clean" => file[j.target].dest = j.value
    /\ j.op = "sync" /\ j.step \in Writing \cup {"verify", "packs", "rollback_lock"} =>
         j.index \in Index
    /\ j.step \in {"get", "get_prev", "fetch", "verify"} => \A p \in Pack : j.packs[p] = None

\* A verdict "verified" stands for a signature of the index by a key that is not barred, and
\* the manifests fetched so far are the ones the index names.
Whole(c) ==
    LET j == job[c] IN
    /\ j.step = "rollback_lock" => j.status = "verified"
    /\ j.status = "verified" =>
         /\ j.op = "sync" /\ j.step \in Writing \cup {"packs", "rollback_lock"}
         /\ j.key \in Key \ barred[c]
         /\ [signer |-> j.key, sha |-> j.index.sha] \in Envelope
         /\ \A p \in Pack : IF p \in j.left THEN j.index.refs[p] # None
                                            ELSE j.packs[p] = j.index.refs[p]
         /\ j.step # "packs" => j.left = {}

\* A mark stands above a snapshot,
Covers(high, s) ==
    /\ high # None /\ high.rev >= s.rev
    /\ \A p \in Pack : s.packs[p] # None =>
         high.packs[p] # None /\ high.packs[p].rev >= s.packs[p].rev

\* or is the snapshot's own.
Tight(high, s) ==
    /\ high.rev = s.rev /\ high.sha = s.sha
    /\ \A p \in Pack : s.packs[p] # None => high.packs[p].rev = s.packs[p].rev

Marks == Loaded("rollback")

Vouched(high, s, override) == Covers(high, s) /\ (~ override => Tight(high, s))

\* What a sync that writes has compared and recorded.
Promised(c) ==
    LET j == job[c]
        s == SnapshotOf(j)
    IN j.op = "sync" /\ j.step \in Writing =>
        /\ j.target = "rollback" =>
             /\ j.status = "verified"
             /\ j.step # "clean" => /\ j.value = [Marks EXCEPT ![j.id] = Recorded(@, s)]
                                    /\ j.override \/ Enforced(Marks[j.id], s)
             /\ j.step = "clean" => Vouched(Marks[j.id], s, j.override)
        /\ j.target = j.id =>
             /\ j.value = s
             /\ j.status = "verified" => Vouched(Marks[j.id], s, j.override)

\* The marks cover every snapshot ever committed, and name the content of the highest.
Committed ==
    \A id \in Provider : \A a \in accepted[id] :
        /\ Covers(Marks[id], a.snapshot)
        /\ ~ a.override /\ a.snapshot.rev = Marks[id].rev => a.snapshot.sha = Marks[id].sha

Barred == \A c \in Client : \A k \in barred[c] : TrustLoad.keys[k] # "trusted"

IInv ==
    /\ TypeOK /\ Shape
    /\ \A c \in Client : Owns(c) /\ Whole(c) /\ Promised(c)
    /\ HighWaterCovers /\ SignedAsAWhole /\ Committed /\ Barred

-----------------------------------------------------------------------------
(***************************************************************************)
(* The marks: what recording a snapshot does to them.                      *)
(***************************************************************************)
\* What is recorded covers the snapshot.
LEMMA RecordedCovers ==
    ASSUME NEW high \in HighWater \cup {None}, NEW s \in Snapshot
    PROVE  Recorded(high, s) \in HighWater /\ Covers(Recorded(high, s), s)
<1> USE SyncAssumption, FileAssumption
<1>1. CASE high = None
  BY <1>1 DEF Recorded, Covers, HighWater, Snapshot
<1>2. CASE high # None
  <2>1. high \in HighWater
    BY <1>2
  <2>2. Recorded(high, s) \in HighWater
    BY <2>1, <1>2 DEF Recorded, HighWater, Snapshot
  <2>3. Recorded(high, s) # None /\ Recorded(high, s).rev >= s.rev
    BY <2>1, <2>2, <1>2 DEF Recorded, HighWater, Snapshot
  <2>4. ASSUME NEW p \in Pack, s.packs[p] # None
        PROVE  /\ Recorded(high, s).packs[p] # None
               /\ Recorded(high, s).packs[p].rev >= s.packs[p].rev
    BY <2>1, <2>4, <1>2 DEF Recorded, HighWater, Snapshot
  <2> QED BY <2>2, <2>3, <2>4 DEF Covers
<1> QED BY <1>1, <1>2

\* Marks never fall: what they covered they cover.
LEMMA RecordedRises ==
    ASSUME NEW high \in HighWater, NEW s \in Snapshot
    PROVE  /\ Recorded(high, s).rev >= high.rev
           /\ Recorded(high, s).rev = high.rev => Recorded(high, s).sha = high.sha
           /\ \A t \in Snapshot : Covers(high, t) => Covers(Recorded(high, s), t)
<1> USE SyncAssumption, FileAssumption
<1>0. high # None /\ Recorded(high, s) \in HighWater
  BY RecordedCovers
<1>1. /\ Recorded(high, s).rev >= high.rev
      /\ Recorded(high, s).rev = high.rev => Recorded(high, s).sha = high.sha
  BY <1>0 DEF Recorded, HighWater, Snapshot
<1>2. ASSUME NEW p \in Pack, high.packs[p] # None
      PROVE  /\ Recorded(high, s).packs[p] # None
             /\ Recorded(high, s).packs[p].rev >= high.packs[p].rev
  BY <1>0, <1>2 DEF Recorded, HighWater, Snapshot
<1>3. ASSUME NEW t \in Snapshot, Covers(high, t)
      PROVE  Covers(Recorded(high, s), t)
  <2>1. Recorded(high, s) # None /\ Recorded(high, s).rev >= t.rev
    BY <1>0, <1>1, <1>3 DEF Covers, HighWater, Snapshot
  <2>2. ASSUME NEW p \in Pack, t.packs[p] # None
        PROVE  /\ Recorded(high, s).packs[p] # None
               /\ Recorded(high, s).packs[p].rev >= t.packs[p].rev
    <3>1. /\ high.packs[p] # None /\ high.packs[p].rev >= t.packs[p].rev
          /\ Recorded(high, s).packs[p] # None
          /\ Recorded(high, s).packs[p].rev >= high.packs[p].rev
      BY <1>2, <1>3, <2>2 DEF Covers
    <3>2. high.packs[p].rev \in Nat /\ t.packs[p].rev \in Nat /\ Recorded(high, s).packs[p].rev \in Nat
      BY <1>0, <2>2, <3>1 DEF HighWater, Snapshot
    <3> QED BY <3>1, <3>2
  <2> QED BY <2>1, <2>2 DEF Covers
<1> QED BY <1>1, <1>3

\* A snapshot that passed the comparison becomes the mark.
LEMMA EnforcedTight ==
    ASSUME NEW high \in HighWater \cup {None}, NEW s \in Snapshot, Enforced(high, s)
    PROVE  Tight(Recorded(high, s), s)
<1> USE SyncAssumption, FileAssumption
<1>1. CASE high = None
  BY <1>1 DEF Recorded, Tight, HighWater, Snapshot
<1>2. CASE high # None
  <2>1. high \in HighWater /\ Follows(s, high)
    BY <1>2 DEF Enforced
  <2>2. Recorded(high, s).rev = s.rev /\ Recorded(high, s).sha = s.sha
    BY <2>1, <1>2 DEF Recorded, Follows, HighWater, Snapshot
  <2>3. ASSUME NEW p \in Pack, s.packs[p] # None
        PROVE  Recorded(high, s).packs[p].rev = s.packs[p].rev
    <3>1. high.packs[p] # None => Follows(s.packs[p], high.packs[p])
      BY <2>3, <1>2 DEF Enforced
    <3> QED BY <2>1, <2>3, <1>2, <3>1 DEF Recorded, Follows, HighWater, Snapshot
  <2> QED BY <2>2, <2>3 DEF Tight
<1> QED BY <1>1, <1>2

-----------------------------------------------------------------------------
(***************************************************************************)
(* The files.                                                              *)
(***************************************************************************)
LEMMA Contents ==
    /\ Content("registry") = Registry /\ Content("rollback") = Rollback
    /\ \A id \in Provider : Content(id) = Snapshot
    /\ \A f \in File : Content(f) \subseteq Values /\ NoFile \notin Content(f)
BY FileAssumption DEF Content, Values, File

\* What a reader of the files gets.
LEMMA Reads ==
    ASSUME TypeOK, Shape
    PROVE  /\ Marks \in Rollback /\ Loaded("registry") \in Registry
           /\ \A id \in Provider : Read(id) \in Snapshot \cup {NoFile}
BY Contents DEF TypeOK, Read, Loaded, Marks, Registry, Rollback, File

LEMMA NoJobType == NoJob \in Jobs
BY DEF NoJob, Jobs, JobStep, Status, Values

LEMMA NoJobFields ==
    /\ NoJob.op = "none" /\ NoJob.step = "idle" /\ NoJob.status = "disabled" /\ NoJob.target = None
    /\ NoJob.id = None /\ NoJob.reg = None /\ NoJob.left = {} /\ NoJob.override = FALSE
    /\ \A p \in Pack : NoJob.packs[p] = None
BY DEF NoJob

LEMMA SyncStarts == SyncInit => IInv
<1> SUFFICES ASSUME SyncInit PROVE IInv
  OBVIOUS
<1> USE SyncAssumption, FileAssumption, TrustAssumption
<1>1. PICK registry \in Registry :
        file = [f \in File |-> [dest |-> IF f = "registry" THEN registry ELSE NoFile, prev |-> NoFile]]
  BY DEF SyncInit
<1>2. Shape
  BY <1>1, NoJobType DEF SyncInit, Shape, Values
<1>3. \A c \in Client : job[c] = NoJob
  BY DEF SyncInit
<1>4. TrustTypeOK
  BY DEF SyncInit, TrustTypeOK, NoDecision, EmptyTrust, TrustDocument
<1>5. TypeOK
  <2>1. \A f \in File : /\ file[f].dest \in Content(f) \cup {NoFile}
                        /\ file[f].prev \in Content(f) \cup {NoFile}
    BY <1>1, Contents
  <2>2. budget \in [Event -> Nat] /\ barred \in [Client -> SUBSET Key]
    BY DEF SyncInit
  <2>3. lock \in [File -> Client \cup {None}]
    BY DEF SyncInit
  <2> QED BY <1>2, <1>3, <1>4, <2>1, <2>2, <2>3, NoJobType
       DEF TypeOK, SyncInit, NoJob, Jobs, Shape
<1>6. \A c \in Client : Owns(c) /\ Whole(c) /\ Promised(c)
  <2>1. \A c \in Client : job[c].op = "none" /\ job[c].step = "idle" /\ job[c].status = "disabled"
    BY <1>3, NoJobFields
  <2> QED BY <2>1 DEF Owns, Whole, Promised, Writing
<1>7. \A id \in Provider : Read(id) = NoFile /\ accepted[id] = {}
  BY <1>1 DEF SyncInit, Read, File
<1>8. Barred
  BY DEF SyncInit, Barred
<1> QED BY <1>2, <1>5, <1>6, <1>7, <1>8 DEF IInv, HighWaterCovers, SignedAsAWhole, Committed

-----------------------------------------------------------------------------
(***************************************************************************)
(* A step of one client and the others.                                    *)
(***************************************************************************)
\* What the step leaves to the others: their jobs, the files and locks they hold, and the
\* marks but for the one provider it has locked together with rollback.json.
Spares(c) ==
    /\ \A d \in Client \ {c} : job'[d] = job[d] /\ barred'[d] \subseteq barred[d]
    /\ \A f \in File : lock[f] \in Client \ {c} => lock'[f] = lock[f] /\ file'[f] = file[f]
    /\ \/ Marks' = Marks
       \/ \E id \in Provider, s \in Snapshot :
            /\ lock["rollback"] = c /\ lock[id] = c
            /\ Marks' = [Marks EXCEPT ![id] = Recorded(@, s)]

LEMMA OthersKept ==
    ASSUME IInv, NEW c \in Client, NEW d \in Client \ {c}, Spares(c)
    PROVE  Owns(d)' /\ Whole(d)' /\ Promised(d)'
<1>1. /\ job'[d] = job[d] /\ barred'[d] \subseteq barred[d]
      /\ \A f \in File : lock[f] = d => lock'[f] = d /\ file'[f] = file[f]
  BY DEF Spares
<1>2. Owns(d) /\ Whole(d) /\ Promised(d)
  BY DEF IInv
<1>3. job[d].op = "sync" => job[d].id \in File
  BY <1>2 DEF Owns, File
<1>4. Owns(d)'
  <2>1. job[d].step \in Writing => lock'[job[d].target] = d /\ file'[job[d].target] = file[job[d].target]
    BY <1>1, <1>2 DEF Owns
  <2>2. job[d].op = "sync" => lock'[job[d].id] = d
    BY <1>1, <1>2, <1>3 DEF Owns
  <2> QED BY <1>1, <1>2, <2>1, <2>2 DEF Owns, Writing
<1>5. Whole(d)'
  BY <1>1, <1>2 DEF Whole
<1>6. CASE job[d].op = "sync" /\ job[d].step \in Writing
  <2>1. Marks'[job[d].id] = Marks[job[d].id]
    BY <1>2, <1>6, Reads DEF Spares, Owns, IInv, Rollback
  <2>2. job[d].target = "rollback" => Marks' = Marks
    BY <1>2, <1>6 DEF Spares, Owns
  <2> QED BY <1>1, <1>2, <1>4, <1>5, <2>1, <2>2 DEF Promised
<1>7. CASE ~ (job[d].op = "sync" /\ job[d].step \in Writing)
  BY <1>1, <1>4, <1>5, <1>7 DEF Promised
<1> QED BY <1>6, <1>7

\* Marks that are left or rise cover what they covered.
LEMMA CommittedKept ==
    ASSUME IInv, NEW c \in Client, Spares(c), accepted' = accepted
    PROVE  Committed'
<1> SUFFICES ASSUME NEW id \in Provider, NEW a \in accepted[id]
             PROVE  /\ Covers(Marks'[id], a.snapshot)
                    /\ ~ a.override /\ a.snapshot.rev = Marks'[id].rev => a.snapshot.sha = Marks'[id].sha
  BY DEF Committed
<1>1. /\ Covers(Marks[id], a.snapshot)
      /\ ~ a.override /\ a.snapshot.rev = Marks[id].rev => a.snapshot.sha = Marks[id].sha
  BY DEF IInv, Committed
<1>2. Marks \in Rollback /\ a.snapshot \in Snapshot
  BY Reads DEF IInv, Shape
<1>3. Marks[id] \in HighWater
  BY <1>1, <1>2 DEF Covers, Rollback
<1>4. CASE Marks'[id] = Marks[id]
  BY <1>1, <1>4
<1>5. CASE \E s \in Snapshot : Marks'[id] = Recorded(Marks[id], s)
  <2>1. PICK s \in Snapshot : Marks'[id] = Recorded(Marks[id], s)
    BY <1>5
  <2>2. /\ Marks'[id].rev >= Marks[id].rev
        /\ Marks'[id].rev = Marks[id].rev => Marks'[id].sha = Marks[id].sha
        /\ Covers(Marks'[id], a.snapshot)
    BY <1>1, <1>2, <1>3, <2>1, RecordedRises
  <2>3. Marks[id].rev \in Nat /\ a.snapshot.rev \in Nat /\ Marks[id].rev >= a.snapshot.rev
    BY <1>1, <1>2, <1>3 DEF Covers, HighWater, Snapshot
  <2>4. Marks'[id].rev \in Nat
    BY <1>2, <1>3, <2>1, RecordedCovers DEF HighWater
  <2> QED BY <1>1, <2>2, <2>3, <2>4
<1> QED BY <1>2, <1>4, <1>5 DEF Spares, Rollback

LEMMA CoversKept ==
    ASSUME IInv, NEW c \in Client, Spares(c), NEW id \in Provider, NEW s \in Snapshot,
           Covers(Marks[id], s)
    PROVE  Covers(Marks'[id], s)
<1>1. Marks \in Rollback
  BY Reads DEF IInv
<1>2. Marks[id] \in HighWater
  BY <1>1 DEF Covers, Rollback
<1>3. CASE Marks'[id] = Marks[id]
  BY <1>3
<1>4. CASE \E t \in Snapshot : Marks'[id] = Recorded(Marks[id], t)
  BY <1>2, <1>4, RecordedRises
<1> QED BY <1>1, <1>3, <1>4 DEF Spares, Rollback

\* Snapshots that nobody replaced stay covered and whole.
LEMMA SnapshotsKept ==
    ASSUME IInv, NEW c \in Client, Spares(c), NEW id \in Provider, Read(id)' = Read(id)
    PROVE  /\ Read(id)' # NoFile /\ Read(id)'.status = "verified" => Covers(Marks'[id], Read(id)')
           /\ (Read(id)' # NoFile /\ Read(id)'.status = "verified" =>
                /\ [signer |-> Read(id)'.key, sha |-> Read(id)'.sha] \in Envelope
                /\ \E index \in Index : /\ index.sha = Read(id)'.sha /\ index.rev = Read(id)'.rev
                                        /\ \A p \in Pack : index.refs[p] = Read(id)'.packs[p])
<1>1. Read(id) \in Snapshot \cup {NoFile}
  BY Reads DEF IInv
<1>2. Read(id) # NoFile /\ Read(id).status = "verified" => Covers(Marks[id], Read(id))
  BY DEF IInv, HighWaterCovers, Covers, Marks
<1>3. Read(id) # NoFile /\ Read(id).status = "verified" => Covers(Marks'[id], Read(id))
  BY <1>1, <1>2, CoversKept
<1>4. Read(id) # NoFile /\ Read(id).status = "verified" =>
        /\ [signer |-> Read(id).key, sha |-> Read(id).sha] \in Envelope
        /\ \E index \in Index : /\ index.sha = Read(id).sha /\ index.rev = Read(id).rev
                                /\ \A p \in Pack : index.refs[p] = Read(id).packs[p]
  BY DEF IInv, SignedAsAWhole
<1> QED BY <1>3, <1>4

-----------------------------------------------------------------------------
(***************************************************************************)
(* Steps that leave the files alone.                                       *)
(***************************************************************************)
\* The rest of a job's type.
JobOK(j) ==
    /\ j.target # None => j.value \in Content(j.target)
    /\ j.step \in Writing => j.target # None
    /\ j.step \in {"fetch", "not_modified", "verify", "packs"} => j.reg # None

LEMMA TypesMade ==
    ASSUME IInv, NEW c \in Client, Shape',
           \A d \in Client \ {c} : job'[d] = job[d],
           JobOK(job'[c]), TrustTypeOK', lock' \in [File -> Client \cup {None}],
           budget' \in [Event -> Nat], barred' \in [Client -> SUBSET Key],
           \A f \in File : /\ file'[f].dest \in Content(f) \cup {NoFile}
                           /\ file'[f].prev \in Content(f) \cup {NoFile}
    PROVE  TypeOK'
<1>1. \A d \in Client : JobOK(job'[d])
  BY DEF IInv, TypeOK, JobOK, Writing
<1>2. \A d \in Client : job'[d] \in Jobs
  BY DEF Shape
<1>3. \A id \in Provider : \A a \in accepted'[id] : a.snapshot \in Snapshot /\ a.override \in BOOLEAN
  BY DEF Shape
<1> QED BY <1>1, <1>2, <1>3 DEF TypeOK, JobOK, Writing, Jobs

LEMMA Together ==
    ASSUME IInv, NEW c \in Client, TypeOK', Shape', Spares(c), Barred', accepted' = accepted,
           Owns(c)', Whole(c)', Promised(c)',
           \A id \in Provider : Read(id)' = Read(id)
    PROVE  IInv'
<1>1. \A d \in Client : Owns(d)' /\ Whole(d)' /\ Promised(d)'
  BY OthersKept
<1>2. Committed'
  BY CommittedKept
<1>3. HighWaterCovers' /\ SignedAsAWhole'
  BY SnapshotsKept DEF HighWaterCovers, SignedAsAWhole, Covers, Marks
<1> QED BY <1>1, <1>2, <1>3 DEF IInv

LEMMA QuietStep ==
    ASSUME IInv, NEW c \in Client, file' = file, accepted' = accepted,
           job' \in [Client -> Jobs], \A d \in Client \ {c} : job'[d] = job[d], JobOK(job'[c]),
           lock' \in [File -> Client \cup {None}],
           \A f \in File : lock[f] \in Client \ {c} => lock'[f] = lock[f],
           TrustTypeOK', budget' \in [Event -> Nat], barred' \in [Client -> SUBSET Key],
           \A d \in Client \ {c} : barred'[d] \subseteq barred[d],
           Barred', Owns(c)', Whole(c)', Promised(c)'
    PROVE  IInv'
<1>1. Marks' = Marks /\ \A id \in Provider : Read(id)' = Read(id)
  BY DEF Marks, Loaded, Read
<1>2. Spares(c)
  BY <1>1 DEF Spares
<1>3. Shape'
  BY DEF IInv, Shape
<1>4. TypeOK'
  BY <1>3, TypesMade DEF IInv, TypeOK
<1> QED BY <1>1, <1>2, <1>3, <1>4, Together

\* The trust store and the history of revocations do not change.
LEMMA TrustKept ==
    ASSUME IInv, UNCHANGED <<trustVars, barred>>
    PROVE  TrustTypeOK' /\ Barred' /\ barred' \in [Client -> SUBSET Key]
BY DEF IInv, TypeOK, TrustTypeOK, Barred, TrustLoad, trustVars, TrustDocument

LEMMA SpendType ==
    ASSUME IInv, NEW e \in Event, Spend(e)
    PROVE  budget' \in [Event -> Nat]
BY DEF IInv, TypeOK, Spend

\* An operation returns, with the files as they are.
LEMMA EndKeeps ==
    ASSUME IInv, NEW c \in Client, End(c), file' = file, accepted' = accepted,
           TrustTypeOK', budget' \in [Event -> Nat], barred' \in [Client -> SUBSET Key],
           \A d \in Client \ {c} : barred'[d] \subseteq barred[d], Barred'
    PROVE  IInv'
<1>1. job' \in [Client -> Jobs] /\ job'[c] = NoJob /\ \A d \in Client \ {c} : job'[d] = job[d]
  BY NoJobType DEF End, IInv, Shape
<1>2. lock' \in [File -> Client \cup {None}] /\ \A f \in File : lock[f] \in Client \ {c} => lock'[f] = lock[f]
  BY DEF End, IInv, TypeOK
<1>3. JobOK(job'[c]) /\ Owns(c)' /\ Whole(c)' /\ Promised(c)'
  BY <1>1, NoJobFields DEF JobOK, Owns, Whole, Promised, Writing
<1> QED BY <1>1, <1>2, <1>3, QuietStep

LEMMA RequestKeeps ==
    ASSUME IInv, NEW c \in Client, Request(c)
    PROVE  IInv'
<1>1. CASE \E id \in Provider, reg \in Registration : AddProvider(c, id, reg)
  <2>1. PICK id \in Provider, reg \in Registration : AddProvider(c, id, reg)
    BY <1>1
  <2>2. [NoJob EXCEPT !.step = "registry_lock", !.op = "add", !.id = id, !.reg = reg] \in Jobs
    BY NoJobType DEF Jobs, JobStep
  <2>3. job' \in [Client -> Jobs] /\ \A d \in Client \ {c} : job'[d] = job[d]
    BY <2>1, <2>2 DEF AddProvider, IInv, Shape
  <2>4. /\ job'[c].step = "registry_lock" /\ job'[c].op = "add" /\ job'[c].id = id
        /\ job'[c].reg = reg /\ job'[c].status = "disabled" /\ job'[c].target = None
    BY <2>1, NoJobType, NoJobFields DEF AddProvider, IInv, Shape, Jobs
  <2>5. JobOK(job'[c]) /\ Owns(c)' /\ Whole(c)' /\ Promised(c)'
    BY <2>4, FileAssumption DEF JobOK, Owns, Whole, Promised, Writing
  <2> QED BY <2>1, <2>3, <2>5, QuietStep, TrustKept, SpendType DEF AddProvider, IInv, TypeOK, Event
<1>2. CASE \E id \in Provider : RemoveProvider(c, id)
  <2>1. PICK id \in Provider : RemoveProvider(c, id)
    BY <1>2
  <2>2. [NoJob EXCEPT !.step = "registry_lock", !.op = "remove", !.id = id] \in Jobs
    BY NoJobType DEF Jobs, JobStep
  <2>3. job' \in [Client -> Jobs] /\ \A d \in Client \ {c} : job'[d] = job[d]
    BY <2>1, <2>2 DEF RemoveProvider, IInv, Shape
  <2>4. /\ job'[c].step = "registry_lock" /\ job'[c].op = "remove" /\ job'[c].id = id
        /\ job'[c].status = "disabled" /\ job'[c].target = None
    BY <2>1, NoJobType, NoJobFields DEF RemoveProvider, IInv, Shape, Jobs
  <2>5. JobOK(job'[c]) /\ Owns(c)' /\ Whole(c)' /\ Promised(c)'
    BY <2>4 DEF JobOK, Owns, Whole, Promised, Writing
  <2> QED BY <2>1, <2>3, <2>5, QuietStep, TrustKept, SpendType DEF RemoveProvider, IInv, TypeOK, Event
<1>3. CASE \E id \in Provider, override \in BOOLEAN : StartSync(c, id, override)
  <2>1. PICK id \in Provider, override \in BOOLEAN : StartSync(c, id, override)
    BY <1>3
  <2>2. [NoJob EXCEPT !.step = "get", !.op = "sync", !.id = id, !.override = override] \in Jobs
    BY NoJobType DEF Jobs, JobStep
  <2>3. job' \in [Client -> Jobs] /\ \A d \in Client \ {c} : job'[d] = job[d]
    BY <2>1, <2>2 DEF StartSync, IInv, Shape
  <2>4. /\ job'[c].step = "get" /\ job'[c].op = "sync" /\ job'[c].id = id
        /\ job'[c].status = "disabled" /\ job'[c].target = None
        /\ \A p \in Pack : job'[c].packs[p] = None
    BY <2>1, NoJobType, NoJobFields DEF StartSync, IInv, Shape, Jobs
  <2>5. /\ lock' \in [File -> Client \cup {None}] /\ lock'[id] = c
        /\ \A f \in File : lock[f] \in Client \ {c} => lock'[f] = lock[f]
    BY <2>1, TrustAssumption DEF StartSync, IInv, TypeOK, File
  <2>6. JobOK(job'[c]) /\ Owns(c)' /\ Whole(c)' /\ Promised(c)'
    BY <2>4, <2>5 DEF JobOK, Owns, Whole, Promised, Writing
  <2>7. barred' \in [Client -> SUBSET Key] /\ \A d \in Client \ {c} : barred'[d] \subseteq barred[d]
    BY <2>1 DEF StartSync, IInv, TypeOK
  <2>8. budget' \in [Event -> Nat]
    BY <2>1 DEF StartSync, IInv, TypeOK, Event
  <2>9. TrustTypeOK' /\ TrustLoad' = TrustLoad
    BY <2>1 DEF StartSync, IInv, TypeOK, TrustTypeOK, TrustLoad, trustVars
  <2>10. Barred'
    BY <2>1, <2>9 DEF StartSync, Barred, IInv, TypeOK
  <2> QED BY <2>1, <2>3, <2>5, <2>6, <2>7, <2>8, <2>9, <2>10, QuietStep DEF StartSync
<1> QED BY <1>1, <1>2, <1>3 DEF Request

-----------------------------------------------------------------------------
(***************************************************************************)
(* The steps of a sync before it writes, and of the registry's operations. *)
(***************************************************************************)
Calm == UNCHANGED <<trustVars, file, budget, accepted, barred>>

LEMMA CalmEnd ==
    ASSUME IInv, NEW c \in Client, Calm, End(c)
    PROVE  IInv'
<1>1. budget' \in [Event -> Nat] /\ \A d \in Client \ {c} : barred'[d] \subseteq barred[d]
  BY DEF Calm, IInv, TypeOK
<1>2. TrustTypeOK' /\ Barred' /\ barred' \in [Client -> SUBSET Key]
  BY TrustKept DEF Calm
<1> QED BY <1>1, <1>2, EndKeeps DEF Calm

LEMMA CalmStep ==
    ASSUME IInv, NEW c \in Client, Calm,
           job' \in [Client -> Jobs], \A d \in Client \ {c} : job'[d] = job[d], JobOK(job'[c]),
           lock' \in [File -> Client \cup {None}],
           \A f \in File : lock[f] \in Client \ {c} => lock'[f] = lock[f],
           Owns(c)', Whole(c)', Promised(c)'
    PROVE  IInv'
<1>1. budget' \in [Event -> Nat] /\ \A d \in Client \ {c} : barred'[d] \subseteq barred[d]
  BY DEF Calm, IInv, TypeOK
<1>2. TrustTypeOK' /\ Barred' /\ barred' \in [Client -> SUBSET Key]
  BY TrustKept DEF Calm
<1>3. file' = file /\ accepted' = accepted
  BY DEF Calm
<1> QED BY <1>1, <1>2, <1>3, QuietStep

LEMMA RegistryLockKeeps ==
    ASSUME IInv, NEW c \in Client, RegistryLock(c)
    PROVE  IInv'
<1> DEFINE id == job[c].id
           registry == Loaded("registry")
           new == [registry EXCEPT ![id] = IF job[c].op = "add" THEN job[c].reg ELSE None]
<1>0. Calm /\ job[c].step = "registry_lock" /\ job[c] \in Jobs /\ Owns(c) /\ Whole(c)
  BY DEF RegistryLock, Calm, At, IInv, Shape
<1>1. CASE End(c)
  BY <1>0, <1>1, CalmEnd
<1>2. CASE /\ lock["registry"] = None /\ lock' = [lock EXCEPT !["registry"] = c]
           /\ Write(c, "registry", new)
  <2>1. registry \in Registry
    BY Reads DEF IInv
  <2>2. id \in Provider /\ job[c].op \in {"add", "remove"} /\ job[c].status # "verified"
    BY <1>0 DEF Owns, Whole, Jobs, Writing
  <2>3. job[c].op = "add" => job[c].reg \in Registration
    BY <1>0 DEF Owns, Jobs
  <2>4. new \in Registry
    BY <2>1, <2>2, <2>3 DEF Registry
  <2> HIDE DEF new
  <2>5. /\ job' \in [Client -> Jobs] /\ \A d \in Client \ {c} : job'[d] = job[d]
        /\ job'[c].step = "move" /\ job'[c].op = job[c].op /\ job'[c].id = id
        /\ job'[c].reg = job[c].reg /\ job'[c].status = job[c].status
        /\ job'[c].target = "registry" /\ job'[c].value = new
    <3>1. new \in Values /\ "registry" \in File
      BY <2>4 DEF Values, File
    <3>2. job' = [job EXCEPT ![c].step = "move", ![c].target = "registry", ![c].value = new]
      BY <1>2 DEF Write
    <3> QED BY <1>0, <3>1, <3>2, ZenonT(40) DEF Jobs, JobStep, IInv, Shape
  <2>6. /\ lock' \in [File -> Client \cup {None}] /\ lock'["registry"] = c
        /\ \A f \in File : lock[f] \in Client \ {c} => lock'[f] = lock[f]
    BY <1>2, TrustAssumption DEF IInv, TypeOK, File
  <2>7. JobOK(job'[c])
    BY <2>4, <2>5, Contents, FileAssumption DEF JobOK
  <2>8. Owns(c)' /\ Whole(c)' /\ Promised(c)'
    BY <1>0, <2>2, <2>5, <2>6 DEF Owns, Whole, Promised, Writing, File
  <2> QED BY <1>0, <2>5, <2>6, <2>7, <2>8, CalmStep
<1> QED BY <1>1, <1>2 DEF RegistryLock

\* A step of a sync that only moves on, with its locks: fetching, verifying, assembling.
LEMMA SyncMoves ==
    ASSUME IInv, NEW c \in Client, Calm, lock' = lock, job[c].op = "sync",
           job' \in [Client -> Jobs], \A d \in Client \ {c} : job'[d] = job[d],
           job'[c].op = "sync", job'[c].id = job[c].id,
           job'[c].step \in {"get_prev", "fetch", "not_modified", "verify", "packs", "rollback_lock"},
           job'[c].step \in {"fetch", "not_modified", "verify", "packs"} => job'[c].reg # None,
           job'[c].step \in {"verify", "packs", "rollback_lock"} => job'[c].index \in Index,
           job'[c].step \in {"get_prev", "fetch", "verify"} => \A p \in Pack : job'[c].packs[p] = None,
           job'[c].target = job[c].target, job'[c].value = job[c].value, Whole(c)'
    PROVE  IInv'
<1>1. /\ Owns(c) /\ lock \in [File -> Client \cup {None}]
      /\ job[c].target # None => job[c].value \in Content(job[c].target)
  BY DEF IInv, TypeOK
<1>2. JobOK(job'[c]) /\ Owns(c)' /\ Promised(c)'
  BY <1>1 DEF JobOK, Owns, Promised, Writing
<1> QED BY <1>1, <1>2, CalmStep

LEMMA GetFromKeeps ==
    ASSUME IInv, NEW c \in Client, Calm, NEW registry \in Registry, GetFrom(c, registry),
           job[c].step \in {"get", "get_prev"}
    PROVE  IInv'
<1>0. job[c] \in Jobs /\ Owns(c) /\ Whole(c)
  BY DEF IInv, Shape
<1>1. /\ job[c].op = "sync" /\ job[c].id \in Provider /\ job[c].status # "verified"
      /\ \A p \in Pack : job[c].packs[p] = None
  BY <1>0 DEF Owns, Whole, Jobs, Writing
<1>2. CASE End(c)
  BY <1>2, CalmEnd
<1>3. CASE /\ registry[job[c].id] # None /\ lock' = lock
           /\ job' = [job EXCEPT ![c].step = "fetch", ![c].reg = registry[job[c].id],
                                 ![c].previous = Read(job[c].id)]
  <2>1. registry[job[c].id] \in Registration /\ Read(job[c].id) \in Snapshot \cup {NoFile}
    BY <1>1, <1>3, Reads DEF Registry, IInv
  <2>2. /\ job' \in [Client -> Jobs] /\ \A d \in Client \ {c} : job'[d] = job[d]
        /\ job'[c].step = "fetch" /\ job'[c].op = "sync" /\ job'[c].id = job[c].id
        /\ job'[c].reg = registry[job[c].id] /\ job'[c].status = job[c].status
        /\ job'[c].packs = job[c].packs
        /\ job'[c].target = job[c].target /\ job'[c].value = job[c].value
    BY <1>0, <1>1, <1>3, <2>1, ZenonT(40) DEF Jobs, JobStep, IInv, Shape
  <2>3. Whole(c)'
    BY <1>1, <2>2 DEF Whole
  <2>4. job'[c].reg # None /\ \A p \in Pack : job'[c].packs[p] = None
    BY <1>1, <1>3, <2>2
  <2>5. lock' = lock /\ job[c].op = "sync"
    BY <1>1, <1>3
  <2> QED BY <2>2, <2>3, <2>4, <2>5, SyncMoves
<1> QED BY <1>2, <1>3 DEF GetFrom

LEMMA GetKeeps ==
    ASSUME IInv, NEW c \in Client, Get(c) \/ GetPrevious(c)
    PROVE  IInv'
<1>0. Calm /\ job[c] \in Jobs /\ Owns(c) /\ Whole(c) /\ job[c].step \in {"get", "get_prev"}
  BY DEF Get, GetPrevious, At, Calm, IInv, Shape
<1>1. /\ file["registry"].dest \in Registry \cup {NoFile}
      /\ file["registry"].prev \in Registry \cup {NoFile}
  BY Contents DEF IInv, TypeOK, File
<1>2. CASE End(c)
  BY <1>0, <1>2, CalmEnd
<1>3. CASE \E registry \in Registry : GetFrom(c, registry)
  BY <1>0, <1>3, GetFromKeeps
<1>4. CASE job' = [job EXCEPT ![c].step = "get_prev"] /\ lock' = lock
  <2>1. /\ job[c].op = "sync" /\ job[c].status # "verified"
        /\ \A p \in Pack : job[c].packs[p] = None
    BY <1>0 DEF Owns, Whole, Jobs, Writing
  <2>2. /\ job' \in [Client -> Jobs] /\ \A d \in Client \ {c} : job'[d] = job[d]
        /\ job'[c].step = "get_prev" /\ job'[c].op = "sync" /\ job'[c].id = job[c].id
        /\ job'[c].status = job[c].status /\ job'[c].packs = job[c].packs
        /\ job'[c].target = job[c].target /\ job'[c].value = job[c].value
    BY <1>0, <2>1, <1>4, ZenonT(40) DEF Jobs, JobStep, IInv, Shape
  <2>3. Whole(c)'
    BY <2>1, <2>2 DEF Whole
  <2> QED BY <1>0, <1>4, <2>1, <2>2, <2>3, SyncMoves
<1> QED BY <1>1, <1>2, <1>3, <1>4 DEF Get, GetPrevious

LEMMA FetchIndexKeeps ==
    ASSUME IInv, NEW c \in Client, NEW index \in Index, FetchIndex(c, index)
    PROVE  IInv'
<1>1. /\ Calm /\ lock' = lock /\ job[c] \in Jobs /\ Owns(c) /\ Whole(c) /\ job[c].step = "fetch"
      /\ job[c].reg # None
  BY DEF FetchIndex, At, Calm, IInv, Shape, TypeOK
<1>2. /\ job[c].op = "sync" /\ job[c].status # "verified"
      /\ \A p \in Pack : job[c].packs[p] = None
  BY <1>1 DEF Owns, Whole, Jobs, Writing
<1>3. /\ job' \in [Client -> Jobs] /\ \A d \in Client \ {c} : job'[d] = job[d]
      /\ job'[c].step = "verify" /\ job'[c].op = "sync" /\ job'[c].id = job[c].id
      /\ job'[c].status = job[c].status /\ job'[c].reg = job[c].reg /\ job'[c].index = index
      /\ job'[c].packs = job[c].packs
      /\ job'[c].target = job[c].target /\ job'[c].value = job[c].value
  BY <1>1, <1>2 DEF FetchIndex, Jobs, JobStep, IInv, Shape
<1>4. Whole(c)'
  BY <1>2, <1>3 DEF Whole
<1> QED BY <1>1, <1>2, <1>3, <1>4, SyncMoves

LEMMA FetchNotModifiedKeeps ==
    ASSUME IInv, NEW c \in Client, FetchNotModified(c)
    PROVE  IInv'
<1>1. /\ Calm /\ job[c] \in Jobs /\ Owns(c) /\ Whole(c) /\ job[c].step = "fetch"
      /\ job[c].reg # None
  BY DEF FetchNotModified, At, Calm, IInv, Shape, TypeOK
<1>2. CASE End(c)
  BY <1>1, <1>2, CalmEnd
<1>3. CASE job' = [job EXCEPT ![c].step = "not_modified"] /\ lock' = lock
  <2>1. /\ job[c].op = "sync" /\ job[c].status # "verified"
        /\ \A p \in Pack : job[c].packs[p] = None
    BY <1>1 DEF Owns, Whole, Jobs, Writing
  <2>2. /\ job' \in [Client -> Jobs] /\ \A d \in Client \ {c} : job'[d] = job[d]
        /\ job'[c].step = "not_modified" /\ job'[c].op = "sync" /\ job'[c].id = job[c].id
        /\ job'[c].status = job[c].status /\ job'[c].reg = job[c].reg
        /\ job'[c].target = job[c].target /\ job'[c].value = job[c].value
    BY <1>1, <2>1, <1>3, ZenonT(40) DEF Jobs, JobStep, IInv, Shape
  <2>3. Whole(c)'
    BY <2>1, <2>2 DEF Whole
  <2> QED BY <1>1, <1>3, <2>1, <2>2, <2>3, SyncMoves
<1> QED BY <1>2, <1>3 DEF FetchNotModified

\* The verdict: a verified index has an envelope of its own, by a trusted key.
LEMMA VerifyKeeps ==
    ASSUME IInv, NEW c \in Client, NEW envelope \in Envelope \cup {None}, VerifyIndex(c, envelope)
    PROVE  IInv'
<1> DEFINE verdict == Verdict(job[c].reg, job[c].id, job[c].index, envelope)
           key == IF verdict = "verified" THEN envelope.signer ELSE None
           left == {p \in Pack : job[c].index.refs[p] # None}
<1>0. /\ Calm /\ job[c] \in Jobs /\ Owns(c) /\ Whole(c) /\ Barred /\ job[c].step = "verify"
      /\ job[c].reg # None
  BY DEF VerifyIndex, At, Calm, IInv, Shape, TypeOK
<1>1. /\ job[c].op = "sync" /\ job[c].status # "verified" /\ job[c].index \in Index
      /\ \A p \in Pack : job[c].packs[p] = None
  BY <1>0 DEF Owns, Whole, Jobs, Writing
<1>2. CASE End(c)
  BY <1>0, <1>2, CalmEnd
<1>3. CASE /\ verdict # "refused" /\ lock' = lock
           /\ job' = [job EXCEPT ![c].step = "packs", ![c].status = verdict, ![c].key = key,
                                 ![c].left = left]
  <2>1. verdict \in Status
    BY <1>3 DEF Verdict, Status
  <2>2. ASSUME verdict = "verified"
        PROVE  /\ envelope \in Envelope /\ envelope.sha = job[c].index.sha
               /\ key = envelope.signer /\ TrustLoad.keys[key] = "trusted"
    BY <2>2 DEF Verdict, Authorized
  <2>3. verdict = "verified" => /\ key \in Key \ barred[c]
                                /\ [signer |-> key, sha |-> job[c].index.sha] \in Envelope
    BY <1>0, <2>2, SyncAssumption DEF Barred
  <2>4. key \in Key \cup {None}
    BY <2>3
  <2> HIDE DEF verdict, key
  <2>5. /\ job' \in [Client -> Jobs] /\ \A d \in Client \ {c} : job'[d] = job[d]
        /\ job'[c].step = "packs" /\ job'[c].op = "sync" /\ job'[c].id = job[c].id
        /\ job'[c].status = verdict /\ job'[c].key = key /\ job'[c].left = left
        /\ job'[c].reg = job[c].reg /\ job'[c].index = job[c].index /\ job'[c].packs = job[c].packs
        /\ job'[c].target = job[c].target /\ job'[c].value = job[c].value
    BY <1>0, <1>1, <1>3, <2>1, <2>4, ZenonT(40) DEF Jobs, JobStep, IInv, Shape
  <2>6. Whole(c)'
    <3>1. \A p \in Pack : IF p \in left THEN job[c].index.refs[p] # None
                                         ELSE job[c].packs[p] = job[c].index.refs[p]
      BY <1>1
    <3> HIDE DEF left
    <3>2. barred' = barred
      BY <1>0 DEF Calm
    <3> QED BY <2>3, <2>5, <3>1, <3>2 DEF Whole
  <2> QED BY <1>0, <1>1, <1>3, <2>5, <2>6, SyncMoves
<1> QED BY <1>2, <1>3 DEF VerifyIndex

\* A manifest under a verified index is the one the index names: digests tell them apart.
LEMMA FetchPackKeeps ==
    ASSUME IInv, NEW c \in Client, NEW p \in Pack, NEW document \in Document,
           FetchPack(c, p, document)
    PROVE  IInv'
<1>0. /\ Calm /\ job[c] \in Jobs /\ Owns(c) /\ Whole(c) /\ job[c].step = "packs" /\ p \in job[c].left
      /\ job[c].reg # None
  BY DEF FetchPack, At, Calm, IInv, Shape, TypeOK
<1>1. job[c].op = "sync" /\ job[c].index \in Index
  BY <1>0 DEF Owns, Jobs, Writing
<1>2. CASE End(c)
  BY <1>0, <1>2, CalmEnd
<1>3. CASE /\ Authentic(c, p, document) /\ lock' = lock
           /\ job' = [job EXCEPT ![c].packs[p] = document, ![c].left = @ \ {p}]
  <2>1. /\ job' \in [Client -> Jobs] /\ \A d \in Client \ {c} : job'[d] = job[d]
        /\ job'[c].step = "packs" /\ job'[c].op = "sync" /\ job'[c].id = job[c].id
        /\ job'[c].status = job[c].status /\ job'[c].key = job[c].key
        /\ job'[c].left = job[c].left \ {p} /\ job'[c].packs = [job[c].packs EXCEPT ![p] = document]
        /\ job'[c].reg = job[c].reg /\ job'[c].index = job[c].index
        /\ job'[c].target = job[c].target /\ job'[c].value = job[c].value
    BY <1>0, <1>1, <1>3 DEF Jobs, JobStep, IInv, Shape
  <2>2. Whole(c)'
    <3>1. barred' = barred
      BY <1>0 DEF Calm
    <3>2. job[c].status = "verified" => document = job[c].index.refs[p]
      BY <1>0, <1>1, <1>3, SyncAssumption DEF Authentic, Whole
    <3>3. job[c].status = "verified" =>
            \A q \in Pack : IF q \in job'[c].left THEN job[c].index.refs[q] # None
                                                 ELSE job'[c].packs[q] = job[c].index.refs[q]
      BY <1>0, <2>1, <3>2 DEF Whole, Jobs
    <3> QED BY <1>0, <2>1, <3>1, <3>3 DEF Whole
  <2> QED BY <1>0, <1>1, <1>3, <2>1, <2>2, SyncMoves
<1> QED BY <1>2, <1>3 DEF FetchPack

LEMMA FetchFailsKeeps ==
    ASSUME IInv, NEW c \in Client, FetchFails(c)
    PROVE  IInv'
<1>1. budget' \in [Event -> Nat]
  BY SpendType DEF FetchFails, Event
<1>2. /\ TrustTypeOK' /\ Barred' /\ barred' \in [Client -> SUBSET Key]
      /\ \A d \in Client \ {c} : barred'[d] \subseteq barred[d]
  BY TrustKept DEF FetchFails
<1> QED BY <1>1, <1>2, EndKeeps DEF FetchFails

LEMMA SnapshotMade ==
    ASSUME NEW j \in Jobs, j.index \in Index
    PROVE  SnapshotOf(j) \in Snapshot
BY SyncAssumption DEF SnapshotOf, Snapshot, Jobs

\* A sync begins to write the snapshot it has assembled.
LEMMA AssembleKeeps ==
    ASSUME IInv, NEW c \in Client, Assemble(c)
    PROVE  IInv'
<1>0. /\ Calm /\ lock' = lock /\ job[c] \in Jobs /\ Owns(c) /\ Whole(c) /\ job[c].step = "packs"
      /\ job[c].left = {}
  BY DEF Assemble, At, Calm, IInv, Shape, TypeOK
<1>1. job[c].op = "sync" /\ job[c].id \in Provider /\ lock[job[c].id] = c /\ job[c].index \in Index
  BY <1>0 DEF Owns, Jobs, Writing
<1>2. CASE job[c].status = "verified" /\ job' = [job EXCEPT ![c].step = "rollback_lock"]
  <2>1. /\ job' \in [Client -> Jobs] /\ \A d \in Client \ {c} : job'[d] = job[d]
        /\ job'[c].step = "rollback_lock" /\ job'[c].op = "sync" /\ job'[c].id = job[c].id
        /\ job'[c].status = job[c].status /\ job'[c].key = job[c].key
        /\ job'[c].left = job[c].left /\ job'[c].packs = job[c].packs
        /\ job'[c].index = job[c].index
        /\ job'[c].target = job[c].target /\ job'[c].value = job[c].value
    BY <1>0, <1>1, <1>2 DEF Jobs, JobStep, IInv, Shape
  <2>2. barred' = barred
    BY <1>0 DEF Calm
  <2>3. Whole(c)'
    BY <1>0, <1>2, <2>1, <2>2 DEF Whole
  <2> QED BY <1>0, <1>1, <2>1, <2>3, SyncMoves
<1>3. CASE job[c].status # "verified" /\ Write(c, job[c].id, SnapshotOf(job[c]))
  <2> DEFINE s == SnapshotOf(job[c])
  <2>1. s \in Snapshot /\ s \in Values /\ job[c].id \in File /\ job[c].id # "rollback"
    BY <1>0, <1>1, SnapshotMade, FileAssumption DEF Values, File
  <2>2. job' = [job EXCEPT ![c].step = "move", ![c].target = job[c].id, ![c].value = s]
    BY <1>3 DEF Write
  <2> HIDE DEF s
  <2>3. /\ job' \in [Client -> Jobs] /\ \A d \in Client \ {c} : job'[d] = job[d]
        /\ job'[c].step = "move" /\ job'[c].op = "sync" /\ job'[c].id = job[c].id
        /\ job'[c].status = job[c].status /\ job'[c].key = job[c].key
        /\ job'[c].packs = job[c].packs /\ job'[c].index = job[c].index
        /\ job'[c].target = job[c].id /\ job'[c].value = s
    BY <1>0, <1>1, <2>1, <2>2 DEF Jobs, JobStep, IInv, Shape
  <2>4. SnapshotOf(job'[c]) = s
    BY <2>3 DEF SnapshotOf, s
  <2>5. JobOK(job'[c])
    BY <1>1, <2>1, <2>3, Contents, TrustAssumption DEF JobOK
  <2>6. Owns(c)' /\ Whole(c)'
    BY <1>0, <1>1, <1>3, <2>1, <2>3 DEF Owns, Whole, Writing
  <2>7. Promised(c)'
    BY <1>3, <2>1, <2>3, <2>4 DEF Promised
  <2>8. lock' \in [File -> Client \cup {None}]
    BY <1>0 DEF IInv, TypeOK
  <2> QED BY <1>0, <2>3, <2>5, <2>6, <2>7, <2>8, CalmStep
<1> QED BY <1>2, <1>3 DEF Assemble

\* The comparison, and the marks that will be recorded.
LEMMA EnforceKeeps ==
    ASSUME IInv, NEW c \in Client, Enforce(c)
    PROVE  IInv'
<1> DEFINE s == SnapshotOf(job[c])
           id == job[c].id
           new == [Marks EXCEPT ![id] = Recorded(@, s)]
<1>0. /\ Calm /\ job[c] \in Jobs /\ Owns(c) /\ Whole(c) /\ job[c].step = "rollback_lock"
      /\ Marks \in Rollback
  BY Reads DEF Enforce, At, Calm, IInv, Shape, TypeOK
<1>1. job[c].op = "sync" /\ id \in Provider /\ lock[id] = c /\ job[c].index \in Index
  BY <1>0 DEF Owns, Jobs, Writing
<1>2. CASE End(c)
  BY <1>0, <1>2, CalmEnd
<1>3. CASE /\ lock["rollback"] = None /\ lock' = [lock EXCEPT !["rollback"] = c]
           /\ Write(c, "rollback", new)
           /\ job[c].override \/ Enforced(Marks[id], s)
  <2>1. s \in Snapshot
    BY <1>0, <1>1, SnapshotMade
  <2>2. new \in Rollback
    <3>1. Recorded(Marks[id], s) \in HighWater
      BY <1>0, <1>1, <2>1, RecordedCovers DEF Rollback
    <3> QED BY <1>0, <1>1, <3>1 DEF Rollback
  <2>3. new \in Values /\ "rollback" \in File /\ id \in File /\ id # "rollback"
    BY <1>1, <2>2, FileAssumption DEF Values, File
  <2>4. job' = [job EXCEPT ![c].step = "move", ![c].target = "rollback", ![c].value = new]
    BY <1>3 DEF Write
  <2> HIDE DEF new
  <2>5. /\ job' \in [Client -> Jobs] /\ \A d \in Client \ {c} : job'[d] = job[d]
        /\ job'[c].step = "move" /\ job'[c].op = "sync" /\ job'[c].id = job[c].id
        /\ job'[c].status = job[c].status /\ job'[c].key = job[c].key
        /\ job'[c].packs = job[c].packs /\ job'[c].index = job[c].index
        /\ job'[c].left = job[c].left /\ job'[c].override = job[c].override
        /\ job'[c].target = "rollback" /\ job'[c].value = new
    BY <1>0, <1>1, <2>3, <2>4 DEF Jobs, JobStep, IInv, Shape
  <2>6. SnapshotOf(job'[c]) = s
    BY <2>5 DEF SnapshotOf
  <2>7. /\ lock' \in [File -> Client \cup {None}] /\ lock'["rollback"] = c /\ lock'[id] = c
        /\ \A f \in File : lock[f] \in Client \ {c} => lock'[f] = lock[f]
    BY <1>1, <1>3, <2>3, TrustAssumption DEF IInv, TypeOK
  <2>8. JobOK(job'[c])
    BY <2>2, <2>5, Contents, FileAssumption DEF JobOK
  <2>9. barred' = barred /\ Marks' = Marks
    BY <1>0 DEF Calm, Marks, Loaded, Read
  <2>10. Owns(c)' /\ Whole(c)'
    BY <1>0, <1>1, <2>3, <2>5, <2>7, <2>9 DEF Owns, Whole, Writing
  <2>11. job[c].status = "verified"
    BY <1>0 DEF Whole
  <2>12. Promised(c)'
    BY <1>3, <2>3, <2>5, <2>6, <2>9, <2>11 DEF Promised, new
  <2> QED BY <1>0, <2>5, <2>7, <2>8, <2>10, <2>12, CalmStep
<1> QED BY <1>2, <1>3 DEF Enforce, RollbackFree, Marks

-----------------------------------------------------------------------------
(***************************************************************************)
(* atomic_json: one file changes, and its lock is held.                    *)
(***************************************************************************)
\* What a client that writes knows.
LEMMA Writer ==
    ASSUME IInv, NEW c \in Client, job[c].step \in Writing
    PROVE  /\ job[c] \in Jobs /\ Owns(c) /\ Whole(c) /\ Promised(c)
           /\ job[c].target \in File /\ lock[job[c].target] = c
           /\ job[c].value \in Content(job[c].target) /\ job[c].value # NoFile
           /\ job[c].op = "sync" \/ job[c].target = "registry"
           /\ file \in [File -> [dest : Values, prev : Values]]
           /\ \A f \in File : /\ file[f].dest \in Content(f) \cup {NoFile}
                              /\ file[f].prev \in Content(f) \cup {NoFile}
<1>1. job[c] \in Jobs /\ Owns(c) /\ Whole(c) /\ Promised(c)
  BY DEF IInv, Shape
<1>2. job[c].target \in File /\ job[c].value \in Content(job[c].target)
  BY <1>1 DEF IInv, TypeOK, Owns, Writing
<1> QED BY <1>1, <1>2, Contents DEF IInv, TypeOK, Shape, Owns

\* The files a reader finds after one of them changed.
LEMMA FileChanged ==
    ASSUME IInv, NEW c \in Client, NEW f \in File, lock[f] = c,
           file' \in [File -> [dest : Values, prev : Values]],
           \A g \in File \ {f} : file'[g] = file[g],
           file'[f].dest \in Content(f) \cup {NoFile}, file'[f].prev \in Content(f) \cup {NoFile}
    PROVE  /\ \A g \in File : /\ file'[g].dest \in Content(g) \cup {NoFile}
                              /\ file'[g].prev \in Content(g) \cup {NoFile}
           /\ \A g \in File \ {f} : Read(g)' = Read(g)
           /\ f # "rollback" => Marks' = Marks
           /\ \A g \in File : lock[g] \in Client \ {c} => file'[g] = file[g]
<1>1. \A g \in File : /\ file'[g].dest \in Content(g) \cup {NoFile}
                      /\ file'[g].prev \in Content(g) \cup {NoFile}
  BY DEF IInv, TypeOK
<1>2. \A g \in File \ {f} : Read(g)' = Read(g)
  BY DEF Read
<1>3. f # "rollback" => Marks' = Marks
  BY <1>2 DEF Marks, Loaded, File
<1> QED BY <1>1, <1>2, <1>3

\* The step of a writer that leaves trust and what readers find of the snapshots.
LEMMA FileStep ==
    ASSUME IInv, NEW c \in Client, Spares(c), UNCHANGED <<trustVars, barred>>,
           accepted' = accepted, budget' \in [Event -> Nat],
           file' \in [File -> [dest : Values, prev : Values]],
           \A g \in File : /\ file'[g].dest \in Content(g) \cup {NoFile}
                           /\ file'[g].prev \in Content(g) \cup {NoFile},
           job' \in [Client -> Jobs], JobOK(job'[c]), lock' \in [File -> Client \cup {None}],
           \A id \in Provider : Read(id)' = Read(id),
           Owns(c)', Whole(c)', Promised(c)'
    PROVE  IInv'
<1>1. TrustTypeOK' /\ Barred' /\ barred' \in [Client -> SUBSET Key]
  BY TrustKept
<1>2. Shape'
  BY DEF IInv, Shape
<1>3. \A d \in Client \ {c} : job'[d] = job[d]
  BY DEF Spares
<1>4. TypeOK'
  BY <1>1, <1>2, <1>3, TypesMade
<1> QED BY <1>1, <1>2, <1>4, Together

LEMMA MoveOldKeeps ==
    ASSUME IInv, NEW c \in Client, MoveOld(c)
    PROVE  IInv' /\ Spares(c)
<1>0. job[c].step = "move" /\ job[c].step \in Writing
  BY DEF MoveOld, At, Writing
<1>f. PICK f \in File : f = job[c].target
  BY <1>0, Writer
<1>1. /\ job[c] \in Jobs /\ Owns(c) /\ Whole(c) /\ Promised(c) /\ f = job[c].target /\ lock[f] = c
      /\ job[c].value \in Content(f)
  BY <1>0, <1>f, Writer
<1>2. /\ file \in [File -> [dest : Values, prev : Values]]
      /\ file[f].dest \in Content(f) \cup {NoFile} /\ file[f].prev \in Content(f) \cup {NoFile}
  BY <1>0, <1>f, Writer
<1>3. /\ file' \in [File -> [dest : Values, prev : Values]]
      /\ \A g \in File \ {f} : file'[g] = file[g]
      /\ file'[f].dest = NoFile
      /\ file'[f].prev = IF file[f].dest = NoFile THEN file[f].prev ELSE file[f].dest
  BY <1>1, <1>2 DEF MoveOld, Moved, Values
<1>4. /\ \A g \in File : /\ file'[g].dest \in Content(g) \cup {NoFile}
                         /\ file'[g].prev \in Content(g) \cup {NoFile}
      /\ \A g \in File \ {f} : Read(g)' = Read(g)
      /\ \A g \in File : lock[g] \in Client \ {c} => file'[g] = file[g]
  BY <1>1, <1>2, <1>3, FileChanged
<1>5. Read(f)' = Read(f)
  BY <1>2, <1>3 DEF Read
<1>6. Marks' = Marks /\ \A id \in Provider : Read(id)' = Read(id)
  BY <1>4, <1>5 DEF Marks, Loaded, File
<1>7. /\ job' \in [Client -> Jobs] /\ \A d \in Client \ {c} : job'[d] = job[d]
      /\ job'[c] = [job[c] EXCEPT !.step = "rename"]
  BY <1>1, ZenonT(40) DEF MoveOld, Jobs, JobStep, IInv, Shape
<1>8. /\ job'[c].step = "rename" /\ job'[c].op = job[c].op /\ job'[c].id = job[c].id
      /\ job'[c].reg = job[c].reg /\ job'[c].override = job[c].override
      /\ job'[c].status = job[c].status /\ job'[c].key = job[c].key /\ job'[c].left = job[c].left
      /\ job'[c].packs = job[c].packs /\ job'[c].index = job[c].index
      /\ job'[c].target = job[c].target /\ job'[c].value = job[c].value
  BY <1>1, <1>7 DEF Jobs
<1>9. SnapshotOf(job'[c]) = SnapshotOf(job[c])
  BY <1>8 DEF SnapshotOf
<1>10. UNCHANGED <<trustVars, lock, budget, accepted, barred>>
  BY DEF MoveOld
<1>11. Owns(c)'
  BY <1>0, <1>1, <1>3, <1>8, <1>10 DEF Owns, Writing
<1>12. Whole(c)' /\ Promised(c)'
  <2>1. Whole(c)'
    BY <1>0, <1>1, <1>8, <1>10 DEF Whole, Writing
  <2>2. Promised(c)'
    BY <1>0, <1>1, <1>6, <1>8, <1>9 DEF Promised, Writing
  <2> QED BY <2>1, <2>2
<1>13. JobOK(job'[c])
  BY <1>1, <1>8, FileAssumption, TrustAssumption DEF JobOK, File
<1>14. Spares(c)
  BY <1>4, <1>6, <1>7, <1>10 DEF Spares
<1>15. lock' \in [File -> Client \cup {None}] /\ budget' \in [Event -> Nat]
  BY <1>10 DEF IInv, TypeOK
<1> QED BY <1>3, <1>4, <1>6, <1>7, <1>10, <1>11, <1>12, <1>13, <1>14, <1>15, FileStep

LEMMA RenameFailsKeeps ==
    ASSUME IInv, NEW c \in Client, RenameFails(c)
    PROVE  IInv' /\ Spares(c)
<1>0. job[c].step = "rename" /\ job[c].step \in Writing
  BY DEF RenameFails, At, Writing
<1>f. PICK f \in File : f = job[c].target
  BY <1>0, Writer
<1>1. /\ Owns(c) /\ f = job[c].target /\ lock[f] = c /\ file[f].dest = NoFile
      /\ file \in [File -> [dest : Values, prev : Values]]
      /\ file[f].prev \in Content(f) \cup {NoFile}
  BY <1>0, <1>f, Writer DEF Owns
<1>2. /\ file' \in [File -> [dest : Values, prev : Values]]
      /\ \A g \in File \ {f} : file'[g] = file[g]
      /\ file'[f] = IF file[f].prev = NoFile THEN file[f] ELSE [dest |-> file[f].prev, prev |-> NoFile]
  BY <1>1 DEF RenameFails, Values
<1>3. file'[f].dest \in Content(f) \cup {NoFile} /\ file'[f].prev \in Content(f) \cup {NoFile}
  BY <1>1, <1>2
<1>4. /\ \A g \in File : /\ file'[g].dest \in Content(g) \cup {NoFile}
                         /\ file'[g].prev \in Content(g) \cup {NoFile}
      /\ \A g \in File \ {f} : Read(g)' = Read(g)
      /\ \A g \in File : lock[g] \in Client \ {c} => file'[g] = file[g]
  BY <1>1, <1>2, <1>3, FileChanged
<1>5. Read(f)' = Read(f)
  BY <1>1, <1>2 DEF Read
<1>6. Marks' = Marks /\ \A id \in Provider : Read(id)' = Read(id)
  BY <1>4, <1>5 DEF Marks, Loaded, File
<1>7. job' \in [Client -> Jobs] /\ job'[c] = NoJob /\ \A d \in Client \ {c} : job'[d] = job[d]
  BY NoJobType DEF RenameFails, End, IInv, Shape
<1>8. lock' \in [File -> Client \cup {None}] /\ \A g \in File : lock[g] \in Client \ {c} => lock'[g] = lock[g]
  BY DEF RenameFails, End, IInv, TypeOK
<1>9. JobOK(job'[c]) /\ Owns(c)' /\ Whole(c)' /\ Promised(c)'
  BY <1>7, NoJobFields DEF JobOK, Owns, Whole, Promised, Writing
<1>10. UNCHANGED <<trustVars, barred>> /\ accepted' = accepted /\ budget' \in [Event -> Nat]
  BY SpendType DEF RenameFails, Event
<1>11. Spares(c)
  BY <1>4, <1>6, <1>7, <1>8, <1>10 DEF Spares
<1> QED BY <1>2, <1>4, <1>6, <1>7, <1>8, <1>9, <1>10, <1>11, FileStep

LEMMA RemovePreviousKeeps ==
    ASSUME IInv, NEW c \in Client, RemovePrevious(c)
    PROVE  IInv' /\ Spares(c)
<1>0. job[c].step = "clean" /\ job[c].step \in Writing
  BY DEF RemovePrevious, At, Writing
<1>f. PICK f \in File : f = job[c].target
  BY <1>0, Writer
<1>1. /\ job[c] \in Jobs /\ Owns(c) /\ Whole(c) /\ Promised(c) /\ f = job[c].target /\ lock[f] = c
      /\ file[f].dest \in Content(f) /\ file[f].dest # NoFile
      /\ file \in [File -> [dest : Values, prev : Values]]
  BY <1>0, <1>f, Writer DEF Owns
<1>2. /\ file' \in [File -> [dest : Values, prev : Values]]
      /\ \A g \in File \ {f} : file'[g] = file[g]
      /\ file'[f].dest = file[f].dest /\ file'[f].prev = NoFile
  BY <1>1 DEF RemovePrevious, Values
<1>3. /\ \A g \in File : /\ file'[g].dest \in Content(g) \cup {NoFile}
                         /\ file'[g].prev \in Content(g) \cup {NoFile}
      /\ \A g \in File \ {f} : Read(g)' = Read(g)
      /\ \A g \in File : lock[g] \in Client \ {c} => file'[g] = file[g]
  BY <1>1, <1>2, FileChanged
<1>4. Read(f)' = Read(f)
  BY <1>1, <1>2 DEF Read
<1>5. Marks' = Marks /\ \A id \in Provider : Read(id)' = Read(id)
  BY <1>3, <1>4 DEF Marks, Loaded, File
<1>6. UNCHANGED <<trustVars, barred>> /\ accepted' = accepted /\ budget' \in [Event -> Nat]
  BY DEF RemovePrevious, IInv, TypeOK
<1>7. CASE End(c)
  <2>1. job' \in [Client -> Jobs] /\ job'[c] = NoJob /\ \A d \in Client \ {c} : job'[d] = job[d]
    BY <1>7, NoJobType DEF End, IInv, Shape
  <2>2. lock' \in [File -> Client \cup {None}] /\ \A g \in File : lock[g] \in Client \ {c} => lock'[g] = lock[g]
    BY <1>7 DEF End, IInv, TypeOK
  <2>3. JobOK(job'[c]) /\ Owns(c)' /\ Whole(c)' /\ Promised(c)'
    BY <2>1, NoJobFields DEF JobOK, Owns, Whole, Promised, Writing
  <2>4. Spares(c)
    BY <1>3, <1>5, <1>6, <2>1, <2>2 DEF Spares
  <2> QED BY <1>2, <1>3, <1>5, <1>6, <2>1, <2>2, <2>3, <2>4, FileStep
<1>8. CASE /\ f = "rollback" /\ lock' = [lock EXCEPT !["rollback"] = None]
           /\ Write(c, job[c].id, SnapshotOf(job[c]))
  <2> DEFINE s == SnapshotOf(job[c])
             id == job[c].id
  <2>1. job[c].op = "sync" /\ id \in Provider /\ lock[id] = c /\ job[c].index \in Index
    BY <1>0, <1>1, <1>8 DEF Owns
  <2>2. job[c].status = "verified" /\ Vouched(Marks[id], s, job[c].override)
    BY <1>0, <1>1, <1>8, <2>1 DEF Promised
  <2>3. s \in Snapshot /\ s \in Values /\ id \in File /\ id # "rollback"
    BY <1>1, <2>1, SnapshotMade, FileAssumption DEF Values, File
  <2>4. job' = [job EXCEPT ![c].step = "move", ![c].target = id, ![c].value = s]
    BY <1>8 DEF Write
  <2> HIDE DEF s
  <2>5. /\ job' \in [Client -> Jobs] /\ \A d \in Client \ {c} : job'[d] = job[d]
        /\ job'[c].step = "move" /\ job'[c].op = "sync" /\ job'[c].id = id
        /\ job'[c].status = job[c].status /\ job'[c].key = job[c].key
        /\ job'[c].packs = job[c].packs /\ job'[c].index = job[c].index
        /\ job'[c].left = job[c].left /\ job'[c].override = job[c].override
        /\ job'[c].target = id /\ job'[c].value = s
    BY <1>1, <2>1, <2>3, <2>4 DEF Jobs, JobStep, IInv, Shape
  <2>6. SnapshotOf(job'[c]) = s
    BY <2>5 DEF SnapshotOf, s
  <2>7. /\ lock' \in [File -> Client \cup {None}] /\ lock'[id] = c
        /\ \A g \in File : lock[g] \in Client \ {c} => lock'[g] = lock[g]
    BY <1>1, <1>8, <2>1, <2>3 DEF IInv, TypeOK
  <2>8. JobOK(job'[c])
    BY <2>1, <2>3, <2>5, Contents, TrustAssumption DEF JobOK
  <2>9. Owns(c)' /\ Whole(c)'
    BY <1>0, <1>1, <1>6, <2>1, <2>3, <2>5, <2>7 DEF Owns, Whole, Writing
  <2>10. Promised(c)'
    BY <1>5, <2>2, <2>3, <2>5, <2>6 DEF Promised
  <2>11. Spares(c)
    BY <1>3, <1>5, <1>6, <2>5, <2>7 DEF Spares
  <2> QED BY <1>2, <1>3, <1>5, <1>6, <2>5, <2>7, <2>8, <2>9, <2>10, <2>11, FileStep
<1> QED BY <1>1, <1>7, <1>8 DEF RemovePrevious

\* The rename of rollback.json records the marks; the rename of a snapshot commits it.
LEMMA RenameNewFacts ==
    ASSUME IInv, NEW c \in Client, RenameNew(c), NEW f \in File, f = job[c].target
    PROVE  /\ job[c].step = "rename" /\ job[c].step \in Writing
           /\ lock[f] = c /\ job[c].value \in Content(f) /\ job[c].value # NoFile
           /\ file' \in [File -> [dest : Values, prev : Values]]
           /\ \A g \in File : /\ file'[g].dest \in Content(g) \cup {NoFile}
                              /\ file'[g].prev \in Content(g) \cup {NoFile}
           /\ \A g \in File \ {f} : Read(g)' = Read(g)
           /\ Read(f)' = job[c].value
           /\ file'[f].dest = job[c].value
           /\ f # "rollback" => Marks' = Marks
           /\ f = "rollback" => Marks' = job[c].value
           /\ \A g \in File : lock[g] \in Client \ {c} => file'[g] = file[g]
<1>0. job[c].step = "rename" /\ job[c].step \in Writing
  BY DEF RenameNew, At, Writing
<1>1. /\ lock[f] = c /\ job[c].value \in Content(f) /\ job[c].value # NoFile
      /\ file \in [File -> [dest : Values, prev : Values]]
      /\ file[f].prev \in Content(f) \cup {NoFile}
  BY <1>0, Writer
<1>2. job[c].value \in Values
  BY <1>1, Contents
<1>3. /\ file' \in [File -> [dest : Values, prev : Values]]
      /\ \A g \in File \ {f} : file'[g] = file[g]
      /\ file'[f].dest = job[c].value /\ file'[f].prev = file[f].prev
  BY <1>1, <1>2 DEF RenameNew
<1>4. /\ \A g \in File : /\ file'[g].dest \in Content(g) \cup {NoFile}
                         /\ file'[g].prev \in Content(g) \cup {NoFile}
      /\ \A g \in File \ {f} : Read(g)' = Read(g)
      /\ f # "rollback" => Marks' = Marks
      /\ \A g \in File : lock[g] \in Client \ {c} => file'[g] = file[g]
  BY <1>1, <1>3, FileChanged
<1>5. Read(f)' = job[c].value
  BY <1>1, <1>3 DEF Read
<1>6. f = "rollback" => Marks' = job[c].value
  BY <1>1, <1>5 DEF Marks, Loaded
<1> QED BY <1>0, <1>1, <1>3, <1>4, <1>5, <1>6

LEMMA RenameNewJob ==
    ASSUME IInv, NEW c \in Client, RenameNew(c), NEW f \in File, f = job[c].target
    PROVE  /\ job' \in [Client -> Jobs] /\ \A d \in Client \ {c} : job'[d] = job[d]
           /\ job'[c].step = "clean" /\ job'[c].op = job[c].op /\ job'[c].id = job[c].id
           /\ job'[c].reg = job[c].reg /\ job'[c].override = job[c].override
           /\ job'[c].status = job[c].status /\ job'[c].target = f /\ job'[c].value = job[c].value
           /\ SnapshotOf(job'[c]) = SnapshotOf(job[c])
           /\ JobOK(job'[c]) /\ Owns(c)' /\ Whole(c)'
<1>0. /\ job[c].step = "rename" /\ job[c].step \in Writing /\ lock[f] = c
      /\ job[c].value \in Content(f) /\ file'[f].dest = job[c].value
  BY RenameNewFacts
<1>1. job[c] \in Jobs /\ Owns(c) /\ Whole(c)
  BY DEF IInv, Shape
<1>2. /\ job' \in [Client -> Jobs] /\ \A d \in Client \ {c} : job'[d] = job[d]
      /\ job'[c] = [job[c] EXCEPT !.step = "clean"]
  <2>1. job' = [job EXCEPT ![c].step = "clean"]
    BY DEF RenameNew
  <2>2. job \in [Client -> Jobs]
    BY DEF IInv, Shape
  <2>3. [job[c] EXCEPT !.step = "clean"] \in Jobs
    BY <1>1 DEF Jobs, JobStep
  <2> QED BY <2>1, <2>2, <2>3
<1>3. /\ job'[c].step = "clean" /\ job'[c].op = job[c].op /\ job'[c].id = job[c].id
      /\ job'[c].reg = job[c].reg /\ job'[c].override = job[c].override
      /\ job'[c].status = job[c].status /\ job'[c].key = job[c].key /\ job'[c].left = job[c].left
      /\ job'[c].packs = job[c].packs /\ job'[c].index = job[c].index
      /\ job'[c].target = f /\ job'[c].value = job[c].value
  BY <1>1, <1>2 DEF Jobs
<1>4. SnapshotOf(job'[c]) = SnapshotOf(job[c])
  BY <1>3 DEF SnapshotOf
<1>5. lock' = lock /\ barred' = barred
  BY DEF RenameNew
<1>6. JobOK(job'[c])
  BY <1>0, <1>3, FileAssumption, TrustAssumption DEF JobOK, File
<1>7. Owns(c)'
  BY <1>0, <1>1, <1>3, <1>5 DEF Owns, Writing
<1>8. Whole(c)'
  BY <1>0, <1>1, <1>3, <1>5 DEF Whole, Writing
<1> QED BY <1>2, <1>3, <1>4, <1>6, <1>7, <1>8

\* The marks are recorded, or the registry replaced.
LEMMA RenameDocumentKeeps ==
    ASSUME IInv, NEW c \in Client, RenameNew(c), job[c].target \notin Provider
    PROVE  IInv' /\ Spares(c)
<1>f. PICK f \in File : f = job[c].target
  BY Writer DEF RenameNew, At, Writing
<1>1. f \in {"registry", "rollback"} /\ \A id \in Provider : id \in File \ {f}
  BY <1>f DEF File
<1>2. /\ UNCHANGED <<trustVars, barred>> /\ accepted' = accepted /\ lock' = lock
      /\ budget' \in [Event -> Nat] /\ lock' \in [File -> Client \cup {None}]
  BY DEF RenameNew, IInv, TypeOK
<1>3. Owns(c) /\ Promised(c) /\ Marks \in Rollback /\ job[c] \in Jobs
  BY Reads DEF IInv, Shape
<1>20. \A id \in Provider : Read(id)' = Read(id)
  BY <1>f, <1>1, RenameNewFacts, ZenonT(40)
<1>21. /\ file' \in [File -> [dest : Values, prev : Values]]
      /\ \A g \in File : /\ file'[g].dest \in Content(g) \cup {NoFile}
                         /\ file'[g].prev \in Content(g) \cup {NoFile}
  BY <1>f, RenameNewFacts
<1>22. job' \in [Client -> Jobs] /\ JobOK(job'[c]) /\ Owns(c)' /\ Whole(c)'
  BY <1>f, RenameNewJob
<1>4. CASE f = "registry"
  <2>1. Marks' = Marks
    BY <1>f, <1>4, RenameNewFacts
  <2>2. job[c].op # "sync"
    BY <1>f, <1>3, <1>4, FileAssumption, RenameNewFacts DEF Owns
  <2>3. Promised(c)'
    BY <1>f, <2>2, RenameNewJob DEF Promised
  <2>4. Spares(c)
    <3>1. \A g \in File : lock[g] \in Client \ {c} => file'[g] = file[g]
      BY <1>f, RenameNewFacts
    <3>2. \A d \in Client \ {c} : job'[d] = job[d]
      BY <1>f, RenameNewJob
    <3> QED BY <1>2, <2>1, <3>1, <3>2 DEF Spares
  <2> QED BY <1>2, <1>20, <1>21, <1>22, <2>3, <2>4, FileStep
<1>5. CASE f = "rollback"
  <2> DEFINE s == SnapshotOf(job[c])
  <2>1. /\ job[c].op = "sync" /\ job[c].id \in Provider /\ lock[job[c].id] = c
        /\ lock["rollback"] = c /\ job[c].step = "rename" /\ job[c].index \in Index
    BY <1>f, <1>3, <1>5, RenameNewFacts DEF Owns
  <2>2. /\ job[c].value = [Marks EXCEPT ![job[c].id] = Recorded(@, s)]
        /\ job[c].override \/ Enforced(Marks[job[c].id], s)
        /\ job[c].status = "verified"
    BY <1>f, <1>3, <1>5, <2>1 DEF Promised, Writing
  <2>3. s \in Snapshot
    BY <1>3, <2>1, SnapshotMade
  <2>4. Marks' = [Marks EXCEPT ![job[c].id] = Recorded(@, s)]
    BY <1>f, <1>5, <2>2, RenameNewFacts, ZenonT(40)
  <2>5. Vouched(Marks'[job[c].id], s, job[c].override)
    <3>1. Marks'[job[c].id] = Recorded(Marks[job[c].id], s) /\ Marks[job[c].id] \in HighWater \cup {None}
      BY <1>3, <2>1, <2>4 DEF Rollback
    <3>2. Covers(Recorded(Marks[job[c].id], s), s)
      BY <2>3, <3>1, RecordedCovers
    <3>3. ~ job[c].override => Tight(Recorded(Marks[job[c].id], s), s)
      BY <2>2, <2>3, <3>1, EnforcedTight
    <3> QED BY <3>1, <3>2, <3>3 DEF Vouched
  <2> HIDE DEF s
  <2>6. Promised(c)'
    <3>1. /\ job'[c].op = job[c].op /\ job'[c].id = job[c].id /\ job'[c].override = job[c].override
          /\ job'[c].step = "clean" /\ job'[c].target = f /\ job'[c].status = job[c].status
          /\ SnapshotOf(job'[c]) = s
      BY <1>f, RenameNewJob DEF s
    <3>2. f # job[c].id
      BY <1>5, <2>1, FileAssumption
    <3> QED BY <1>5, <2>2, <2>5, <3>1, <3>2 DEF Promised
  <2>7. Spares(c)
    <3>1. \A g \in File : lock[g] \in Client \ {c} => file'[g] = file[g]
      BY <1>f, RenameNewFacts
    <3>2. \A d \in Client \ {c} : job'[d] = job[d]
      BY <1>f, RenameNewJob
    <3> QED BY <1>2, <2>1, <2>3, <2>4, <3>1, <3>2 DEF Spares
  <2> QED BY <1>2, <1>20, <1>21, <1>22, <2>6, <2>7, FileStep
<1> QED BY <1>1, <1>4, <1>5

\* What a client that commits a snapshot knows of it.
LEMMA Committing ==
    ASSUME IInv, NEW c \in Client, RenameNew(c), job[c].target \in Provider
    PROVE  /\ job[c].target = job[c].id /\ job[c].op = "sync"
           /\ job[c].value = SnapshotOf(job[c]) /\ job[c].value \in Snapshot
           /\ job[c].status = job[c].value.status /\ job[c].key = job[c].value.key
           /\ job[c].value.status = "verified" =>
                /\ Vouched(Marks[job[c].id], job[c].value, job[c].override)
                /\ [signer |-> job[c].value.key, sha |-> job[c].value.sha] \in Envelope
                /\ job[c].index.sha = job[c].value.sha /\ job[c].index.rev = job[c].value.rev
                /\ \A p \in Pack : job[c].index.refs[p] = job[c].value.packs[p]
                /\ job[c].index \in Index
<1>0. /\ job[c].step = "rename" /\ job[c].step \in Writing
      /\ Owns(c) /\ Whole(c) /\ Promised(c) /\ job[c] \in Jobs
  BY DEF RenameNew, At, Writing, IInv, Shape
<1>1. job[c].op = "sync" /\ job[c].target = job[c].id /\ job[c].index \in Index
  BY <1>0, FileAssumption DEF Owns
<1>2. job[c].value = SnapshotOf(job[c]) /\ job[c].value \in Snapshot
  BY <1>0, <1>1, SnapshotMade DEF Promised
<1>3. /\ job[c].value.status = job[c].status /\ job[c].value.key = job[c].key
      /\ job[c].value.sha = job[c].index.sha /\ job[c].value.rev = job[c].index.rev
      /\ job[c].value.packs = job[c].packs
  BY <1>2 DEF SnapshotOf
<1>4. ASSUME job[c].status = "verified"
      PROVE  /\ Vouched(Marks[job[c].id], job[c].value, job[c].override)
             /\ [signer |-> job[c].key, sha |-> job[c].index.sha] \in Envelope
             /\ \A p \in Pack : job[c].packs[p] = job[c].index.refs[p]
  <2>1. Vouched(Marks[job[c].id], job[c].value, job[c].override)
    BY <1>0, <1>1, <1>2, <1>4 DEF Promised
  <2>2. job[c].left = {}
    BY <1>0, <1>4 DEF Whole
  <2> QED BY <1>0, <1>4, <2>1, <2>2 DEF Whole
<1> QED BY <1>1, <1>2, <1>3, <1>4

LEMMA RenameSnapshotKeeps ==
    ASSUME IInv, NEW c \in Client, RenameNew(c), job[c].target \in Provider
    PROVE  IInv' /\ Spares(c)
<1>f. PICK f \in File : f = job[c].target
  BY DEF File
<1> DEFINE s == job[c].value
           a == [snapshot |-> s, override |-> job[c].override]
<1>1. /\ f = job[c].id /\ f \in Provider /\ f # "rollback" /\ job[c].op = "sync" /\ s \in Snapshot
      /\ s = SnapshotOf(job[c]) /\ job[c].override \in BOOLEAN
  BY <1>f, Committing, FileAssumption DEF IInv, TypeOK
<1>2. /\ s.status = "verified" => accepted' = [accepted EXCEPT ![f] = @ \cup {a}]
      /\ s.status # "verified" => accepted' = accepted
  BY <1>f DEF RenameNew
<1>3. accepted \in [Provider -> SUBSET [snapshot : Snapshot, override : BOOLEAN]]
  BY DEF IInv, Shape
<1>4. /\ UNCHANGED <<trustVars, barred>> /\ lock' = lock
      /\ budget' \in [Event -> Nat] /\ lock' \in [File -> Client \cup {None}]
  BY DEF RenameNew, IInv, TypeOK
<1>5. Marks' = Marks /\ Read(f)' = s /\ \A id \in Provider \ {f} : Read(id)' = Read(id)
  <2>1. /\ f # "rollback" => Marks' = Marks
        /\ Read(f)' = job[c].value /\ \A g \in File \ {f} : Read(g)' = Read(g)
    BY <1>f, RenameNewFacts
  <2>2. \A id \in Provider \ {f} : id \in File \ {f}
    BY DEF File
  <2> QED BY <1>1, <2>1, <2>2
<1>6. Spares(c)
  <2>1. \A g \in File : lock[g] \in Client \ {c} => file'[g] = file[g]
    BY <1>f, RenameNewFacts
  <2>2. \A d \in Client \ {c} : job'[d] = job[d]
    BY <1>f, RenameNewJob
  <2> QED BY <1>4, <1>5, <2>1, <2>2 DEF Spares
<1>7. \A id \in Provider : \A b \in accepted'[id] : b \in accepted[id] \/ (id = f /\ b = a /\ s.status = "verified")
  BY <1>1, <1>2, <1>3
<1>8. a \in [snapshot : Snapshot, override : BOOLEAN]
  BY <1>1
<1>9. accepted' \in [Provider -> SUBSET [snapshot : Snapshot, override : BOOLEAN]]
  BY <1>1, <1>2, <1>3, <1>8
<1>10. TrustTypeOK' /\ Barred' /\ barred' \in [Client -> SUBSET Key]
  BY <1>4, TrustKept
<1>11. Shape'
  BY <1>f, <1>9, RenameNewFacts, RenameNewJob DEF Shape
<1>12. TypeOK'
  BY <1>f, <1>4, <1>10, <1>11, RenameNewFacts, RenameNewJob, TypesMade
<1>13. Promised(c)'
  <2>1. /\ job'[c].op = job[c].op /\ job'[c].id = job[c].id /\ job'[c].override = job[c].override
        /\ job'[c].step = "clean" /\ job'[c].target = f /\ job'[c].status = job[c].status
        /\ job'[c].value = s /\ SnapshotOf(job'[c]) = s
    BY <1>f, <1>1, RenameNewJob
  <2>2. job[c].status = "verified" => Vouched(Marks[job[c].id], s, job[c].override)
    BY <1>f, <1>1, Committing
  <2> HIDE DEF s
  <2> QED BY <1>1, <1>5, <2>1, <2>2 DEF Promised
<1>14. \A d \in Client : Owns(d)' /\ Whole(d)' /\ Promised(d)'
  BY <1>f, <1>6, <1>13, RenameNewJob, OthersKept
<1>15. s.status = "verified" => Vouched(Marks[f], s, job[c].override)
  BY <1>f, <1>1, Committing
<1>16. Committed'
  <2> SUFFICES ASSUME NEW id \in Provider, NEW b \in accepted'[id]
               PROVE  /\ Covers(Marks[id], b.snapshot)
                      /\ ~ b.override /\ b.snapshot.rev = Marks[id].rev => b.snapshot.sha = Marks[id].sha
    BY <1>5 DEF Committed
  <2>1. CASE b \in accepted[id]
    BY <2>1 DEF IInv, Committed
  <2>2. CASE id = f /\ b = a /\ s.status = "verified"
    <3>1. b.snapshot = s /\ b.override = job[c].override
      BY <2>2
    <3> HIDE DEF a, s
    <3> QED BY <2>2, <3>1, <1>15 DEF Vouched, Tight
  <2> QED BY <1>7, <2>1, <2>2
<1>17. HighWaterCovers' /\ SignedAsAWhole'
  <2>1. ASSUME s.status = "verified"
        PROVE  /\ Covers(Marks'[f], s)
               /\ [signer |-> s.key, sha |-> s.sha] \in Envelope
               /\ \E index \in Index : /\ index.sha = s.sha /\ index.rev = s.rev
                                       /\ \A p \in Pack : index.refs[p] = s.packs[p]
    BY <1>5, <1>15, <2>1, Committing DEF Vouched
  <2> HIDE DEF s
  <2>2. ASSUME NEW id \in Provider
        PROVE  /\ Read(id)' # NoFile /\ Read(id)'.status = "verified" => Covers(Marks'[id], Read(id)')
               /\ (Read(id)' # NoFile /\ Read(id)'.status = "verified" =>
                    /\ [signer |-> Read(id)'.key, sha |-> Read(id)'.sha] \in Envelope
                    /\ \E index \in Index : /\ index.sha = Read(id)'.sha /\ index.rev = Read(id)'.rev
                                            /\ \A p \in Pack : index.refs[p] = Read(id)'.packs[p])
    <3>1. CASE id = f
      <4>1. Read(id)' = s
        BY <1>5, <3>1
      <4> QED BY <2>1, <3>1, <4>1
    <3>2. CASE id # f
      <4>1. Read(id)' = Read(id)
        BY <1>5, <3>2
      <4> QED BY <1>6, <4>1, SnapshotsKept
    <3> QED BY <3>1, <3>2
  <2> QED BY <2>2 DEF HighWaterCovers, SignedAsAWhole, Covers, Marks
<1> QED BY <1>6, <1>10, <1>11, <1>12, <1>14, <1>16, <1>17 DEF IInv

-----------------------------------------------------------------------------
(***************************************************************************)
(* Trust decisions and kills.                                              *)
(***************************************************************************)
LEMMA TrustStep ==
    ASSUME IInv, NEW c \in Client, UNCHANGED <<file, lock, job, accepted>>, TrustTypeOK',
           budget' \in [Event -> Nat], barred' \in [Client -> SUBSET Key],
           \A d \in Client : barred'[d] \subseteq barred[d], Barred'
    PROVE  IInv'
<1>1. Owns(c) /\ Whole(c) /\ Promised(c) /\ Marks' = Marks
  BY DEF IInv, Marks, Loaded, Read
<1>2. Owns(c)' /\ Whole(c)' /\ Promised(c)'
  <2>1. Owns(c)'
    BY <1>1 DEF Owns
  <2>2. Whole(c)'
    BY <1>1 DEF Whole
  <2>3. Promised(c)'
    BY <1>1 DEF Promised
  <2> QED BY <2>1, <2>2, <2>3
<1>3. job' \in [Client -> Jobs] /\ JobOK(job'[c]) /\ lock' \in [File -> Client \cup {None}]
  BY DEF IInv, TypeOK, Shape, JobOK, Writing
<1> QED BY <1>2, <1>3, QuietStep

LEMMA DecideKeeps ==
    ASSUME IInv, NEW c \in Client, Decide(c)
    PROVE  IInv'
<1>1. /\ UNCHANGED <<file, lock, job, accepted>> /\ budget' \in [Event -> Nat]
      /\ barred' \in [Client -> SUBSET Key] /\ \A d \in Client : barred'[d] \subseteq barred[d]
  BY SpendType DEF Decide, Event, IInv, TypeOK
<1>2. TrustTypeOK /\ TrustLoad \in TrustDocument
  BY DEF IInv, TypeOK, TrustTypeOK, TrustLoad, EmptyTrust, TrustDocument
<1>3. PICK document \in TrustDocument : Save(c, document)
  <2>1. ASSUME NEW k \in Key, NEW state \in {"trusted", "revoked"}
        PROVE  WithKey(TrustLoad, k, state) \in TrustDocument
    BY <1>2 DEF WithKey, TrustDocument
  <2>2. CASE \E k \in Key : AddKey(c, k) \/ RevokeKey(c, k)
    BY <2>1, <2>2 DEF AddKey, RevokeKey
  <2>3. CASE \E t \in Transition : ApplyTransition(c, t)
    <3>1. PICK t \in Transition : ApplyTransition(c, t)
      BY <2>3
    <3>2. t.to \in Key
      BY TrustAssumption
    <3>3. WithKey(TrustLoad, t.to, "trusted") \in TrustDocument
      BY <2>1, <3>2
    <3>4. [WithKey(TrustLoad, t.to, "trusted") EXCEPT !.transitions = @ \cup {t}] \in TrustDocument
      BY <3>3 DEF TrustDocument
    <3> QED BY <3>1, <3>4 DEF ApplyTransition
  <2> QED BY <2>2, <2>3 DEF Decide
<1>4. TrustTypeOK' /\ TrustLoad' = TrustLoad
  BY <1>2, <1>3 DEF Save, TrustTypeOK, TrustLoad
<1>5. Barred'
  BY <1>1, <1>4 DEF Decide, Barred, IInv
<1> QED BY <1>1, <1>4, <1>5, TrustStep

LEMMA StoreDecisionKeeps ==
    ASSUME IInv, NEW c \in Client, StoreDecision(c)
    PROVE  IInv'
<1>1. TrustTypeOK
  BY DEF IInv, TypeOK
<1>2. NoDecision \in [step : {"idle", "write", "remove", "rename"}, document : TrustDocument]
  BY DEF NoDecision, EmptyTrust, TrustDocument
<1>3. TrustTypeOK'
  <2>1. CASE WriteTmp(c)
    BY <1>1, <2>1 DEF TrustTypeOK, WriteTmp
  <2>2. CASE RemoveTrust(c)
    BY <1>1, <2>2 DEF TrustTypeOK, RemoveTrust
  <2>3. CASE RemoveFails(c)
    BY <1>1, <1>2, <2>3 DEF TrustTypeOK, RemoveFails
  <2>4. CASE RenameTmp(c)
    BY <1>1, <1>2, <2>4 DEF TrustTypeOK, RenameTmp
  <2> QED BY <2>1, <2>2, <2>3, <2>4 DEF StoreDecision, SaveStep
<1>4. barred' = [d \in Client |-> {k \in barred[d] : TrustLoad'.keys[k] # "trusted"}]
  BY DEF StoreDecision, StillBarred
<1>5. /\ barred' \in [Client -> SUBSET Key]
      /\ \A d \in Client : barred'[d] \subseteq barred[d]
      /\ \A d \in Client : \A k \in barred'[d] : TrustLoad'.keys[k] # "trusted"
  BY <1>4 DEF IInv, TypeOK
<1>6. Barred'
  BY <1>5 DEF Barred
<1>7. UNCHANGED <<file, lock, job, accepted>> /\ budget' \in [Event -> Nat]
  BY DEF StoreDecision, IInv, TypeOK
<1> QED BY <1>3, <1>5, <1>6, <1>7, TrustStep

LEMMA KillKeeps ==
    ASSUME IInv, NEW c \in Client, Kill(c)
    PROVE  IInv'
<1>1. NoDecision \in [step : {"idle", "write", "remove", "rename"}, document : TrustDocument]
  BY DEF NoDecision, EmptyTrust, TrustDocument
<1>2. TrustTypeOK' /\ TrustLoad' = TrustLoad
  BY <1>1 DEF Kill, IInv, TypeOK, TrustTypeOK, TrustLoad
<1>3. budget' \in [Event -> Nat]
  BY SpendType DEF Kill, Event
<1>4. /\ barred' \in [Client -> SUBSET Key]
      /\ \A d \in Client \ {c} : barred'[d] \subseteq barred[d]
  BY DEF Kill, IInv, TypeOK
<1>5. Barred'
  BY <1>2 DEF Kill, Barred, IInv, TypeOK
<1> QED BY <1>2, <1>3, <1>4, <1>5, EndKeeps DEF Kill

-----------------------------------------------------------------------------
LEMMA StutterKeeps == IInv /\ UNCHANGED vars => IInv'
<1> SUFFICES ASSUME IInv, UNCHANGED vars PROVE IInv'
  OBVIOUS
<1>1. /\ trust' = trust /\ trustTmp' = trustTmp /\ decision' = decision /\ file' = file /\ lock' = lock
      /\ job' = job /\ budget' = budget /\ accepted' = accepted /\ barred' = barred
  BY DEF vars, trustVars, syncVars
<1>2. Marks' = Marks
  BY <1>1 DEF Marks, Loaded, Read
<1>3. TypeOK' /\ Shape'
  BY <1>1 DEF IInv, TypeOK, TrustTypeOK, Shape
<1>4. \A c \in Client : Owns(c)' /\ Whole(c)' /\ Promised(c)'
  <2> SUFFICES ASSUME NEW c \in Client PROVE Owns(c)' /\ Whole(c)' /\ Promised(c)'
    OBVIOUS
  <2>1. Owns(c) /\ Whole(c) /\ Promised(c)
    BY DEF IInv
  <2>2. Owns(c)'
    BY <1>1, <2>1 DEF Owns
  <2>3. Whole(c)'
    BY <1>1, <2>1 DEF Whole
  <2>4. Promised(c)'
    BY <1>1, <1>2, <2>1 DEF Promised
  <2> QED BY <2>2, <2>3, <2>4
<1>5. HighWaterCovers' /\ SignedAsAWhole'
  BY <1>1, SMTT(30) DEF IInv, HighWaterCovers, SignedAsAWhole, Loaded, Read
<1>6. Committed' /\ Barred'
  BY <1>1, <1>2 DEF IInv, Committed, Barred, TrustLoad
<1> QED BY <1>3, <1>4, <1>5, <1>6 DEF IInv

LEMMA NextKeeps == IInv /\ Next => IInv'
<1> SUFFICES ASSUME IInv, NEW c \in Client,
                    SyncStep(c) \/ Request(c) \/ Decide(c) \/ StoreDecision(c) \/ Kill(c)
             PROVE  IInv'
  BY DEF Next
<1>1. CASE RegistryLock(c) \/ Get(c) \/ GetPrevious(c)
  BY <1>1, RegistryLockKeeps, GetKeeps
<1>2. CASE \E index \in Index : FetchIndex(c, index)
  BY <1>2, FetchIndexKeeps
<1>3. CASE FetchNotModified(c) \/ NotModified(c) \/ NotModifiedRefused(c)
  BY <1>3, FetchNotModifiedKeeps, CalmEnd DEF NotModified, NotModifiedRefused, Calm
<1>4. CASE \E envelope \in Envelope \cup {None} : VerifyIndex(c, envelope)
  BY <1>4, VerifyKeeps
<1>5. CASE \E p \in Pack, document \in Document : FetchPack(c, p, document)
  BY <1>5, FetchPackKeeps
<1>6. CASE FetchFails(c) \/ Assemble(c) \/ Enforce(c)
  BY <1>6, FetchFailsKeeps, AssembleKeeps, EnforceKeeps
<1>7. CASE MoveOld(c) \/ RenameFails(c) \/ RemovePrevious(c)
  BY <1>7, MoveOldKeeps, RenameFailsKeeps, RemovePreviousKeeps
<1>8. CASE RenameNew(c)
  BY <1>8, RenameDocumentKeeps, RenameSnapshotKeeps
<1>9. CASE Request(c)
  BY <1>9, RequestKeeps
<1>10. CASE RegistryBusy(c) \/ RollbackBusy(c)
  BY <1>10, CalmEnd DEF RegistryBusy, RollbackBusy, Busy, Calm
<1>11. CASE Decide(c) \/ StoreDecision(c) \/ Kill(c)
  BY <1>11, DecideKeeps, StoreDecisionKeeps, KillKeeps
<1> QED BY <1>1, <1>2, <1>3, <1>4, <1>5, <1>6, <1>7, <1>8, <1>9, <1>10, <1>11 DEF SyncStep

\* The inductive invariant holds in every behaviour.
THEOREM SyncInductive == Spec => []IInv
<1>1. IInv /\ [Next]_vars => IInv'
  BY NextKeeps, StutterKeeps
<1> QED BY <1>1, SyncStarts, PTL DEF Spec

\* Every verified snapshot a reader finds is one signed index with exactly the manifests it
\* names, and the types hold (sync_inner), whatever servers answer and whoever dies when.
THEOREM SnapshotsAreWhole == Spec => []SyncInv
<1>1. IInv => SyncInv
  BY DEF IInv, SyncInv
<1> QED BY <1>1, SyncInductive, PTL

\* rollback.json holds the revisions of every verified snapshot a reader finds (sync_inner
\* records before write_snapshot), across kills, overrides and removed registrations.
THEOREM MarksCoverSnapshots == Spec => []HighWaterCovers
<1>1. IInv => HighWaterCovers
  BY DEF IInv
<1> QED BY <1>1, SyncInductive, PTL

-----------------------------------------------------------------------------
(***************************************************************************)
(* What a step may never do.                                               *)
(***************************************************************************)
\* A step leaves the marks or raises one of them.
LEMMA MarksStep ==
    ASSUME IInv, Next
    PROVE  \/ Marks' = Marks
           \/ \E id \in Provider, s \in Snapshot : Marks' = [Marks EXCEPT ![id] = Recorded(@, s)]
<1>1. PICK c \in Client : SyncStep(c) \/ Request(c) \/ Decide(c) \/ StoreDecision(c) \/ Kill(c)
  BY DEF Next
<1>2. CASE MoveOld(c) \/ RenameFails(c) \/ RemovePrevious(c) \/ RenameNew(c)
  <2>1. Spares(c)
    BY <1>2, MoveOldKeeps, RenameFailsKeeps, RemovePreviousKeeps, RenameDocumentKeeps, RenameSnapshotKeeps
  <2> QED BY <2>1 DEF Spares
<1>3. CASE ~ (MoveOld(c) \/ RenameFails(c) \/ RemovePrevious(c) \/ RenameNew(c))
  <2>1. file' = file
    BY <1>1, <1>3
       DEF SyncStep, Request, Decide, StoreDecision, Kill, RegistryLock, Get, GetPrevious,
           FetchIndex, FetchNotModified, NotModified, NotModifiedRefused, VerifyIndex,
           RegistryBusy, RollbackBusy, Busy, FetchPack, FetchFails,
           Assemble, Enforce, AddProvider, RemoveProvider, StartSync
  <2> QED BY <2>1 DEF Marks, Loaded, Read
<1> QED BY <1>2, <1>3

\* The marks of every provider only rise, whichever clients synchronize whichever providers
\* and die in between (enforce_and_record_revisions holds providers:rollback).
THEOREM MarksOnlyRise == Spec => HighWaterMonotone
<1>1. ASSUME IInv, [Next]_vars, NEW id \in Provider, Marks[id] # None
      PROVE  Marks'[id] # None /\ Marks'[id].rev >= Marks[id].rev
  <2>1. Marks \in Rollback
    BY <1>1, Reads DEF IInv
  <2>2. Marks[id] \in HighWater
    BY <1>1, <2>1 DEF Rollback
  <2>3. CASE Marks'[id] = Marks[id]
    BY <1>1, <2>2, <2>3 DEF HighWater
  <2>4. CASE \E s \in Snapshot : Marks'[id] = Recorded(Marks[id], s)
    BY <2>2, <2>4, RecordedRises, RecordedCovers, FileAssumption
  <2>5. UNCHANGED vars => Marks' = Marks
    BY DEF vars, syncVars, Marks, Loaded, Read
  <2> QED BY <1>1, <2>1, <2>3, <2>4, <2>5, MarksStep DEF Rollback
<1>2. IInv /\ [Next]_vars =>
        [\A id \in Provider : LET old == Loaded("rollback")[id] IN
           old # None => /\ Loaded("rollback")'[id] # None
                         /\ Loaded("rollback")'[id].rev >= old.rev]_vars
  BY <1>1 DEF Marks
<1> QED BY <1>2, SyncInductive, PTL DEF Spec, HighWaterMonotone

\* A snapshot enters the history only by the rename that commits it.
LEMMA AcceptedStep ==
    ASSUME IInv, Next, NEW id \in Provider, NEW a \in accepted'[id] \ accepted[id]
    PROVE  /\ a.snapshot \in Snapshot /\ Vouched(Marks[id], a.snapshot, a.override)
<1>1. PICK c \in Client : SyncStep(c) \/ Request(c) \/ Decide(c) \/ StoreDecision(c) \/ Kill(c)
  BY DEF Next
<1>2. CASE RenameNew(c) /\ job[c].target \in Provider /\ job[c].value.status = "verified"
  <2>1. accepted' = [accepted EXCEPT ![job[c].target] = @ \cup
                       {[snapshot |-> job[c].value, override |-> job[c].override]}]
    BY <1>2 DEF RenameNew
  <2>2. id = job[c].target /\ a = [snapshot |-> job[c].value, override |-> job[c].override]
    BY <1>2, <2>1 DEF IInv, Shape
  <2> QED BY <1>2, <2>2, Committing
<1>3. CASE ~ (RenameNew(c) /\ job[c].target \in Provider /\ job[c].value.status = "verified")
  <2>1. accepted' = accepted
    BY <1>1, <1>3
       DEF SyncStep, Request, Decide, StoreDecision, Kill, RegistryLock, Get, GetPrevious,
           FetchIndex, FetchNotModified, NotModified, NotModifiedRefused, VerifyIndex,
           RegistryBusy, RollbackBusy, Busy, FetchPack, FetchFails,
           Assemble, Enforce, AddProvider, RemoveProvider, StartSync,
           MoveOld, RenameFails, RemovePrevious, RenameNew
  <2> QED BY <2>1
<1> QED BY <1>2, <1>3

\* Without an override no commit goes back behind any earlier commit of the provider, nor
\* replaces its content under the same revision.
THEOREM CommitsNeverRollBack == Spec => NoRollback
<1>1. ASSUME IInv, Next, NEW id \in Provider, NEW a \in accepted'[id] \ accepted[id], ~ a.override,
             NEW b \in accepted[id]
      PROVE  /\ a.snapshot.rev >= b.snapshot.rev
             /\ a.snapshot.rev = b.snapshot.rev /\ ~ b.override => a.snapshot.sha = b.snapshot.sha
             /\ \A p \in Pack : a.snapshot.packs[p] # None /\ b.snapshot.packs[p] # None =>
                  a.snapshot.packs[p].rev >= b.snapshot.packs[p].rev
  <2>1. /\ a.snapshot \in Snapshot /\ Covers(Marks[id], a.snapshot) /\ Tight(Marks[id], a.snapshot)
    BY <1>1, AcceptedStep DEF Vouched
  <2>2. /\ b.snapshot \in Snapshot /\ Covers(Marks[id], b.snapshot)
        /\ ~ b.override /\ b.snapshot.rev = Marks[id].rev => b.snapshot.sha = Marks[id].sha
    BY <1>1 DEF IInv, Committed, Shape
  <2>3. a.snapshot.rev >= b.snapshot.rev
    BY <2>1, <2>2 DEF Covers, Tight
  <2>4. a.snapshot.rev = b.snapshot.rev /\ ~ b.override => a.snapshot.sha = b.snapshot.sha
    BY <2>1, <2>2 DEF Tight
  <2>5. ASSUME NEW p \in Pack, a.snapshot.packs[p] # None, b.snapshot.packs[p] # None
        PROVE  a.snapshot.packs[p].rev >= b.snapshot.packs[p].rev
    BY <2>1, <2>2, <2>5 DEF Covers, Tight
  <2> QED BY <2>3, <2>4, <2>5
<1>2. IInv /\ [Next]_vars =>
        [\A id \in Provider : \A a \in accepted'[id] \ accepted[id] :
           ~ a.override => \A b \in accepted[id] :
              /\ a.snapshot.rev >= b.snapshot.rev
              /\ a.snapshot.rev = b.snapshot.rev /\ ~ b.override =>
                   a.snapshot.sha = b.snapshot.sha
              /\ \A p \in Pack :
                   a.snapshot.packs[p] # None /\ b.snapshot.packs[p] # None =>
                      a.snapshot.packs[p].rev >= b.snapshot.packs[p].rev]_vars
  BY <1>1
<1> QED BY <1>2, SyncInductive, PTL DEF Spec, NoRollback

\* A key that was revoked when a sync began and stayed so neither confirms the old snapshot
\* (the 304 branch authorizes again) nor signs a new one.
THEOREM RevokedKeysNeverSync == Spec => RevokedNeverSyncs
<1>1. ASSUME IInv, NEW c \in Client, NotModified(c), job[c].previous.status = "verified"
      PROVE  job[c].previous.key \notin barred[c]
  <2>1. TrustLoad.keys[job[c].previous.key] = "trusted"
    BY <1>1 DEF NotModified, StillTrusted, Authorized
  <2> QED BY <1>1, <2>1 DEF IInv, Barred
<1>2. ASSUME IInv, NEW c \in Client, job[c].status = "verified"
      PROVE  job[c].key \notin barred[c]
  BY <1>2 DEF IInv, Whole
<1>3. IInv /\ [Next]_vars =>
        [\A c \in Client :
           /\ NotModified(c) /\ job[c].previous.status = "verified" =>
                job[c].previous.key \notin barred[c]
           /\ RenameNew(c) /\ job[c].target \in Provider /\ job[c].status = "verified" =>
                job[c].key \notin barred[c]]_vars
  BY <1>1, <1>2
<1> QED BY <1>3, SyncInductive, PTL DEF Spec, RevokedNeverSyncs
=============================================================================
