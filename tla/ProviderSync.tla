---------------------------- MODULE ProviderSync ----------------------------
(***************************************************************************)
(* The provider registry and its synchronization (providers/service.rs):   *)
(* registrations in registry.json, the last accepted snapshot of each      *)
(* provider, and rollback.json, the highest revisions ever accepted.  A    *)
(* synchronization fetches the provider index, verifies its signature      *)
(* against the trust store, fetches the instance manifests the index       *)
(* names, compares revisions with rollback.json, records them there and    *)
(* replaces the snapshot.  All three are written by atomic_json: the old   *)
(* file is renamed to .previous, the temporary to the file, .previous      *)
(* removed, so that read_with_previous finds one of the two.               *)
(*                                                                         *)
(* Servers are caches: a request may be answered with any document they    *)
(* have published, index, signature and manifests independently.           *)
(***************************************************************************)
EXTENDS TrustStore, FiniteSets

CONSTANTS
    Pack,      \* identifiers of declared instances
    Document,  \* instance manifests: [rev, sha]
    Index,     \* provider indexes: [rev, sha, refs], refs naming manifests
    Envelope,  \* detached signatures: [signer, sha of the index]
    StartTrust, StartRegistry,  \* documents a behaviour starts from
    Budgets    \* bounds: how often each event below may happen

Event == {"sync", "override", "kill", "trust", "registry", "fault"}
Policy == {"required", "optional", "disabled"}

ASSUME SyncAssumption ==
    /\ Document \subseteq [rev : Nat, sha : Nat]
    /\ Index \subseteq [rev : Nat, sha : Nat, refs : [Pack -> Document \cup {None}]]
    /\ \A m, n \in Index : m.sha = n.sha => m = n
    /\ \A m, n \in Document : m.sha = n.sha => m = n
    /\ Envelope \subseteq [signer : Key, sha : Nat]
    /\ None \notin Document \cup Envelope \cup Index
    /\ Budgets \subseteq [Event -> Nat]

VARIABLES
    file,     \* [File -> what the file and its .previous hold]
    lock,     \* [File -> client that holds the file's resource lock]
    job,      \* [Client -> what it is doing]
    budget,   \* [Event -> how often it may still happen]
    accepted, \* history: [Provider -> verified snapshots committed, with their override]
    barred    \* history: [Client -> keys revoked on disk ever since its sync began]

syncVars == <<file, lock, job, budget, accepted, barred>>
vars == <<trustVars, syncVars>>

(***************************************************************************)
(* What the files hold.  The snapshot of a provider is the file named by   *)
(* it; its lock is provider:{id}.                                          *)
(***************************************************************************)
File == {"registry", "rollback"} \cup Provider

Registration == [policy : Policy, key : Key \cup {None}, local : BOOLEAN]
HighWater == [rev : Nat, sha : Nat, packs : [Pack -> Document \cup {None}]]
Status == {"verified", "unsigned", "disabled"}
Snapshot == [rev : Nat, sha : Nat, packs : [Pack -> Document \cup {None}],
             status : Status, key : Key \cup {None}]

Registry == [Provider -> Registration \cup {None}]
Rollback == [Provider -> HighWater \cup {None}]

\* the files have names of their own, the markers are no content, and a behaviour starts from
\* documents the code could have written
ASSUME FileAssumption ==
    /\ {"registry", "rollback"} \cap (Provider \cup {None}) = {}
    /\ NoFile \notin Registry \cup Rollback \cup Snapshot
    /\ None \notin Registration \cup HighWater
    /\ StartTrust \subseteq TrustDocument \cup {NoFile}
    /\ StartRegistry \subseteq Registry

Content(f) == CASE f = "registry" -> Registry
                [] f = "rollback" -> Rollback
                [] OTHER -> Snapshot

\* read_with_previous, when no writer moves the files meanwhile
Read(f) == IF file[f].dest # NoFile THEN file[f].dest ELSE file[f].prev

\* load_registry and load_rollback_state: a missing file is an empty document
Loaded(f) == IF Read(f) = NoFile THEN [id \in Provider |-> None] ELSE Read(f)

JobStep == {"idle", "registry_lock", "get", "get_prev", "fetch", "not_modified", "verify",
            "packs", "rollback_lock", "move", "rename", "clean"}
NoJob == [step |-> "idle", op |-> "none", id |-> None, reg |-> None, override |-> FALSE,
          previous |-> NoFile, index |-> None, status |-> "disabled",
          key |-> None, packs |-> [p \in Pack |-> None], left |-> {}, target |-> None, value |-> NoFile]

TypeOK ==
    /\ TrustTypeOK
    /\ \A f \in File : /\ file[f].dest \in Content(f) \cup {NoFile}
                       /\ file[f].prev \in Content(f) \cup {NoFile}
    /\ lock \in [File -> Client \cup {None}]
    /\ \A c \in Client : LET j == job[c] IN
         /\ j.step \in JobStep
         /\ j.op \in {"none", "add", "remove", "sync"}
         /\ j.id \in Provider \cup {None}
         /\ j.reg \in Registration \cup {None}
         /\ j.override \in BOOLEAN
         /\ j.previous \in Snapshot \cup {NoFile}
         /\ j.index \in Index \cup {None}
         /\ j.status \in Status
         /\ j.key \in Key \cup {None}
         /\ j.packs \in [Pack -> Document \cup {None}]
         /\ j.left \subseteq Pack
         /\ j.target \in File \cup {None}
         /\ j.target # None => j.value \in Content(j.target)
         /\ j.step \in {"move", "rename", "clean"} => j.target # None
         /\ j.step \in {"fetch", "not_modified", "verify", "packs"} => j.reg # None
    /\ budget \in [Event -> Nat]
    /\ \A id \in Provider : \A a \in accepted[id] :
         a.snapshot \in Snapshot /\ a.override \in BOOLEAN
    /\ barred \in [Client -> SUBSET Key]

SyncInit ==
    /\ trust \in StartTrust
    /\ trustTmp = NoFile
    /\ decision = [c \in Client |-> NoDecision]
    /\ \E registry \in StartRegistry :
         file = [f \in File |-> [dest |-> IF f = "registry" THEN registry ELSE NoFile,
                                 prev |-> NoFile]]
    /\ lock = [f \in File |-> None]
    /\ job = [c \in Client |-> NoJob]
    /\ budget \in Budgets
    /\ accepted = [id \in Provider |-> {}]
    /\ barred = [c \in Client |-> {}]

Spend(e) ==
    /\ budget[e] > 0
    /\ budget' = [budget EXCEPT ![e] = @ - 1]

At(c, step) == job[c].step = step

\* an operation returns, ok or not, and its guards release what it held
End(c) ==
    /\ job' = [job EXCEPT ![c] = NoJob]
    /\ lock' = [f \in File |-> IF lock[f] = c THEN None ELSE lock[f]]

\* atomic_json has written its temporary
Write(c, target, value) ==
    job' = [job EXCEPT ![c].step = "move", ![c].target = target, ![c].value = value]

(***************************************************************************)
(* The registry: add_with_trust and remove.                                *)
(***************************************************************************)
AddProvider(c, id, reg) ==
    /\ At(c, "idle")
    /\ Spend("registry")
    /\ reg.policy = "required" => reg.key # None
    /\ reg.key # None => TrustLoad.keys[reg.key] = "trusted"
    /\ job' = [job EXCEPT ![c] = [NoJob EXCEPT !.step = "registry_lock", !.op = "add",
                                               !.id = id, !.reg = reg]]
    /\ UNCHANGED <<trustVars, file, lock, accepted, barred>>

RemoveProvider(c, id) ==
    /\ At(c, "idle")
    /\ Spend("registry")
    /\ job' = [job EXCEPT ![c] = [NoJob EXCEPT !.step = "registry_lock", !.op = "remove",
                                               !.id = id]]
    /\ UNCHANGED <<trustVars, file, lock, accepted, barred>>

\* acquire providers:registry, load, refuse what is there already or is not there
RegistryLock(c) ==
    LET id == job[c].id
        registry == Loaded("registry")
    IN /\ At(c, "registry_lock")
       /\ lock["registry"] = None
       /\ IF (job[c].op = "add") = (registry[id] = None)
          THEN /\ lock' = [lock EXCEPT !["registry"] = c]
               /\ Write(c, "registry",
                        [registry EXCEPT ![id] = IF job[c].op = "add" THEN job[c].reg
                                                                      ELSE None])
          ELSE End(c)
       /\ UNCHANGED <<trustVars, file, budget, accepted, barred>>

\* a lock that another client still holds after 30 seconds: Busy, and nothing has changed
Busy(c, step, f) ==
    /\ At(c, step)
    /\ lock[f] # None
    /\ End(c)
    /\ UNCHANGED <<trustVars, file, budget, accepted, barred>>

RegistryBusy(c) == Busy(c, "registry_lock", "registry")

(***************************************************************************)
(* sync_with_cancellation.                                                 *)
(***************************************************************************)
\* try_acquire provider:{id}; a sync that finds it held is refused and changes nothing
StartSync(c, id, override) ==
    /\ At(c, "idle")
    /\ lock[id] = None
    /\ budget["sync"] > 0
    /\ override => budget["override"] > 0
    /\ budget' = [budget EXCEPT !["sync"] = @ - 1,
                                !["override"] = IF override THEN @ - 1 ELSE @]
    /\ lock' = [lock EXCEPT ![id] = c]
    /\ job' = [job EXCEPT ![c] = [NoJob EXCEPT !.step = "get", !.op = "sync", !.id = id,
                                               !.override = override]]
    /\ barred' = [barred EXCEPT ![c] = {k \in Key : TrustLoad.keys[k] = "revoked"}]
    /\ UNCHANGED <<trustVars, file, accepted>>

\* get, then the snapshot: the registry is read without its lock
GetFrom(c, registry) ==
    LET id == job[c].id
    IN IF registry[id] = None THEN End(c)
       ELSE /\ job' = [job EXCEPT ![c].step = "fetch", ![c].reg = registry[id],
                                  ![c].previous = Read(id)]
            /\ UNCHANGED lock

Get(c) ==
    /\ At(c, "get")
    /\ IF file["registry"].dest # NoFile
       THEN GetFrom(c, file["registry"].dest)
       ELSE job' = [job EXCEPT ![c].step = "get_prev"] /\ UNCHANGED lock
    /\ UNCHANGED <<trustVars, file, budget, accepted, barred>>

\* the second read of read_with_previous: the writer may have finished in between
GetPrevious(c) ==
    /\ At(c, "get_prev")
    /\ IF file["registry"].prev # NoFile
       THEN GetFrom(c, file["registry"].prev)
       ELSE End(c)
    /\ UNCHANGED <<trustVars, file, budget, accepted, barred>>

\* the index, read from the directory of a local provider or sent by a server
FetchIndex(c, index) ==
    /\ At(c, "fetch")
    /\ job' = [job EXCEPT ![c].step = "verify", ![c].index = index]
    /\ UNCHANGED <<trustVars, file, lock, budget, accepted, barred>>

\* a server answers 304, to validators that say little of the content or to a request
\* without any: the old snapshot is used, and the sync fails when there is none
FetchNotModified(c) ==
    /\ At(c, "fetch")
    /\ ~ job[c].reg.local
    /\ IF job[c].previous = NoFile THEN End(c)
       ELSE job' = [job EXCEPT ![c].step = "not_modified"] /\ UNCHANGED lock
    /\ UNCHANGED <<trustVars, file, budget, accepted, barred>>

\* mutant: a snapshot that was verified once is not authorized again
StillTrustedOnce(reg, id, snapshot) ==
    reg.policy = "required" => snapshot.status = "verified"

\* the 304 branch: the snapshot stays, if its key would still be accepted
StillTrusted(reg, id, snapshot) ==
    /\ reg.policy = "required" => snapshot.status = "verified"
    /\ snapshot.status = "verified" =>
         reg.key # None /\ Authorized(reg.key, snapshot.key, id, snapshot.rev)

\* the outcomes of the branch: a report of the old snapshot, or an error
NotModified(c) ==
    /\ At(c, "not_modified")
    /\ StillTrusted(job[c].reg, job[c].id, job[c].previous)
    /\ End(c)
    /\ UNCHANGED <<trustVars, file, budget, accepted, barred>>

NotModifiedRefused(c) ==
    /\ At(c, "not_modified")
    /\ ~ StillTrusted(job[c].reg, job[c].id, job[c].previous)
    /\ End(c)
    /\ UNCHANGED <<trustVars, file, budget, accepted, barred>>

(***************************************************************************)
(* verify_provider_index.  The envelope is fetched on its own: it may be   *)
(* missing, or sign another index.                                         *)
(***************************************************************************)
Verdict(reg, id, index, envelope) ==
    IF reg.policy = "disabled" THEN "disabled"
    ELSE IF envelope = None THEN IF reg.policy = "required" THEN "refused" ELSE "unsigned"
    ELSE IF /\ reg.key # None
            /\ index.rev > 0
            /\ Authorized(reg.key, envelope.signer, id, index.rev)
            /\ envelope.sha = index.sha
         THEN "verified"
         ELSE "refused"

\* mutant: an index whose signature is refused is fetched again
VerifyIndexAgain(c, envelope) ==
    LET verdict == Verdict(job[c].reg, job[c].id, job[c].index, envelope)
    IN /\ At(c, "verify")
       /\ job' = IF verdict = "refused" THEN [job EXCEPT ![c].step = "fetch"]
                 ELSE [job EXCEPT ![c].step = "packs", ![c].status = verdict,
                         ![c].key = IF verdict = "verified" THEN envelope.signer ELSE None,
                         ![c].left = {p \in Pack : job[c].index.refs[p] # None}]
       /\ UNCHANGED <<trustVars, file, lock, budget, accepted, barred>>

VerifyIndex(c, envelope) ==
    LET verdict == Verdict(job[c].reg, job[c].id, job[c].index, envelope)
    IN /\ At(c, "verify")
       /\ IF verdict = "refused" THEN End(c)
          ELSE /\ job' = [job EXCEPT ![c].step = "packs", ![c].status = verdict,
                            ![c].key = IF verdict = "verified" THEN envelope.signer ELSE None,
                            ![c].left = {p \in Pack : job[c].index.refs[p] # None}]
               /\ UNCHANGED lock
       /\ UNCHANGED <<trustVars, file, budget, accepted, barred>>

(***************************************************************************)
(* The instance manifests: 304 takes the document of the old snapshot.     *)
(***************************************************************************)
CachedPack(c, p) == IF job[c].previous = NoFile THEN None ELSE job[c].previous.packs[p]

\* mutant: a document answered by 304 is trusted as it was in the old snapshot
AuthenticOnceCached(c, p, document) ==
    job[c].status = "verified" /\ document # CachedPack(c, p) =>
        document.sha = job[c].index.refs[p].sha

\* under a signed index a document, fresh or cached, is the one the index names
Authentic(c, p, document) ==
    job[c].status = "verified" => document.sha = job[c].index.refs[p].sha

FetchPack(c, p, document) ==
    /\ At(c, "packs")
    /\ p \in job[c].left
    /\ IF Authentic(c, p, document)
       THEN /\ job' = [job EXCEPT ![c].packs[p] = document, ![c].left = @ \ {p}]
            /\ UNCHANGED lock
       ELSE End(c)
    /\ UNCHANGED <<trustVars, file, budget, accepted, barred>>

\* transfers fail, time out and are cancelled; documents fail to parse or to validate
FetchFails(c) ==
    /\ job[c].step \in {"fetch", "verify", "packs"}
    /\ Spend("fault")
    /\ End(c)
    /\ UNCHANGED <<trustVars, file, accepted, barred>>

SnapshotOf(j) ==
    [rev |-> j.index.rev, sha |-> j.index.sha, packs |-> j.packs, status |-> j.status,
     key |-> j.key]

\* every manifest is there: a verified snapshot goes through the revision check
Assemble(c) ==
    /\ At(c, "packs")
    /\ job[c].left = {}
    /\ IF job[c].status = "verified"
       THEN job' = [job EXCEPT ![c].step = "rollback_lock"]
       ELSE Write(c, job[c].id, SnapshotOf(job[c]))
    /\ UNCHANGED <<trustVars, file, lock, budget, accepted, barred>>

(***************************************************************************)
(* enforce_and_record_revisions, under providers:rollback.                 *)
(***************************************************************************)
\* a document may replace another: it is newer, or the same
Follows(new, old) == new.rev > old.rev \/ (new.rev = old.rev /\ new.sha = old.sha)

\* mutant: only the revision of the index is compared
EnforcedRevision(high, s) == high # None => s.rev >= high.rev

Enforced(high, s) ==
    high # None =>
        /\ Follows(s, high)
        /\ \A p \in Pack :
             s.packs[p] # None /\ high.packs[p] # None => Follows(s.packs[p], high.packs[p])

\* the marks rise and never fall, an override included
Recorded(high, s) ==
    IF high = None THEN [rev |-> s.rev, sha |-> s.sha, packs |-> s.packs]
    ELSE [rev |-> IF s.rev > high.rev THEN s.rev ELSE high.rev,
          sha |-> IF s.rev > high.rev THEN s.sha ELSE high.sha,
          packs |-> [p \in Pack |->
                       IF s.packs[p] # None
                            /\ (high.packs[p] = None \/ s.packs[p].rev > high.packs[p].rev)
                       THEN s.packs[p] ELSE high.packs[p]]]

\* mutant: the document is loaded without waiting for the other writer
RollbackAlwaysFree(c) == TRUE

RollbackFree(c) == lock["rollback"] = None

\* mutant: the snapshot is replaced before its revisions are recorded
EnforceLater(c) ==
    LET s == SnapshotOf(job[c])
    IN /\ At(c, "rollback_lock")
       /\ RollbackFree(c)
       /\ IF job[c].override \/ Enforced(Loaded("rollback")[job[c].id], s)
          THEN Write(c, job[c].id, s) /\ UNCHANGED lock
          ELSE End(c)
       /\ UNCHANGED <<trustVars, file, budget, accepted, barred>>

\* acquire providers:rollback, load, compare
Enforce(c) ==
    LET s == SnapshotOf(job[c])
        rollback == Loaded("rollback")
        id == job[c].id
    IN /\ At(c, "rollback_lock")
       /\ RollbackFree(c)
       /\ IF job[c].override \/ Enforced(rollback[id], s)
          THEN /\ lock' = [lock EXCEPT !["rollback"] = c]
               /\ Write(c, "rollback", [rollback EXCEPT ![id] = Recorded(@, s)])
          ELSE End(c)
       /\ UNCHANGED <<trustVars, file, budget, accepted, barred>>

RollbackBusy(c) == Busy(c, "rollback_lock", "rollback")

(***************************************************************************)
(* atomic_json, one file operation a step.                                 *)
(***************************************************************************)

Moved(f) == [dest |-> NoFile, prev |-> IF file[f].dest = NoFile THEN file[f].prev
                                                                ELSE file[f].dest]

MoveOld(c) ==
    /\ At(c, "move")
    /\ file' = [file EXCEPT ![job[c].target] = Moved(job[c].target)]
    /\ job' = [job EXCEPT ![c].step = "rename"]
    /\ UNCHANGED <<trustVars, lock, budget, accepted, barred>>

RenameNew(c) ==
    LET f == job[c].target
    IN /\ At(c, "rename")
       /\ file' = [file EXCEPT ![f].dest = job[c].value]
       /\ job' = [job EXCEPT ![c].step = "clean"]
       /\ accepted' = IF f \in Provider /\ job[c].value.status = "verified"
                      THEN [accepted EXCEPT ![f] = @ \cup
                              {[snapshot |-> job[c].value, override |-> job[c].override]}]
                      ELSE accepted
       /\ UNCHANGED <<trustVars, lock, budget, barred>>

\* the rename fails: the old file is put back and the operation fails
RenameFails(c) ==
    LET f == job[c].target
    IN /\ At(c, "rename")
       /\ Spend("fault")
       /\ file' = [file EXCEPT ![f] = IF @.prev = NoFile THEN @
                                      ELSE [dest |-> @.prev, prev |-> NoFile]]
       /\ End(c)
       /\ UNCHANGED <<trustVars, accepted, barred>>

\* .previous is removed; recorded revisions are followed by the snapshot, the rest returns
RemovePrevious(c) ==
    /\ At(c, "clean")
    /\ file' = [file EXCEPT ![job[c].target].prev = NoFile]
    /\ IF job[c].target = "rollback"
       THEN /\ Write(c, job[c].id, SnapshotOf(job[c]))
            /\ lock' = [lock EXCEPT !["rollback"] = None]
       ELSE End(c)
    /\ UNCHANGED <<trustVars, budget, accepted, barred>>

(***************************************************************************)
(* Trust decisions of the same clients, and kills.                         *)
(***************************************************************************)
\* keys that have been revoked on disk all along
StillBarred(c) == {k \in barred[c] : TrustLoad'.keys[k] # "trusted"}

Decide(c) ==
    /\ Spend("trust")
    /\ \/ \E k \in Key : AddKey(c, k) \/ RevokeKey(c, k)
       \/ \E t \in Transition : ApplyTransition(c, t)
    /\ UNCHANGED <<file, lock, job, accepted, barred>>

StoreDecision(c) ==
    /\ SaveStep(c)
    /\ barred' = [d \in Client |-> StillBarred(d)]
    /\ UNCHANGED <<file, lock, job, budget, accepted>>

\* the process dies: the operating system drops its locks, the files stay
Kill(c) ==
    /\ ~ At(c, "idle") \/ decision[c].step # "idle"
    /\ Spend("kill")
    /\ End(c)
    /\ decision' = [decision EXCEPT ![c] = NoDecision]
    /\ barred' = [barred EXCEPT ![c] = {}]
    /\ UNCHANGED <<trust, trustTmp, file, accepted>>

(***************************************************************************)
(* The specification.                                                      *)
(***************************************************************************)
SyncStep(c) ==
    \/ RegistryLock(c) \/ RegistryBusy(c) \/ Get(c) \/ GetPrevious(c)
    \/ (\E index \in Index : FetchIndex(c, index))
    \/ FetchNotModified(c) \/ NotModified(c) \/ NotModifiedRefused(c)
    \/ (\E envelope \in Envelope \cup {None} : VerifyIndex(c, envelope))
    \/ (\E p \in Pack, document \in Document : FetchPack(c, p, document))
    \/ FetchFails(c) \/ Assemble(c) \/ Enforce(c) \/ RollbackBusy(c)
    \/ MoveOld(c) \/ RenameNew(c) \/ RenameFails(c) \/ RemovePrevious(c)

Request(c) ==
    \/ \E id \in Provider, reg \in Registration : AddProvider(c, id, reg)
    \/ \E id \in Provider : RemoveProvider(c, id)
    \/ \E id \in Provider, override \in BOOLEAN : StartSync(c, id, override)

Next ==
    \E c \in Client : SyncStep(c) \/ Request(c) \/ Decide(c) \/ StoreDecision(c) \/ Kill(c)

Spec == SyncInit /\ [][Next]_vars

\* a task that has begun runs on: transfers and the waits for locks have timeouts
SyncFairness == \A c \in Client : WF_vars(SyncStep(c))

FairSpec == Spec /\ SyncFairness

(***************************************************************************)
(* Properties.                                                             *)
(***************************************************************************)
\* Whatever verified snapshot a client can read, rollback.json already holds its revisions:
\* a kill between the two writes, a removed registration or an override never leaves an
\* accepted revision unrecorded (sync_inner records before write_snapshot).
HighWaterCovers ==
    \A id \in Provider : LET s == Read(id)  high == Loaded("rollback")[id] IN
        s # NoFile /\ s.status = "verified" =>
            /\ high # None /\ high.rev >= s.rev
            /\ \A p \in Pack : s.packs[p] # None =>
                 high.packs[p] # None /\ high.packs[p].rev >= s.packs[p].rev

\* A verified snapshot is one signed index with exactly the manifests that index names,
\* although index, envelope and manifests come from servers that change in between and some
\* of them from the previous snapshot.
SignedAsAWhole ==
    \A id \in Provider : LET s == Read(id) IN
        s # NoFile /\ s.status = "verified" =>
            /\ [signer |-> s.key, sha |-> s.sha] \in Envelope
            /\ \E index \in Index : /\ index.sha = s.sha /\ index.rev = s.rev
                                    /\ \A p \in Pack : index.refs[p] = s.packs[p]

\* The types, and that verified snapshots are whole (sync_inner).
SyncInv == TypeOK /\ SignedAsAWhole

\* Without an override, a verified snapshot is never older than one that was ever committed
\* for the provider, and never another content under the same revision: across kills,
\* overrides, removal and registration again.
NoRollback ==
    [][\A id \in Provider : \A a \in accepted'[id] \ accepted[id] :
         ~ a.override => \A b \in accepted[id] :
            /\ a.snapshot.rev >= b.snapshot.rev
            /\ a.snapshot.rev = b.snapshot.rev /\ ~ b.override =>
                 a.snapshot.sha = b.snapshot.sha
            /\ \A p \in Pack :
                 a.snapshot.packs[p] # None /\ b.snapshot.packs[p] # None =>
                    a.snapshot.packs[p].rev >= b.snapshot.packs[p].rev]_vars

\* The recorded marks of every provider only rise: two clients that synchronize different
\* providers never overwrite each other's marks in the one rollback.json.
HighWaterMonotone ==
    [][\A id \in Provider : LET old == Loaded("rollback")[id] IN
         old # None => /\ Loaded("rollback")'[id] # None
                       /\ Loaded("rollback")'[id].rev >= old.rev]_vars

\* A sync that began after a key was revoked, and during which it stayed so, never succeeds
\* with that key: neither by committing a snapshot nor by answering 304 with the old one.
RevokedNeverSyncs ==
    [][\A c \in Client :
         /\ NotModified(c) /\ job[c].previous.status = "verified" =>
              job[c].previous.key \notin barred[c]
         /\ RenameNew(c) /\ job[c].target \in Provider /\ job[c].status = "verified" =>
              job[c].key \notin barred[c]]_vars

\* Every operation on the registry and every sync returns, in success or an error: whatever
\* other clients hold, trust or publish, none waits or asks again without end.
OperationEnds == \A c \in Client : ~ At(c, "idle") ~> At(c, "idle")
=============================================================================
