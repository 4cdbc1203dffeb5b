----------------------------- MODULE TrustStore -----------------------------
(***************************************************************************)
(* The local trust store (trust/mod.rs): the signing keys the user trusts  *)
(* or has revoked and the key transitions the old keys signed, in one file *)
(* trust.json.  A decision loads the document, changes it and saves it: a  *)
(* temporary is written, the old file removed, the temporary renamed.  The *)
(* mutex of a TrustStore orders the decisions of one client only; every    *)
(* client of the data directory uses the same file and the same temporary. *)
(***************************************************************************)
EXTENDS Naturals

CONSTANTS
    Client,      \* processes that share the data directory
    Provider,    \* identities a provider can be registered under
    Key,         \* fingerprints of Ed25519 keys
    Transition,  \* transitions the old keys have signed
    NoFile,      \* a file that does not exist
    None         \* no value

ASSUME TrustAssumption ==
    /\ Transition \subseteq
         [provider : Provider, from : Key, to : Key, validFrom : Nat \ {0}]
    /\ None \notin Key \cup Client \cup Provider

VARIABLES
    trust,     \* trust.json
    trustTmp,  \* trust.json.tmp
    decision   \* [Client -> the decision it is saving]

trustVars == <<trust, trustTmp, decision>>

TrustDocument == [keys : [Key -> {"unknown", "trusted", "revoked"}],
                  transitions : SUBSET Transition]
EmptyTrust == [keys |-> [k \in Key |-> "unknown"], transitions |-> {}]
NoDecision == [step |-> "idle", document |-> EmptyTrust]

TrustTypeOK ==
    /\ trust \in TrustDocument \cup {NoFile}
    /\ trustTmp \in TrustDocument \cup {NoFile}
    /\ decision \in [Client ->
         [step : {"idle", "write", "remove", "rename"}, document : TrustDocument]]

\* load: a missing file is an empty document
TrustLoad == IF trust = NoFile THEN EmptyTrust ELSE trust

(***************************************************************************)
(* The decisions.                                                          *)
(***************************************************************************)
Save(c, document) ==
    /\ decision' = [decision EXCEPT ![c] = [step |-> "write", document |-> document]]
    /\ UNCHANGED <<trust, trustTmp>>

WithKey(document, k, state) == [document EXCEPT !.keys[k] = state]

\* add_key: trusts the key, whatever was recorded of it
AddKey(c, k) ==
    /\ decision[c].step = "idle"
    /\ Save(c, WithKey(TrustLoad, k, "trusted"))

\* remove: the key must be recorded, and stays recorded as revoked
RevokeKey(c, k) ==
    /\ decision[c].step = "idle"
    /\ TrustLoad.keys[k] # "unknown"
    /\ Save(c, WithKey(TrustLoad, k, "revoked"))

\* validate_transition: the old key, still trusted, signed it for another key
ValidTransition(document, t) ==
    /\ t.from # t.to
    /\ document.keys[t.from] = "trusted"

\* apply_transition
ApplyTransition(c, t) ==
    /\ decision[c].step = "idle"
    /\ ValidTransition(TrustLoad, t)
    /\ Save(c, [WithKey(TrustLoad, t.to, "trusted") EXCEPT !.transitions = @ \cup {t}])

(***************************************************************************)
(* save, one file operation a step.                                        *)
(***************************************************************************)
WriteTmp(c) ==
    /\ decision[c].step = "write"
    /\ trustTmp' = decision[c].document
    /\ decision' = [decision EXCEPT ![c].step = "remove"]
    /\ UNCHANGED trust

RemoveTrust(c) ==
    /\ decision[c].step = "remove"
    /\ trust' = NoFile
    /\ decision' = [decision EXCEPT ![c].step = "rename"]
    /\ UNCHANGED trustTmp

\* another client removed the file between the test that it exists and its removal
RemoveFails(c) ==
    /\ decision[c].step = "remove"
    /\ trust = NoFile
    /\ decision' = [decision EXCEPT ![c] = NoDecision]
    /\ UNCHANGED <<trust, trustTmp>>

\* rename: fails when another client's save has taken the temporary
RenameTmp(c) ==
    /\ decision[c].step = "rename"
    /\ decision' = [decision EXCEPT ![c] = NoDecision]
    /\ IF trustTmp = NoFile
       THEN UNCHANGED <<trust, trustTmp>>
       ELSE /\ trust' = trustTmp
            /\ trustTmp' = NoFile

SaveStep(c) == WriteTmp(c) \/ RemoveTrust(c) \/ RemoveFails(c) \/ RenameTmp(c)

(***************************************************************************)
(* authorize: the key is trusted, and is the expected one or follows it by *)
(* a transition of this provider that is in force at this revision.        *)
(***************************************************************************)
Authorized(expected, actual, id, revision) ==
    /\ TrustLoad.keys[actual] = "trusted"
    /\ \/ actual = expected
       \/ \E t \in TrustLoad.transitions :
            /\ t.provider = id /\ t.from = expected /\ t.to = actual
            /\ revision >= t.validFrom
=============================================================================
