---------------------------- MODULE AuthManager ----------------------------
(***************************************************************************)
(* auth/mod.rs and auth/config.rs: the authentication manager.  Callers    *)
(* begin, continue and cancel login flows, refresh and verify accounts,    *)
(* log them out, and configure providers.  In memory: the registered       *)
(* providers, the pending flows and the sessions, each behind its own      *)
(* lock.  On disk: accounts.json and providers.json, saved through a       *)
(* temporary, a removal and a rename.  Secrets live in the credential      *)
(* vault.  Nothing holds a lock across an await, so the calls interleave   *)
(* at every await; there a call may be dropped, or fail because the vault  *)
(* or the file system refuses; the process may be killed anywhere.         *)
(***************************************************************************)
EXTENDS AuthProviders, TLC

CONSTANTS
    Tasks,          \* the calls that can be in flight
    MaxCalls,       \* bound: calls made in a behaviour
    MaxFaults,      \* bound: kills, dropped calls, I/O errors and vault refusals
    InitAuth,       \* the starts: how many calls the application overlaps and has made,
                    \* the configured providers and the saved sessions
    Missing,        \* no such file
    NoSession       \* no such session

ASSUME AuthAssumption ==
    /\ IsFiniteSet(Tasks)
    /\ MaxCalls \in Nat
    /\ MaxFaults \in Nat
    /\ \A registry \in SUBSET Configurable : Missing # registry

\* a process starts with the sessions that earlier calls obtained
ASSUME InitAssumption ==
    \A i \in InitAuth :
        /\ i.callers \in Nat
        /\ i.calls \in 0..MaxCalls
        /\ i.registry \subseteq Configurable
        /\ i.sessions \subseteq {Session(a[1], a[2], r, g) :
                a \in Accounts, r \in BOOLEAN, g \in 1..i.calls}

VARIABLES
    up,          \* the process runs
    callers,     \* how many calls the application lets overlap: 1 (the command
                 \* line, one call per process) or more (an embedding launcher)
    providers,   \* providers: the registered ones
    flows,       \* flows: pending flow id -> its provider and flow state
    sessions,    \* sessions: account -> session
    vault,       \* the credential vault: account -> secret name -> token
    file,        \* accounts.json and providers.json
    tmp,         \* their temporaries
    task,        \* the calls in flight
    calls,       \* calls made so far; numbers flows, flow states and tokens
    faults,      \* faults so far
    handed,      \* history: flow state -> times a provider received it
    cancelled,   \* history: flows whose cancellation was confirmed
    out,         \* history: accounts whose last change is a confirmed logout
    leaving,     \* history: accounts some logout began to delete the secrets of
    torn         \* history: a call of this process ended halfway through replacing
                 \* providers.json and the registered providers

memory == <<providers, flows, sessions>>
disk == <<file, tmp>>
history == <<handed, cancelled, out, leaving, torn>>
vars == <<up, callers, memory, vault, disk, task, calls, faults, history>>

Idle == [pc |-> "idle"]

\* A call: what it asks for, where it is (pc), its provider, the account it
\* names, its flow and flow state, the response it carries, the session it
\* works on, the secrets still to store or delete, and the document it saves.
\* Its serial number is no other call's: tokens and flow states it obtains and the
\* flow it opens are numbered by it.
Call(op, want, p, a, f, state, response, session) ==
    [op |-> op, want |-> want, pc |-> "call", provider |-> p, account |-> a, flow |-> f,
     state |-> state, response |-> response, session |-> session, todo |-> {}, doc |-> Missing,
     serial |-> calls + 1]

NoFlows == [id \in {} |-> Idle]

Without(fn, ids) == [id \in DOMAIN fn \ ids |-> fn[id]]

Running == {t \in Tasks : task[t] # Idle}

\* An application that allows one call at a time runs it to its end.
Free(t) ==
    /\ up
    /\ task[t] = Idle
    /\ Cardinality(Running) < callers
    /\ calls < MaxCalls

\* The accounts of the current sessions, as PersistedSession::from keeps them:
\* the secrets stay out of the document.
Persisted(s) == [account |-> s.account, refreshable |-> s.refreshable, life |-> s.life]

Document == {Persisted(sessions[a]) : a \in {b \in Accounts : sessions[b] # NoSession}}

Listed(d) == IF d = Missing THEN {} ELSE {s.account : s \in d}

Init ==
    /\ up = TRUE
    /\ flows = NoFlows
    /\ \E i \in InitAuth :
        /\ callers = i.callers
        /\ sessions = [a \in Accounts |->
                IF \E s \in i.sessions : s.account = a
                THEN CHOOSE s \in i.sessions : s.account = a ELSE NoSession]
        /\ vault = [a \in Accounts |->
                IF sessions[a] = NoSession THEN [n \in Names |-> 0] ELSE sessions[a].tokens]
        /\ file = [accounts |-> IF i.sessions = {} THEN Missing ELSE Document,
                   providers |-> i.registry]
        /\ calls = i.calls
    /\ tmp = [accounts |-> Missing, providers |-> Missing]
    /\ providers = file.providers \cup {Offline}
    /\ task = [t \in Tasks |-> Idle]
    /\ faults = 0
    /\ handed = [n \in 1..MaxCalls |-> 0]
    /\ cancelled = {}
    /\ out = {}
    /\ leaving = {}
    /\ torn = FALSE

-----------------------------------------------------------------------------
(***************************************************************************)
(* The start of each call, up to its first await on a provider.            *)
(***************************************************************************)

\* begin: expired flows are pruned first, then the provider is looked up.
Begin(t, p) ==
    /\ Free(t)
    /\ \E expired \in SUBSET DOMAIN flows : flows' = Without(flows, expired)
    /\ task' = IF p \in providers
               THEN [task EXCEPT ![t] = Call("login", "begin", p, <<>>, 0, "none", "none", <<>>)]
               ELSE task
    /\ calls' = calls + 1
    /\ UNCHANGED <<up, callers, providers, sessions, vault, disk, faults, history>>

\* mutant: the flow is read under the lock and only removed when it ends
TakeFlowLater(f) == flows

\* continue_flow removes the flow under the write lock before anything else.
TakeFlow(f) == Without(flows, {f})

\* continue_flow: an expired flow and an unregistered provider end the call,
\* and the flow is gone either way.
Continue(t, f, response) ==
    /\ Free(t)
    /\ f \in DOMAIN flows
    /\ flows' = TakeFlow(f)
    /\ \/ task' = task
       \/ /\ flows[f].provider \in providers
          /\ task' = [task EXCEPT ![t] =
                Call("login", "continue", flows[f].provider, <<>>, f, flows[f].state, response, <<>>)]
    /\ handed' = IF task' = task THEN handed
                 ELSE [handed EXCEPT ![flows[f].serial] = @ + 1]
    /\ calls' = calls + 1
    /\ UNCHANGED <<up, callers, providers, sessions, vault, disk, faults, cancelled, out, leaving, torn>>

\* cancel_flow finds only a flow that is pending.
CancelFinds(f) == f \in DOMAIN flows

\* cancel_flow.
CancelFlow(t, f) ==
    /\ Free(t)
    /\ CancelFinds(f)
    /\ flows' = Without(flows, {f})
    /\ cancelled' = cancelled \cup {f}
    /\ calls' = calls + 1
    /\ UNCHANGED <<up, callers, providers, sessions, vault, disk, task, faults, handed, out, leaving, torn>>

\* refresh of a refreshable session whose provider is registered; the session
\* read here is used after the provider has answered.
Refresh(t, a) ==
    /\ Free(t)
    /\ sessions[a] # NoSession
    /\ sessions[a].refreshable
    /\ a[1] \in providers
    /\ task' = [task EXCEPT ![t] =
            Call("refresh", "refresh", a[1], a, 0, "none", "none", sessions[a])]
    /\ calls' = calls + 1
    /\ UNCHANGED <<up, callers, memory, vault, disk, faults, history>>

\* identity_for_launch: an expired session is refreshed first (refused when it
\* is not refreshable), any session is verified.
IdentityForLaunch(t, a) ==
    /\ Free(t)
    /\ sessions[a] # NoSession
    /\ a[1] \in providers
    /\ \/ task' = [task EXCEPT ![t] =
                Call("launch", "verify", a[1], a, 0, "none", "none", sessions[a])]
       \/ /\ sessions[a].life # 0
          /\ sessions[a].refreshable
          /\ task' = [task EXCEPT ![t] =
                Call("launch", "refresh", a[1], a, 0, "none", "none", sessions[a])]
    /\ calls' = calls + 1
    /\ UNCHANGED <<up, callers, memory, vault, disk, faults, history>>

\* logout.
Logout(t, a) ==
    /\ Free(t)
    /\ sessions[a] # NoSession
    /\ a[1] \in providers
    /\ task' = [task EXCEPT ![t] =
            Call("logout", "logout", a[1], a, 0, "none", "none", sessions[a])]
    /\ calls' = calls + 1
    /\ UNCHANGED <<up, callers, memory, vault, disk, faults, history>>

Registry == IF file.providers = Missing THEN {} ELSE file.providers

\* add_configured and remove_configured: load the registry, refuse a known (an
\* unknown) id, and save the changed registry.
Configure(t, p) ==
    /\ Free(t)
    /\ \E op \in {"add", "remove"} :
        /\ (op = "remove") <=> (p \in Registry)
        /\ task' = [task EXCEPT ![t] =
            [Call(op, op, p, <<>>, 0, "none", "none", <<>>) EXCEPT
                !.pc = "write",
                !.doc = IF op = "add" THEN Registry \cup {p} ELSE Registry \ {p}]]
    /\ calls' = calls + 1
    /\ UNCHANGED <<up, callers, memory, vault, disk, faults, history>>

-----------------------------------------------------------------------------
(***************************************************************************)
(* The provider answers.                                                   *)
(***************************************************************************)

Steps(c) ==
    CASE c.want = "begin"    -> BeginSteps(c.provider)
      [] c.want = "continue" -> ContinueSteps(c.provider, c.state, c.response, c.serial)
      [] c.want = "refresh"  -> RefreshSteps(c.session, c.serial)
      [] c.want = "verify"   -> VerifySteps(c.session, c.serial)
      [] c.want = "logout"   -> LogoutSteps(c.session)

\* refresh and identity_for_launch refuse a session of another account.
SameAccount(c, session) ==
    c.want \in {"refresh", "verify"} => session.account = c.account

\* mutant: the Minecraft token is left to the next refresh
ProviderSecretsOf(session) == {n \in Names \ {"minecraft_access"} : session.tokens[n] # 0}

\* persist_secrets stores the secrets the session has.
SecretsOf(session) == {n \in Names : session.tokens[n] # 0}

\* mutant: logout deletes the access tokens only
AccessSecrets == {"provider_access", "minecraft_access"}

\* logout deletes all four, whether they are there or not.
DeletedSecrets == Names

\* next_id: an id that no other flow has had.
NextId(c) == c.serial

\* finish_step on a challenge: the flow becomes pending under the id it had, or
\* under a new one.
Challenged(t, step) ==
    LET c == task[t]
        id == IF c.flow = 0 THEN NextId(c) ELSE c.flow
    IN  /\ step.step = "challenge"
        /\ flows' = [g \in DOMAIN flows \cup {id} |->
                IF g = id THEN [provider |-> c.provider, state |-> step.state, serial |-> c.serial]
                ELSE flows[g]]
        /\ task' = [task EXCEPT ![t] = Idle]
        /\ UNCHANGED <<sessions, out, leaving>>

\* finish_step, refresh or verify on a session of the right account.
Obtained(t, step) ==
    /\ step.step = "session"
    /\ task[t].op # "logout"
    /\ SameAccount(task[t], step.session)
    /\ task' = [task EXCEPT ![t].pc = "secrets", ![t].session = step.session,
                            ![t].todo = SecretsOf(step.session)]
    /\ out' = out \ {step.session.account}
    /\ UNCHANGED <<flows, sessions, leaving>>

\* logout accepted by the provider: the session leaves the map first.
Departed(t, step) ==
    /\ step.step = "session"
    /\ task[t].op = "logout"
    /\ sessions' = [sessions EXCEPT ![task[t].account] = NoSession]
    /\ task' = [task EXCEPT ![t].pc = "forget", ![t].todo = DeletedSecrets]
    /\ leaving' = leaving \cup {task[t].account}
    /\ UNCHANGED <<flows, out>>

\* The provider fails, or the session is another account's: the call ends.
Refused(t, step) ==
    /\ \/ step.step = "error"
       \/ step.step = "session" /\ ~ SameAccount(task[t], step.session)
    /\ task' = [task EXCEPT ![t] = Idle]
    /\ UNCHANGED <<flows, sessions, out, leaving>>

Answer(t) ==
    /\ up
    /\ task[t].pc = "call"
    /\ \E step \in Steps(task[t]) :
        Challenged(t, step) \/ Obtained(t, step) \/ Departed(t, step) \/ Refused(t, step)
    /\ UNCHANGED <<up, callers, providers, vault, disk, calls, faults, handed, cancelled, torn>>

-----------------------------------------------------------------------------
(***************************************************************************)
(* The rest of a call: secrets, the session map, the saved document.       *)
(***************************************************************************)

\* The first of the secrets still to do, in the order of SecretNames.
Foremost(n, todo) ==
    \E i \in DOMAIN SecretNames :
        SecretNames[i] = n /\ \A k \in DOMAIN SecretNames : SecretNames[k] \in todo => i <= k

\* CredentialStore::store, one secret at a time.
StoreSecret(t) ==
    LET c == task[t] IN
    /\ up
    /\ c.pc = "secrets"
    /\ \E n \in c.todo :
        /\ Foremost(n, c.todo)
        /\ vault' = [vault EXCEPT ![c.session.account][n] = c.session.tokens[n]]
        /\ task' = [task EXCEPT ![t].todo = c.todo \ {n}]
    /\ UNCHANGED <<up, callers, memory, disk, calls, faults, history>>

\* The session enters the map when all its secrets are stored.
InsertSession(t) ==
    LET c == task[t] IN
    /\ up
    /\ c.pc = "secrets"
    /\ c.todo = {}
    /\ sessions' = [sessions EXCEPT ![c.session.account] = c.session]
    /\ task' = [task EXCEPT ![t].pc = "snapshot"]
    /\ UNCHANGED <<up, callers, providers, flows, vault, disk, calls, faults, history>>

\* CredentialStore::delete, one secret at a time.
DeleteSecret(t) ==
    LET c == task[t] IN
    /\ up
    /\ c.pc = "forget"
    /\ \E n \in c.todo :
        /\ Foremost(n, c.todo)
        /\ vault' = [vault EXCEPT ![c.account][n] = 0]
        /\ task' = [task EXCEPT ![t].todo = c.todo \ {n},
                                ![t].pc = IF c.todo = {n} THEN "snapshot" ELSE "forget"]
    /\ UNCHANGED <<up, callers, memory, disk, calls, faults, history>>

\* save_sessions reads the map once.
Snapshot(t) ==
    /\ up
    /\ task[t].pc = "snapshot"
    /\ task' = [task EXCEPT ![t].pc = "write", ![t].doc = Document]
    /\ UNCHANGED <<up, callers, memory, vault, disk, calls, faults, history>>

\* The file a call saves.
Name(c) == IF c.op \in {"add", "remove"} THEN "providers" ELSE "accounts"

\* save writes the temporary, whose name every save of the file shares.
WriteTemporary(t) ==
    /\ up
    /\ task[t].pc = "write"
    /\ tmp' = [tmp EXCEPT ![Name(task[t])] = task[t].doc]
    /\ task' = [task EXCEPT ![t].pc = "check"]
    /\ UNCHANGED <<up, callers, memory, vault, file, calls, faults, history>>

CheckOld(t) ==
    /\ up
    /\ task[t].pc = "check"
    /\ task' = [task EXCEPT ![t].pc = IF file[Name(task[t])] = Missing THEN "rename" ELSE "remove"]
    /\ UNCHANGED <<up, callers, memory, vault, disk, calls, faults, history>>

\* The old file is removed; a file another save has removed since is an error
\* that ends the call.
RemoveOld(t) ==
    LET n == Name(task[t]) IN
    /\ up
    /\ task[t].pc = "remove"
    /\ file' = [file EXCEPT ![n] = Missing]
    /\ task' = IF file[n] = Missing THEN [task EXCEPT ![t] = Idle]
               ELSE [task EXCEPT ![t].pc = "rename"]
    /\ UNCHANGED <<up, callers, memory, vault, tmp, calls, faults, history>>

\* add_configured registers the provider, remove_configured drops it.
Registered(c) ==
    CASE c.op = "add"    -> providers \cup {c.provider}
      [] c.op = "remove" -> providers \ {c.provider}
      [] OTHER           -> providers

\* The call after its save: a launch that has refreshed goes on to verify, if
\* its provider is still registered; any other call has succeeded.
Rename(t) ==
    LET c == task[t]
        n == Name(c)
        verify == c.op = "launch" /\ c.want = "refresh" /\ c.provider \in providers
    IN  /\ up
        /\ c.pc = "rename"
        /\ IF tmp[n] = Missing
           THEN /\ task' = [task EXCEPT ![t] = Idle]
                /\ UNCHANGED <<disk, providers, out>>
           ELSE /\ file' = [file EXCEPT ![n] = tmp[n]]
                /\ tmp' = [tmp EXCEPT ![n] = Missing]
                /\ providers' = Registered(c)
                /\ task' = IF verify
                           THEN [task EXCEPT ![t].pc = "call", ![t].want = "verify"]
                           ELSE [task EXCEPT ![t] = Idle]
                /\ out' = IF c.op = "logout" THEN out \cup {c.account} ELSE out
        /\ UNCHANGED <<up, callers, flows, sessions, vault, calls, faults, handed, cancelled, leaving,
                       torn>>

Step(t) ==
    \/ Answer(t) \/ StoreSecret(t) \/ InsertSession(t) \/ DeleteSecret(t)
    \/ Snapshot(t) \/ WriteTemporary(t) \/ CheckOld(t) \/ RemoveOld(t) \/ Rename(t)

-----------------------------------------------------------------------------
(***************************************************************************)
(* Faults.                                                                 *)
(***************************************************************************)

\* A save of the registry is halfway when the old file has been removed.
Halfway(c) == c.pc = "rename" /\ Name(c) = "providers"

\* The vault refuses a secret, the file system an operation of a save, or the
\* call is dropped at an await (the Ctrl-C arm of await_auth_operation): it ends
\* where it is and undoes nothing.
Interrupted(t) ==
    /\ up
    /\ faults < MaxFaults
    /\ task[t] # Idle
    /\ task' = [task EXCEPT ![t] = Idle]
    /\ faults' = faults + 1
    /\ torn' = (torn \/ Halfway(task[t]))
    /\ UNCHANGED <<up, callers, memory, vault, disk, calls, handed, cancelled, out, leaving>>

\* The call is dropped while its rename runs: the file is replaced, and what should
\* follow in memory is left undone.
RenameDropped(t) ==
    LET n == Name(task[t]) IN
    /\ up
    /\ faults < MaxFaults
    /\ task[t].pc = "rename"
    /\ tmp[n] # Missing
    /\ file' = [file EXCEPT ![n] = tmp[n]]
    /\ tmp' = [tmp EXCEPT ![n] = Missing]
    /\ task' = [task EXCEPT ![t] = Idle]
    /\ faults' = faults + 1
    /\ torn' = (torn \/ Halfway(task[t]))
    /\ UNCHANGED <<up, callers, memory, vault, calls, handed, cancelled, out, leaving>>

\* The process is killed: everything in memory is gone.
Kill ==
    /\ up
    /\ faults < MaxFaults
    /\ up' = FALSE
    /\ faults' = faults + 1
    /\ providers' = {}
    /\ flows' = NoFlows
    /\ sessions' = [a \in Accounts |-> NoSession]
    /\ task' = [t \in Tasks |-> Idle]
    /\ torn' = FALSE
    /\ UNCHANGED <<callers, vault, disk, calls, handed, cancelled, out, leaving>>

\* load_sessions: the metadata of the document, the tokens of the vault.
Restored(a) ==
    LET s == CHOOSE d \in file.accounts : d.account = a
    IN  [account |-> a, refreshable |-> s.refreshable, life |-> s.life, tokens |-> vault[a]]

\* load_sessions fails when an official account has no Minecraft token.
Loadable == \A a \in Listed(file.accounts) : Official(a) => vault[a]["minecraft_access"] # 0

\* The build of the next process: the offline provider is registered, then
\* load_configured, then load_sessions.  A failing load fails the build.
Start ==
    /\ ~ up
    /\ Loadable
    /\ up' = TRUE
    /\ providers' = Registry \cup {Offline}
    /\ sessions' = [a \in Accounts |->
            IF a \in Listed(file.accounts) THEN Restored(a) ELSE NoSession]
    /\ UNCHANGED <<callers, flows, vault, disk, task, calls, faults, history>>

Next ==
    \/ \E t \in Tasks :
        \/ \E p \in Kinds : Begin(t, p)
        \/ \E f \in DOMAIN flows, r \in Responses : Continue(t, f, r)
        \/ \E f \in 1..MaxCalls : CancelFlow(t, f)
        \/ \E a \in Accounts : Refresh(t, a) \/ IdentityForLaunch(t, a) \/ Logout(t, a)
        \/ \E p \in Configurable : Configure(t, p)
        \/ Step(t)
        \/ Interrupted(t) \/ RenameDropped(t)
    \/ Kill
    \/ Start

Spec == Init /\ [][Next]_vars

-----------------------------------------------------------------------------
TypeOK ==
    /\ up \in BOOLEAN
    /\ providers \subseteq Kinds
    /\ DOMAIN flows \subseteq 1..MaxCalls
    /\ \A a \in Accounts : sessions[a] # NoSession => sessions[a].account = a
    /\ vault \in [Accounts -> [Names -> 0..MaxCalls]]
    /\ Listed(file.accounts) \subseteq Accounts
    /\ Registry \subseteq Configurable
    /\ calls \in 0..MaxCalls

\* A flow state is handed to a provider at most once, however many calls race to
\* continue the flow: continue_flow takes it out under the write lock.
FlowUsedOnce == \A n \in DOMAIN handed : handed[n] =< 1

\* A confirmed cancellation is final: the flow is not pending, nothing works on
\* it and nothing puts it back (cancel_flow against continue_flow).
CancelIsFinal ==
    \A f \in cancelled :
        f \notin DOMAIN flows /\ \A t \in Running : task[t].flow # f

\* An official account is listed in accounts.json only when its Minecraft token
\* is in the vault, so that the next start can load the accounts: secrets are
\* stored before the metadata names them, through kills and refusals of the
\* vault.  Without overlapping calls the token is also as new as the metadata.
\* (A logout deletes first and saves last: its account is excepted.)
SecretsBehindAccounts ==
    \A s \in IF file.accounts = Missing THEN {} ELSE file.accounts :
        Official(s.account) /\ s.account \notin leaving =>
            /\ vault[s.account]["minecraft_access"] # 0
            /\ callers = 1 => vault[s.account]["minecraft_access"] >= s.life

\* After a confirmed logout, and until the account logs in again, nothing of it
\* is left: no session, no metadata, no secret -- when the application does not
\* overlap calls (logout).
LoggedOutForgotten ==
    callers = 1 =>
        \A a \in out :
            /\ sessions[a] = NoSession
            /\ a \notin Listed(file.accounts)
            /\ \A n \in Names : vault[a][n] = 0

\* Between calls the registered providers are the configured ones and the
\* offline one, also after kills, errors and dropped calls in the middle of any
\* save, until a call of this process has ended between removing providers.json
\* and changing the registered providers: that leaves the two apart for good
\* (add_configured, remove_configured, load_configured).
RegisteredAsConfigured ==
    callers = 1 /\ up /\ Running = {} /\ ~ torn => providers = Registry \cup {Offline}

\* The types, and that flows are used once and end for good, whatever calls overlap,
\* fail, are dropped or killed, and that providers are as configured where calls do not
\* overlap (continue_flow, cancel_flow, add_configured).
AuthInv == TypeOK /\ FlowUsedOnce /\ CancelIsFinal /\ RegisteredAsConfigured
=============================================================================
