------------------------- MODULE AuthManagerProofs -------------------------
(***************************************************************************)
(* The invariants of the authentication manager, for any number of calls,  *)
(* users and accounts and any starts.                                      *)
(***************************************************************************)
EXTENDS AuthManager, FiniteSetTheorems, TLAPS

Token == "minecraft_access"

States == {"none", "offline", "browser", "credentials", "two_factor"}

\* What the first k calls may have obtained: an official session has a Minecraft token.
SessionsBy(k) ==
    {s \in [account : Accounts, refreshable : BOOLEAN, life : Nat, tokens : [Names -> 0..k]] :
        Official(s.account) => s.tokens[Token] # 0}

Entry == [account : Accounts, refreshable : BOOLEAN, life : Nat]

Documents == [accounts : (SUBSET Entry) \cup {Missing}, providers : (SUBSET Configurable) \cup {Missing}]

Saving == {"write", "check", "remove", "rename"}

Calls ==
    [op : {"login", "refresh", "launch", "logout", "add", "remove"},
     want : {"begin", "continue", "refresh", "verify", "logout", "add", "remove"},
     pc : {"call", "secrets", "forget", "snapshot"} \cup Saving,
     provider : Kinds, account : Accounts \cup {<<>>}, flow : 0..MaxCalls, state : States,
     response : Responses \cup {"none"}, session : SessionsBy(MaxCalls) \cup {<<>>},
     todo : SUBSET Names, doc : (SUBSET Entry) \cup (SUBSET Configurable) \cup {Missing},
     serial : 1..MaxCalls]

Configures(c) == c.op \in {"add", "remove"}

\* The call works on a session.
HasSession(c) == c.op \in {"refresh", "launch", "logout"} \/ (c.op = "login" /\ c.pc # "call")

\* What a call at its label carries, when k calls have been made and the secrets of the
\* accounts in gone are being deleted.
CallShape(c, k, gone) ==
    /\ c \in Calls
    /\ c.serial <= k
    /\ c.flow <= k
    /\ Configures(c) => /\ c.pc \in Saving
                        /\ c.want = c.op
                        /\ c.doc \in SUBSET Configurable
                        /\ c.provider \in Configurable
    /\ ~ Configures(c) /\ c.pc \in Saving => c.doc \in SUBSET Entry
    /\ c.op = "login" => c.want \in {"begin", "continue"} /\ c.pc # "forget"
    /\ c.op = "refresh" => c.want = "refresh" /\ c.pc # "forget"
    /\ c.op = "launch" => c.want \in {"refresh", "verify"} /\ c.pc # "forget"
    /\ c.op = "logout" => c.want = "logout" /\ c.pc # "secrets"
    /\ c.op \in {"refresh", "launch", "logout"} => c.account \in Accounts
    /\ HasSession(c) => /\ c.session \in SessionsBy(k)
                        /\ c.op # "login" => c.session.account = c.account
    /\ c.op = "logout" /\ c.pc # "call" => c.account \in gone
    /\ c.pc = "secrets" => \A n \in c.todo : c.session.tokens[n] # 0

StoresShape ==
    /\ callers \in Nat
    /\ calls \in 0..MaxCalls
    /\ providers \subseteq Kinds
    /\ sessions \in [Accounts -> SessionsBy(calls) \cup {NoSession}]
    /\ \A a \in Accounts : sessions[a] # NoSession => sessions[a].account = a
    /\ vault \in [Accounts -> [Names -> 0..calls]]
    /\ file \in Documents
    /\ tmp \in Documents
    /\ leaving \subseteq Accounts
    /\ out \subseteq Accounts

TasksShape ==
    /\ up \in BOOLEAN
    /\ task = [t \in Tasks |-> task[t]]
    /\ \A t \in Tasks : task[t] = Idle \/ CallShape(task[t], calls, leaving)
    /\ ~ up => Running = {}

Shape == StoresShape /\ TasksShape

\* Flows and running calls never share a number, so that a flow state reaches a
\* provider once and a cancelled flow is nobody's.
FlowsApart ==
    /\ flows = [f \in DOMAIN flows |-> flows[f]]
    /\ DOMAIN flows \subseteq 1..calls
    /\ \A f \in DOMAIN flows :
        /\ flows[f] \in [provider : Kinds, state : States, serial : 1..calls]
        /\ handed[flows[f].serial] = 0
        /\ f \notin cancelled
        /\ \A g \in DOMAIN flows : flows[f].serial = flows[g].serial => f = g
    /\ handed \in [1..MaxCalls -> Nat]
    /\ \A n \in 1..MaxCalls : handed[n] <= 1 /\ (n > calls => handed[n] = 0)
    /\ cancelled \subseteq 1..calls

CallApart(t) ==
    task[t] # Idle =>
        /\ handed[task[t].serial] = 0
        /\ task[t].serial \notin DOMAIN flows \cup cancelled
        /\ \A f \in DOMAIN flows : flows[f].serial # task[t].serial
        /\ task[t].flow \notin DOMAIN flows \cup cancelled
        /\ \A u \in Running :
            /\ task[u].flow # task[t].serial
            /\ u # t => /\ task[u].serial # task[t].serial
                        /\ task[t].flow # 0 => task[u].flow # task[t].flow

\* The call writes, or is about to write, accounts.json.
SavesAccounts(c) == ~ Configures(c) /\ c.pc \in Saving

\* The metadata of a session is in memory, on disk, in the temporary, or in what a call is
\* about to write.
Noted(s) ==
    \/ \E a \in Accounts : sessions[a] # NoSession /\ s = Persisted(sessions[a])
    \/ file.accounts # Missing /\ s \in file.accounts
    \/ tmp.accounts # Missing /\ s \in tmp.accounts
    \/ \E t \in Running : SavesAccounts(task[t]) /\ s \in task[t].doc

\* The account is official and no logout has begun to delete its secrets.
Counts(a) == Official(a) /\ a \notin leaving

\* An official account that is noted anywhere has its Minecraft token in the vault, and so
\* has one whose session is about to enter the map.
TokensKept ==
    /\ \A s \in Entry : Noted(s) /\ Counts(s.account) => vault[s.account][Token] # 0
    /\ \A t \in Tasks : task[t].pc = "secrets" /\ Counts(task[t].session.account) =>
          Token \in task[t].todo \/ vault[task[t].session.account][Token] # 0

\* The application runs one call at a time, and that call is the newest.
OneCall == \A t \in Running : task[t].serial = calls /\ \A u \in Running : u = t

\* No token that is stored, kept in memory or about to be stored is older than what is
\* noted of its account.
TokensFresh ==
    /\ \A s \in Entry : Noted(s) /\ Counts(s.account) =>
        /\ s.life <= vault[s.account][Token]
        /\ sessions[s.account] # NoSession => s.life <= sessions[s.account].tokens[Token]
        /\ \A t \in Running : HasSession(task[t]) /\ task[t].session.account = s.account =>
              s.life <= task[t].session.tokens[Token]
    /\ \A t \in Running : HasSession(task[t]) /\ Counts(task[t].session.account) =>
        /\ task[t].session.life <= task[t].session.tokens[Token]
        /\ task[t].pc = "secrets" =>
              \/ Token \in task[t].todo
              \/ vault[task[t].session.account][Token] = task[t].session.tokens[Token]

\* Nothing is left of an account that logged out, and the call that runs brings nothing back.
OutForgotten ==
    \A a \in out :
        /\ sessions[a] = NoSession
        /\ a \notin Listed(file.accounts)
        /\ \A n \in Names : vault[a][n] = 0
        /\ \A t \in Running :
            /\ HasSession(task[t]) => task[t].op = "logout" \/ task[t].session.account # a
            /\ SavesAccounts(task[t]) => a \notin Listed(task[t].doc)

\* How far a logout has come, and that the temporary is the one the call has written.
LogoutForgets(t) ==
    LET c == task[t] IN
    /\ c.op = "logout" /\ c.pc # "call" =>
        /\ sessions[c.account] = NoSession
        /\ \A n \in Names : vault[c.account][n] = 0 \/ (c.pc = "forget" /\ n \in c.todo)
        /\ c.pc \in Saving => c.account \notin Listed(c.doc)
    /\ c.pc \in {"check", "remove", "rename"} => tmp[Name(c)] = c.doc

\* The registered providers are those of the file, or of the change that is being saved,
\* until a call ends between the two.
Configured ==
    up /\ ~ torn =>
        /\ (\A t \in Running : Configures(task[t]) => task[t].pc # "rename")
              => providers = Registry \cup {Offline}
        /\ \A t \in Running : Configures(task[t]) =>
              LET c == task[t] IN
              /\ c.pc # "rename" =>
                    c.doc = IF c.op = "add" THEN Registry \cup {c.provider}
                            ELSE Registry \ {c.provider}
              /\ c.pc = "rename" => Registered(c) = c.doc \cup {Offline}

\* What holds when calls do not overlap.
Solo ==
    /\ OneCall
    /\ TokensFresh
    /\ OutForgotten
    /\ \A t \in Running : LogoutForgets(t)
    /\ Configured

IInv ==
    /\ Shape
    /\ FlowsApart
    /\ \A t \in Tasks : CallApart(t)
    /\ TokensKept
    /\ callers = 1 => Solo

-----------------------------------------------------------------------------
(***************************************************************************)
(* Sessions.                                                               *)
(***************************************************************************)
LEMMA NamesAre == Names = {"provider_access", "provider_refresh", "device_secret", Token}
BY DEF Names, SecretNames, Token

LEMMA SessionsGrow ==
    ASSUME NEW k \in Nat, NEW m \in Nat, k <= m
    PROVE  SessionsBy(k) \subseteq SessionsBy(m)
<1>1. ASSUME NEW s \in SessionsBy(k) PROVE s \in SessionsBy(m)
  <2>1. s.tokens \in [Names -> 0..m]
    BY <1>1 DEF SessionsBy
  <2> QED BY <1>1, <2>1 DEF SessionsBy
<1> QED BY <1>1

\* What a provider makes of an answer is a session of the account, with a token.
LEMMA SessionMade ==
    ASSUME NEW kind \in Kinds, NEW u \in Users, <<kind, u>> \in Accounts,
           NEW r \in BOOLEAN, NEW k \in Nat, NEW g \in 0..k, kind = "microsoft" => g # 0
    PROVE  LET s == Session(kind, u, r, g) IN
           /\ s \in SessionsBy(k)
           /\ s.account = <<kind, u>>
           /\ kind = "microsoft" => s.life = g /\ s.tokens[Token] = g
<1> DEFINE s == Session(kind, u, r, g)
<1>1. s.tokens \in [Names -> 0..k]
  BY DEF Session
<1>2. s.life \in Nat /\ s.account = <<kind, u>> /\ s.refreshable = r
  BY DEF Session
<1>3. kind = "microsoft" => s.tokens[Token] = g /\ s.life = g
  BY NamesAre DEF Session, Held, Offline, Token
<1>4. Official(s.account) => s.tokens[Token] # 0
  BY <1>2, <1>3 DEF Official
<1>5. s \in [account : Accounts, refreshable : BOOLEAN, life : Nat, tokens : [Names -> 0..k]]
  BY <1>1, <1>2 DEF Session
<1> QED BY <1>2, <1>3, <1>4, <1>5 DEF SessionsBy

\* The steps a provider may return to a call: an error, a challenge, the session it was
\* given, or a session of a known account numbered by the call.
Returned(step, c) ==
    \/ step = Failed
    \/ \E state \in States : step = Challenge(state)
    \/ HasSession(c) /\ step = Authenticated(c.session)
    \/ \E kind \in Kinds : \E u \in Known(kind), r \in BOOLEAN, g \in {0, c.serial} :
          (kind = "microsoft" => g = c.serial) /\ step = Authenticated(Session(kind, u, r, g))

LEMMA OfflineReturns ==
    ASSUME NEW c, NEW step \in OfflineSession PROVE Returned(step, c)
BY DEF OfflineSession, Returned, Kinds, Offline, Configurable

LEMMA ChainReturns ==
    ASSUME NEW c, NEW step \in CreateSession(c.serial) PROVE Returned(step, c)
<1>1. CASE step = Failed
  BY <1>1 DEF Returned
<1>2. CASE step # Failed
  <2>1. PICK a \in ChainAnswers : /\ ChainAccepts(a)
            /\ step = Authenticated(Session("microsoft", a.xbox, a.oauth = "token_and_refresh", c.serial))
    BY <1>2 DEF CreateSession
  <2>2. a.xbox \in Known("microsoft")
    BY <2>1 DEF ChainAnswers, ChainAccepts
  <2>3. PICK r \in BOOLEAN : r = (a.oauth = "token_and_refresh")
    OBVIOUS
  <2>4. step = Authenticated(Session("microsoft", a.xbox, r, c.serial))
    BY <2>1, <2>3
  <2> QED BY <2>2, <2>4 DEF Returned, Kinds, Configurable
<1> QED BY <1>1, <1>2

LEMMA HttpReturns ==
    ASSUME NEW c, NEW step \in HttpLogin(c.serial) PROVE Returned(step, c)
BY DEF HttpLogin, Returned, Kinds, Configurable, States

LEMMA AzuriomReturns ==
    ASSUME NEW c, NEW fresh \in BOOLEAN, NEW step \in AzuriomLogin(fresh, c.serial)
    PROVE  Returned(step, c)
BY DEF AzuriomLogin, Returned, Kinds, Configurable, States

LEMMA StepsReturn ==
    ASSUME NEW k \in Nat, NEW gone, NEW c, CallShape(c, k, gone), c.pc = "call", NEW step \in Steps(c)
    PROVE  Returned(step, c)
<1> USE DEF Configurable, Kinds, Offline
<1>0. /\ c.want \in {"begin", "continue", "refresh", "verify", "logout"}
      /\ c.provider \in Kinds
      /\ c.want \in {"refresh", "verify", "logout"} =>
            HasSession(c) /\ c.session.account[1] \in Kinds
  BY AccountsAssumption DEF CallShape, Calls, Configures, HasSession, Saving, SessionsBy
<1>1. CASE c.want = "begin"
  <2>1. step \in BeginSteps(c.provider)
    BY <1>1 DEF Steps
  <2> QED BY <2>1, OfflineReturns
        DEF BeginSteps, OfflineBegin, MicrosoftBegin, CredentialsBegin, Returned, States
<1>2. CASE c.want = "continue"
  <2>1. step \in ContinueSteps(c.provider, c.state, c.response, c.serial)
    BY <1>2 DEF Steps
  <2>2. CASE c.provider = "azuriom"
    <3>1. PICK fresh \in BOOLEAN : fresh = (c.state = "credentials")
      OBVIOUS
    <3> QED BY <2>1, <2>2, <3>1, AzuriomReturns DEF ContinueSteps, AzuriomContinue, Returned
  <2>3. CASE c.provider = Offline
    BY <2>1, <2>3, OfflineReturns DEF ContinueSteps, OfflineContinue, Returned
  <2>4. CASE c.provider = "microsoft"
    BY <2>1, <2>4, ChainReturns DEF ContinueSteps, MicrosoftContinue, Returned
  <2>5. CASE c.provider = "http"
    BY <2>1, <2>5, HttpReturns DEF ContinueSteps, HttpContinue, Returned
  <2> QED BY <1>0, <2>2, <2>3, <2>4, <2>5
<1>3. CASE c.want = "refresh"
  <2>1. step \in RefreshSteps(c.session, c.serial)
    BY <1>3 DEF Steps
  <2> QED BY <1>0, <1>3, <2>1, ChainReturns, HttpReturns
        DEF RefreshSteps, OfflineRefresh, MicrosoftRefresh, AzuriomRefresh, HttpRefresh, Returned
<1>4. CASE c.want = "verify"
  <2>1. step \in VerifySteps(c.session, c.serial)
    BY <1>4 DEF Steps
  <2> QED BY <1>0, <1>4, <2>1, AzuriomReturns, HttpReturns
        DEF VerifySteps, OfflineVerify, MicrosoftVerify, AzuriomVerify, HttpVerify, Returned
<1>5. CASE c.want = "logout"
  <2>1. step \in LogoutSteps(c.session)
    BY <1>5 DEF Steps
  <2> QED BY <1>0, <1>5, <2>1
        DEF LogoutSteps, LocalLogout, AzuriomLogout, HttpLogout, Returned
<1> QED BY <1>0, <1>1, <1>2, <1>3, <1>4, <1>5

\* What the manager may rely on in an answer.
LEMMA AnswersFit ==
    ASSUME NEW k \in Nat, NEW gone, NEW c, CallShape(c, k, gone), c.pc = "call", NEW step \in Steps(c)
    PROVE  /\ step.step = "challenge" => step.state \in States
           /\ step.step = "session" =>
                /\ step.session \in SessionsBy(k)
                /\ Official(step.session.account) =>
                    \/ HasSession(c) /\ step.session = c.session
                    \/ step.session.life = c.serial /\ step.session.tokens[Token] = c.serial
<1>1. Returned(step, c)
  BY StepsReturn
<1>2. CASE step = Failed
  BY <1>2 DEF Failed
<1>3. CASE \E state \in States : step = Challenge(state)
  BY <1>3 DEF Challenge
<1>4. CASE HasSession(c) /\ step = Authenticated(c.session)
  BY <1>4 DEF Authenticated, CallShape
<1>5. CASE \E kind \in Kinds : \E u \in Known(kind), r \in BOOLEAN, g \in {0, c.serial} :
              (kind = "microsoft" => g = c.serial) /\ step = Authenticated(Session(kind, u, r, g))
  <2>0. PICK kind \in Kinds : \E u \in Known(kind), r \in BOOLEAN, g \in {0, c.serial} :
              (kind = "microsoft" => g = c.serial) /\ step = Authenticated(Session(kind, u, r, g))
    BY <1>5
  <2>1. PICK u \in Known(kind), r \in BOOLEAN, g \in {0, c.serial} :
              (kind = "microsoft" => g = c.serial) /\ step = Authenticated(Session(kind, u, r, g))
    BY <2>0
  <2>2. u \in Users /\ <<kind, u>> \in Accounts
    BY DEF Known
  <2>3. g \in 0..k /\ (kind = "microsoft" => g # 0)
    BY <2>1 DEF CallShape, Calls
  <2>4. LET s == Session(kind, u, r, g) IN
           /\ s \in SessionsBy(k)
           /\ s.account = <<kind, u>>
           /\ kind = "microsoft" => s.life = g /\ s.tokens[Token] = g
    BY <2>2, <2>3, SessionMade
  <2> QED BY <2>1, <2>4 DEF Authenticated, Official
<1> QED BY <1>1, <1>2, <1>3, <1>4, <1>5 DEF Returned

-----------------------------------------------------------------------------
(***************************************************************************)
(* The shape of the state.                                                 *)
(***************************************************************************)
LEMMA CallsGrow ==
    ASSUME NEW k \in Nat, NEW m \in Nat, k <= m, NEW gone, NEW more, gone \subseteq more,
           NEW c, CallShape(c, k, gone)
    PROVE  CallShape(c, m, more)
<1>1. HasSession(c) => c.session \in SessionsBy(m)
  BY SessionsGrow DEF CallShape
<1>2. c.serial <= m /\ c.flow <= m
  BY DEF CallShape, Calls
<1> QED BY <1>1, <1>2 DEF CallShape

LEMMA StoresGrow ==
    ASSUME StoresShape, calls' \in 0..MaxCalls, calls <= calls', sessions' = sessions, vault' = vault
    PROVE  /\ sessions' \in [Accounts -> SessionsBy(calls') \cup {NoSession}]
           /\ \A a \in Accounts : sessions'[a] # NoSession => sessions'[a].account = a
           /\ vault' \in [Accounts -> [Names -> 0..calls']]
<1>0. calls \in Nat /\ calls' \in Nat
  BY AuthAssumption DEF StoresShape
<1>1. SessionsBy(calls) \subseteq SessionsBy(calls')
  BY <1>0, SessionsGrow
<1>2. \A a \in Accounts : vault[a] \in [Names -> 0..calls']
  BY <1>0 DEF StoresShape
<1> QED BY <1>1, <1>2 DEF StoresShape

\* One call changes, the others keep their shape.
LEMMA TaskChanged ==
    ASSUME Shape, up, up' = up, calls' \in 0..MaxCalls, calls <= calls', leaving \subseteq leaving',
           NEW t \in Tasks, NEW X, X = Idle \/ CallShape(X, calls', leaving'),
           task' = [task EXCEPT ![t] = X]
    PROVE  TasksShape'
<1>0. calls \in Nat /\ calls' \in Nat
  BY AuthAssumption DEF Shape, StoresShape
<1>1. ASSUME NEW u \in Tasks PROVE task'[u] = Idle \/ CallShape(task'[u], calls', leaving')
  <2>1. CASE u = t
    BY <2>1 DEF Shape, TasksShape
  <2>2. CASE u # t
    <3>1. task'[u] = task[u]
      BY <2>2 DEF Shape, TasksShape
    <3> QED BY <3>1, <1>0, CallsGrow DEF Shape, TasksShape
  <2> QED BY <2>1, <2>2
<1>2. task' = [u \in Tasks |-> task'[u]]
  BY DEF Shape, TasksShape
<1> QED BY <1>1, <1>2 DEF TasksShape, Shape

\* No call changes.
LEMMA TasksKept ==
    ASSUME Shape, up' = up, calls' \in 0..MaxCalls, calls <= calls', leaving \subseteq leaving',
           task' = task
    PROVE  TasksShape'
<1>0. calls \in Nat /\ calls' \in Nat
  BY AuthAssumption DEF Shape, StoresShape
<1>1. ASSUME NEW u \in Tasks PROVE task'[u] = Idle \/ CallShape(task'[u], calls', leaving')
  BY <1>0, CallsGrow DEF Shape, TasksShape
<1> QED BY <1>1 DEF TasksShape, Shape, Running

\* The call as each operation starts it.
LEMMA CallStarts ==
    ASSUME Shape, calls < MaxCalls, NEW p \in Kinds
    PROVE  /\ CallShape(Call("login", "begin", p, <<>>, 0, "none", "none", <<>>), calls + 1, leaving)
           /\ \A f \in 1..calls, state \in States, response \in Responses :
                CallShape(Call("login", "continue", p, <<>>, f, state, response, <<>>), calls + 1, leaving)
           /\ \A a \in Accounts : sessions[a] # NoSession =>
                /\ CallShape(Call("refresh", "refresh", p, a, 0, "none", "none", sessions[a]), calls + 1, leaving)
                /\ CallShape(Call("launch", "verify", p, a, 0, "none", "none", sessions[a]), calls + 1, leaving)
                /\ CallShape(Call("launch", "refresh", p, a, 0, "none", "none", sessions[a]), calls + 1, leaving)
                /\ CallShape(Call("logout", "logout", p, a, 0, "none", "none", sessions[a]), calls + 1, leaving)
<1>0. /\ calls \in Nat /\ calls + 1 \in 1..MaxCalls /\ MaxCalls \in Nat
      /\ SessionsBy(calls) \subseteq SessionsBy(calls + 1)
      /\ SessionsBy(calls + 1) \subseteq SessionsBy(MaxCalls)
  BY AuthAssumption, SessionsGrow DEF Shape, StoresShape
<1>1. CallShape(Call("login", "begin", p, <<>>, 0, "none", "none", <<>>), calls + 1, leaving)
  BY <1>0 DEF CallShape, Call, Calls, HasSession, Configures, Saving, States
<1>2. ASSUME NEW f \in 1..calls, NEW state \in States, NEW response \in Responses
      PROVE  CallShape(Call("login", "continue", p, <<>>, f, state, response, <<>>), calls + 1, leaving)
  BY <1>0 DEF CallShape, Call, Calls, HasSession, Configures, Saving
<1>3. ASSUME NEW a \in Accounts, sessions[a] # NoSession
      PROVE  /\ sessions[a] \in SessionsBy(calls + 1)
             /\ sessions[a] \in SessionsBy(MaxCalls)
             /\ sessions[a].account = a
  BY <1>0, <1>3 DEF Shape, StoresShape
<1>4. ASSUME NEW a \in Accounts, sessions[a] # NoSession,
             NEW op \in {"refresh", "launch", "logout"}, NEW want \in {"refresh", "verify", "logout"},
             op = "refresh" => want = "refresh", op = "launch" => want # "logout",
             op = "logout" => want = "logout"
      PROVE  CallShape(Call(op, want, p, a, 0, "none", "none", sessions[a]), calls + 1, leaving)
  <2>1. PICK s : s = sessions[a]
    OBVIOUS
  <2>2. s \in SessionsBy(calls + 1) /\ s \in SessionsBy(MaxCalls) /\ s.account = a
    BY <1>3, <1>4, <2>1
  <2>3. CallShape(Call(op, want, p, a, 0, "none", "none", s), calls + 1, leaving)
    BY <1>0, <1>4, <2>2 DEF CallShape, Call, Calls, HasSession, Configures, Saving, States
  <2> QED BY <2>1, <2>3
<1>5. ASSUME NEW a \in Accounts, sessions[a] # NoSession
      PROVE  /\ CallShape(Call("refresh", "refresh", p, a, 0, "none", "none", sessions[a]), calls + 1, leaving)
             /\ CallShape(Call("launch", "verify", p, a, 0, "none", "none", sessions[a]), calls + 1, leaving)
             /\ CallShape(Call("launch", "refresh", p, a, 0, "none", "none", sessions[a]), calls + 1, leaving)
             /\ CallShape(Call("logout", "logout", p, a, 0, "none", "none", sessions[a]), calls + 1, leaving)
  BY <1>4, <1>5
<1> QED BY <1>1, <1>2, <1>5

LEMMA StoresKept ==
    ASSUME StoresShape, calls' \in 0..MaxCalls, calls <= calls',
           UNCHANGED <<callers, providers, sessions, vault, file, tmp, out, leaving>>
    PROVE  StoresShape'
BY StoresGrow DEF StoresShape

\* A call in flight has a shape of its own, which Idle has not.
LEMMA InFlight ==
    ASSUME Shape, NEW t \in Tasks, task[t].pc # "idle"
    PROVE  CallShape(task[t], calls, leaving) /\ task[t] # Idle
BY DEF Shape, TasksShape, Idle

\* The application makes a call.
Starts(t) ==
    \/ \E p \in Kinds : Begin(t, p)
    \/ \E f \in DOMAIN flows, r \in Responses : Continue(t, f, r)
    \/ \E f \in 1..MaxCalls : CancelFlow(t, f)
    \/ \E a \in Accounts : Refresh(t, a) \/ IdentityForLaunch(t, a) \/ Logout(t, a)
    \/ \E p \in Configurable : Configure(t, p)

\* Only call t has changed.
OnlyTask(t) == \A u \in Tasks \ {t} : task'[u] = task[u]

\* The call that has just been made.
Fresh(t) ==
    /\ CallShape(task'[t], calls + 1, leaving)
    /\ task'[t].serial = calls + 1
    /\ task'[t].pc = IF Configures(task'[t]) THEN "write" ELSE "call"
    /\ Configures(task'[t]) =>
          task'[t].doc = IF task'[t].op = "add" THEN Registry \cup {task'[t].provider}
                         ELSE Registry \ {task'[t].provider}
    /\ HasSession(task'[t]) => /\ sessions[task'[t].account] # NoSession
                               /\ task'[t].session = sessions[task'[t].account]

\* Flows are only taken out, and the one that is continued reaches its provider.
FlowsTaken(t) ==
    /\ flows' = [f \in DOMAIN flows' |-> flows[f]] /\ DOMAIN flows' \subseteq DOMAIN flows
    /\ \/ handed' = handed /\ cancelled' = cancelled /\ (task'[t] # Idle => task'[t].flow = 0)
       \/ \E f \in DOMAIN flows \ DOMAIN flows' :
            \/ handed' = handed /\ cancelled' = cancelled \cup {f} /\ task'[t] = Idle
            \/ /\ handed' = [handed EXCEPT ![flows[f].serial] = @ + 1]
               /\ cancelled' = cancelled /\ task'[t] # Idle /\ task'[t].flow = f

LEMMA StartsFacts ==
    ASSUME Shape, FlowsApart, NEW t \in Tasks, Starts(t)
    PROVE  /\ Shape'
           /\ up /\ Cardinality(Running) < callers /\ task[t] = Idle
           /\ calls' = calls + 1 /\ calls < MaxCalls
           /\ UNCHANGED <<up, callers, providers, sessions, vault, disk, out, leaving>>
           /\ OnlyTask(t)
           /\ task'[t] = Idle \/ Fresh(t)
           /\ FlowsTaken(t)
<1>0. /\ calls' = calls + 1 /\ calls < MaxCalls /\ up /\ up' = up
      /\ Cardinality(Running) < callers /\ task[t] = Idle
      /\ UNCHANGED <<callers, providers, sessions, vault, file, tmp, out, leaving>>
  BY DEF Starts, Begin, Continue, CancelFlow, Refresh, IdentityForLaunch, Logout, Configure, Free,
         disk, memory, history
<1>1. /\ calls \in Nat /\ calls' \in 0..MaxCalls /\ calls <= calls' /\ leaving \subseteq leaving'
      /\ MaxCalls \in Nat
  BY <1>0, AuthAssumption DEF Shape, StoresShape
<1>2. StoresShape'
  BY <1>0, <1>1, StoresKept DEF Shape
<1>3. ASSUME NEW X, X = Idle \/ CallShape(X, calls + 1, leaving),
             task' = [task EXCEPT ![t] = X]
      PROVE  TasksShape' /\ task'[t] = X /\ OnlyTask(t)
  BY <1>0, <1>1, <1>3, TaskChanged DEF Shape, TasksShape, OnlyTask
<1>4. task' = task => TasksShape' /\ task'[t] = Idle /\ OnlyTask(t)
  BY <1>0, <1>1, TasksKept DEF OnlyTask
<1>6. flows = [f \in DOMAIN flows |-> flows[f]]
  BY DEF FlowsApart
<1> DEFINE Good == TasksShape' /\ OnlyTask(t) /\ (task'[t] = Idle \/ Fresh(t)) /\ FlowsTaken(t)
<1>5. \A a \in Accounts : a[1] \in Kinds
  BY AccountsAssumption
<1>7. ASSUME UNCHANGED <<flows, handed, cancelled>>, task'[t] # Idle => task'[t].flow = 0
      PROVE  FlowsTaken(t)
  BY <1>6, <1>7 DEF FlowsTaken
<1>a. ASSUME NEW p \in Kinds, Begin(t, p) PROVE Good
  <2>1. PICK X : X = Call("login", "begin", p, <<>>, 0, "none", "none", <<>>)
    OBVIOUS
  <2>2. CallShape(X, calls + 1, leaving)
    BY <1>0, <2>1, CallStarts
  <2>3. X.op = "login" /\ X.pc = "call" /\ X.serial = calls + 1 /\ X.flow = 0
    BY <2>1 DEF Call
  <2>4. TasksShape' /\ OnlyTask(t) /\ (task'[t] = Idle \/ task'[t] = X)
    BY <1>3, <1>4, <1>a, <2>1, <2>2 DEF Begin
  <2>5. FlowsTaken(t)
    <3>1. PICK expired \in SUBSET DOMAIN flows : flows' = Without(flows, expired)
      BY <1>a DEF Begin
    <3>2. flows' = [f \in DOMAIN flows' |-> flows[f]] /\ DOMAIN flows' \subseteq DOMAIN flows
      BY <3>1 DEF Without
    <3> QED BY <1>a, <2>3, <2>4, <3>2 DEF FlowsTaken, Begin, history
  <2> QED BY <2>2, <2>3, <2>4, <2>5 DEF Fresh, Configures, HasSession
<1>b. ASSUME NEW f \in DOMAIN flows, NEW r \in Responses, Continue(t, f, r) PROVE Good
  <2>0. f \in 1..calls /\ flows[f].provider \in Kinds /\ flows[f].state \in States
    BY DEF FlowsApart
  <2>1. PICK X : X = Call("login", "continue", flows[f].provider, <<>>, f, flows[f].state, r, <<>>)
    OBVIOUS
  <2>2. CallShape(X, calls + 1, leaving)
    BY <1>0, <2>0, <2>1, CallStarts
  <2>3. X.op = "login" /\ X.pc = "call" /\ X.serial = calls + 1 /\ X.flow = f /\ X # Idle
    BY <2>1 DEF Call, Idle
  <2>4. flows' = [g \in DOMAIN flows' |-> flows[g]] /\ DOMAIN flows' = DOMAIN flows \ {f}
    BY <1>b DEF Continue, TakeFlow, Without
  <2>5. CASE task' = task
    <3>1. handed' = handed /\ cancelled' = cancelled
      BY <1>b, <2>5 DEF Continue
    <3> QED BY <1>4, <2>4, <2>5, <3>1 DEF FlowsTaken
  <2>6. CASE task' # task
    <3>1. /\ task' = [task EXCEPT ![t] = X] /\ cancelled' = cancelled
          /\ handed' = [handed EXCEPT ![flows[f].serial] = @ + 1]
      BY <1>b, <2>1, <2>6 DEF Continue
    <3>2. TasksShape' /\ OnlyTask(t) /\ task'[t] = X
      BY <1>3, <2>2, <3>1
    <3>3. FlowsTaken(t)
      BY <2>3, <2>4, <3>1, <3>2 DEF FlowsTaken
    <3> QED BY <2>2, <2>3, <3>2, <3>3 DEF Fresh, Configures, HasSession
  <2> QED BY <2>5, <2>6
<1>c. ASSUME NEW f \in 1..MaxCalls, CancelFlow(t, f) PROVE Good
  <2>1. /\ f \in DOMAIN flows /\ task' = task /\ cancelled' = cancelled \cup {f} /\ handed' = handed
        /\ flows' = [g \in DOMAIN flows' |-> flows[g]] /\ DOMAIN flows' = DOMAIN flows \ {f}
    BY <1>c DEF CancelFlow, CancelFinds, Without
  <2> QED BY <1>4, <2>1 DEF FlowsTaken
<1>8. ASSUME NEW a \in Accounts, sessions[a] # NoSession, UNCHANGED <<flows, handed, cancelled>>,
             NEW X, \/ X = Call("refresh", "refresh", a[1], a, 0, "none", "none", sessions[a])
                    \/ X = Call("launch", "verify", a[1], a, 0, "none", "none", sessions[a])
                    \/ X = Call("launch", "refresh", a[1], a, 0, "none", "none", sessions[a])
                    \/ X = Call("logout", "logout", a[1], a, 0, "none", "none", sessions[a]),
             task' = [task EXCEPT ![t] = X]
      PROVE  Good
  <2>1. CallShape(X, calls + 1, leaving)
    BY <1>0, <1>5, <1>8, CallStarts
  <2>2. /\ X.pc = "call" /\ X.serial = calls + 1 /\ X.flow = 0 /\ X.account = a
        /\ X.session = sessions[a] /\ X.op \in {"refresh", "launch", "logout"}
    BY <1>8 DEF Call
  <2>3. TasksShape' /\ OnlyTask(t) /\ task'[t] = X
    BY <1>3, <1>8, <2>1
  <2>4. FlowsTaken(t)
    BY <1>7, <1>8, <2>2, <2>3
  <2> QED BY <1>8, <2>1, <2>2, <2>3, <2>4 DEF Fresh, Configures
<1>d. ASSUME NEW a \in Accounts, Refresh(t, a) \/ IdentityForLaunch(t, a) \/ Logout(t, a) PROVE Good
  <2>1. sessions[a] # NoSession /\ UNCHANGED <<flows, handed, cancelled>>
    BY <1>d DEF Refresh, IdentityForLaunch, Logout, memory, history
  <2>2. \E X : /\ \/ X = Call("refresh", "refresh", a[1], a, 0, "none", "none", sessions[a])
                  \/ X = Call("launch", "verify", a[1], a, 0, "none", "none", sessions[a])
                  \/ X = Call("launch", "refresh", a[1], a, 0, "none", "none", sessions[a])
                  \/ X = Call("logout", "logout", a[1], a, 0, "none", "none", sessions[a])
               /\ task' = [task EXCEPT ![t] = X]
    BY <1>d DEF Refresh, IdentityForLaunch, Logout
  <2> QED BY <1>8, <2>1, <2>2
<1>g. ASSUME NEW p \in Configurable, Configure(t, p) PROVE Good
  <2>1. Registry \subseteq Configurable
    BY DEF Shape, StoresShape, Documents, Registry
  <2>2. PICK op \in {"add", "remove"}, doc \in SUBSET Configurable :
            /\ doc = IF op = "add" THEN Registry \cup {p} ELSE Registry \ {p}
            /\ task' = [task EXCEPT ![t] = [Call(op, op, p, <<>>, 0, "none", "none", <<>>) EXCEPT
                                            !.pc = "write", !.doc = doc]]
    BY <1>g, <2>1 DEF Configure
  <2>3. PICK X : X = [Call(op, op, p, <<>>, 0, "none", "none", <<>>) EXCEPT !.pc = "write", !.doc = doc]
    OBVIOUS
  <2>4. X = [op |-> op, want |-> op, pc |-> "write", provider |-> p, account |-> <<>>, flow |-> 0,
             state |-> "none", response |-> "none", session |-> <<>>, todo |-> {}, doc |-> doc,
             serial |-> calls + 1]
    BY <2>3 DEF Call
  <2>5. CallShape(X, calls + 1, leaving)
    BY <1>0, <1>1, <2>4 DEF CallShape, Calls, HasSession, Configures, Saving, States, Kinds
  <2>6. /\ X.op = op /\ X.pc = "write" /\ X.provider = p /\ X.flow = 0 /\ X.doc = doc
        /\ X.serial = calls + 1
    BY <2>4
  <2>7. TasksShape' /\ OnlyTask(t) /\ task'[t] = X
    BY <1>3, <2>2, <2>3, <2>5
  <2>8. UNCHANGED <<flows, handed, cancelled>>
    BY <1>g DEF Configure, memory, history
  <2>9. FlowsTaken(t)
    BY <1>7, <2>6, <2>7, <2>8
  <2> QED BY <2>2, <2>5, <2>6, <2>7, <2>9 DEF Fresh, Configures, HasSession
<1>h. Good
  BY <1>a, <1>b, <1>c, <1>d, <1>g DEF Starts
<1> QED BY <1>0, <1>2, <1>h DEF Shape, disk

\* X is the call c at another label: what it is about has not changed.
Moved(c, X) ==
    /\ X \in Calls
    /\ X.op = c.op /\ X.provider = c.provider /\ X.account = c.account /\ X.flow = c.flow
    /\ X.state = c.state /\ X.response = c.response /\ X.session = c.session
    /\ X.serial = c.serial

Labels == {"call", "secrets", "forget", "snapshot"} \cup Saving


\* The answers: a challenge opens the flow again or opens one under the call's number, an
\* error ends the call, a session is about to be stored, a logout starts to delete.
OpensFlow(t) ==
    \E id \in {task[t].serial, task[t].flow} \ {0}, state \in States :
        /\ id = IF task[t].flow = 0 THEN task[t].serial ELSE task[t].flow
        /\ flows' = [g \in DOMAIN flows \cup {id} |->
               IF g = id THEN [provider |-> task[t].provider, state |-> state, serial |-> task[t].serial]
               ELSE flows[g]]

AnswerEnds(t) ==
    /\ task'[t] = Idle
    /\ UNCHANGED <<sessions, out, leaving>>
    /\ flows' = flows \/ OpensFlow(t)

SessionComes(t) ==
    LET c == task[t]
        d == task'[t]
    IN  /\ d.op = c.op /\ d.want = c.want /\ d.account = c.account /\ d.flow = c.flow
        /\ d.provider = c.provider /\ d.serial = c.serial /\ c.op # "logout" /\ ~ Configures(c)
        /\ d.pc = "secrets" /\ d.todo = SecretsOf(d.session)
        /\ d.session \in SessionsBy(calls)
        /\ Official(d.session.account) =>
              \/ HasSession(c) /\ d.session = c.session
              \/ d.session.life = c.serial /\ d.session.tokens[Token] = c.serial
        /\ out' = out \ {d.session.account}
        /\ UNCHANGED <<flows, sessions, leaving>>

AccountLeaves(t) ==
    /\ task[t].op = "logout" /\ task[t].account \in Accounts
    /\ Moved(task[t], task'[t]) /\ task'[t].want = task[t].want
    /\ task'[t].pc = "forget" /\ task'[t].todo = Names
    /\ sessions' = [sessions EXCEPT ![task[t].account] = NoSession]
    /\ leaving' = leaving \cup {task[t].account}
    /\ UNCHANGED <<flows, out>>

LEMMA AnswerFacts ==
    ASSUME Shape, NEW t \in Tasks, Answer(t)
    PROVE  /\ Shape'
           /\ task[t].pc = "call" /\ up /\ OnlyTask(t)
           /\ AnswerEnds(t) \/ SessionComes(t) \/ AccountLeaves(t)
           /\ UNCHANGED <<up, callers, providers, vault, disk, calls, handed, cancelled>>
<1>0. /\ calls' = calls /\ up /\ up' = up /\ task[t].pc = "call"
      /\ UNCHANGED <<callers, providers, vault, file, tmp, handed, cancelled>>
  BY DEF Answer, disk
<1>1. calls \in Nat /\ calls' \in 0..MaxCalls /\ calls <= calls' /\ MaxCalls \in Nat
  BY <1>0, AuthAssumption DEF Shape, StoresShape
<1>2. PICK c : c = task[t]
  OBVIOUS
<1>3. CallShape(c, calls, leaving) /\ c.pc = "call"
  BY <1>0, <1>2, InFlight
<1>4. PICK step \in Steps(c) :
            Challenged(t, step) \/ Obtained(t, step) \/ Departed(t, step) \/ Refused(t, step)
  BY <1>2 DEF Answer
<1>a. ASSUME NEW X, task' = [task EXCEPT ![t] = X] PROVE task'[t] = X /\ OnlyTask(t)
  BY <1>a DEF Shape, TasksShape, OnlyTask
<1>5. CASE Challenged(t, step) \/ Refused(t, step)
  <2>1. task' = [task EXCEPT ![t] = Idle] /\ UNCHANGED <<sessions, out, leaving>>
    BY <1>5 DEF Challenged, Refused
  <2>2. TasksShape'
    BY <1>0, <1>1, <2>1, TaskChanged
  <2>3. Shape'
    BY <1>0, <1>1, <2>1, <2>2, StoresKept DEF Shape
  <2>4. ASSUME Challenged(t, step) PROVE OpensFlow(t)
    <3>1. step.state \in States
      BY <1>1, <1>3, <1>4, <2>4, AnswersFit DEF Challenged
    <3>2. PICK id, state : /\ id = IF c.flow = 0 THEN c.serial ELSE c.flow
                           /\ state = step.state
      OBVIOUS
    <3>3. id \in {c.serial, c.flow} \ {0}
      BY <1>3, <3>2 DEF CallShape, Calls
    <3>4. flows' = [g \in DOMAIN flows \cup {id} |->
               IF g = id THEN [provider |-> c.provider, state |-> state, serial |-> c.serial]
               ELSE flows[g]]
      BY <1>2, <2>4, <3>2 DEF Challenged, NextId
    <3> QED BY <1>2, <3>1, <3>2, <3>3, <3>4 DEF OpensFlow
  <2>5. Refused(t, step) => flows' = flows
    BY DEF Refused
  <2> QED BY <1>0, <1>5, <1>a, <2>1, <2>3, <2>4, <2>5 DEF AnswerEnds, disk
<1>6. CASE Obtained(t, step)
  <2>0. PICK s : s = step.session
    OBVIOUS
  <2>1. /\ s \in SessionsBy(calls) /\ s \in SessionsBy(MaxCalls)
        /\ c.op # "logout" /\ (c.want \in {"refresh", "verify"} => s.account = c.account)
        /\ Official(s.account) =>
              \/ HasSession(c) /\ s = c.session
              \/ s.life = c.serial /\ s.tokens[Token] = c.serial
    <3>1. step.step = "session" /\ c.op # "logout" /\ SameAccount(c, step.session)
      BY <1>2, <1>6 DEF Obtained
    <3>2. /\ step.session \in SessionsBy(calls)
          /\ Official(step.session.account) =>
                \/ HasSession(c) /\ step.session = c.session
                \/ step.session.life = c.serial /\ step.session.tokens[Token] = c.serial
      BY <1>1, <1>3, <1>4, <3>1, AnswersFit
    <3>3. SessionsBy(calls) \subseteq SessionsBy(MaxCalls)
      BY <1>0, <1>1, SessionsGrow
    <3> QED BY <2>0, <3>1, <3>2, <3>3 DEF SameAccount
  <2>2. PICK todo \in SUBSET Names : todo = SecretsOf(s)
    BY DEF SecretsOf
  <2>3. PICK X : X = [c EXCEPT !.pc = "secrets", !.session = s, !.todo = todo]
    OBVIOUS
  <2>4. task' = [task EXCEPT ![t] = X]
    BY <1>2, <1>6, <2>0, <2>2, <2>3 DEF Obtained
  <2>5. \A n \in todo : s.tokens[n] # 0
    BY <2>2 DEF SecretsOf
  <2>6. c \in Calls /\ ~ Configures(c)
    BY <1>3 DEF CallShape, Saving
  <2>7. X \in Calls
    BY <2>1, <2>2, <2>3, <2>6 DEF Calls
  <2>8. /\ X.pc = "secrets" /\ X.session = s /\ X.todo = todo /\ X.op = c.op /\ X.want = c.want
        /\ X.account = c.account /\ X.flow = c.flow /\ X.serial = c.serial /\ X.provider = c.provider
    BY <2>3, <2>6 DEF Calls
  <2>9. CallShape(X, calls, leaving)
    BY <1>3, <2>1, <2>2, <2>5, <2>6, <2>7, <2>8 DEF CallShape, HasSession, Configures, Saving
  <2>10. leaving' = leaving /\ sessions' = sessions /\ out' = out \ {s.account} /\ flows' = flows
    BY <1>6, <2>0 DEF Obtained
  <2>11. TasksShape'
    BY <1>0, <1>1, <2>4, <2>9, <2>10, TaskChanged
  <2>12. Shape'
    BY <1>0, <2>10, <2>11 DEF Shape, StoresShape
  <2>13. task'[t] = X /\ OnlyTask(t)
    BY <1>a, <2>4
  <2>14. SessionComes(t)
    BY <1>2, <2>1, <2>2, <2>6, <2>8, <2>10, <2>13 DEF SessionComes
  <2> QED BY <1>0, <2>12, <2>13, <2>14 DEF disk
<1>7. CASE Departed(t, step)
  <2>1. PICK X : X = [c EXCEPT !.pc = "forget", !.todo = Names]
    OBVIOUS
  <2>2. task' = [task EXCEPT ![t] = X]
    BY <1>2, <1>7, <2>1 DEF Departed, DeletedSecrets
  <2>3. c \in Calls /\ c.op = "logout" /\ c.account \in Accounts /\ c.want = "logout"
    BY <1>2, <1>3, <1>7 DEF CallShape, Departed
  <2>4. Moved(c, X) /\ X.pc = "forget" /\ X.want = c.want /\ X.todo = Names
    BY <2>1, <2>3 DEF Calls, Moved
  <2>5. /\ leaving' = leaving \cup {c.account} /\ out' = out /\ flows' = flows
        /\ sessions' = [sessions EXCEPT ![c.account] = NoSession]
    BY <1>2, <1>7 DEF Departed
  <2>6. CallShape(X, calls, leaving')
    BY <1>3, <2>3, <2>4, <2>5 DEF CallShape, Moved, HasSession, Configures, Saving
  <2>7. TasksShape'
    BY <1>0, <1>1, <2>2, <2>5, <2>6, TaskChanged
  <2>8. Shape'
    BY <1>0, <2>3, <2>5, <2>7 DEF Shape, StoresShape
  <2>9. task'[t] = X /\ OnlyTask(t)
    BY <1>a, <2>2
  <2>10. AccountLeaves(t)
    BY <1>2, <2>3, <2>4, <2>5, <2>9 DEF AccountLeaves
  <2> QED BY <1>0, <2>8, <2>9, <2>10 DEF disk
<1> QED BY <1>4, <1>5, <1>6, <1>7

LEMMA MovesLabel ==
    ASSUME NEW c \in Calls, NEW pc \in Labels, NEW X, X = [c EXCEPT !.pc = pc]
    PROVE  Moved(c, X) /\ X.pc = pc /\ X.want = c.want /\ X.todo = c.todo /\ X.doc = c.doc
BY DEF Calls, Moved, Labels

LEMMA MovesTodo ==
    ASSUME NEW c \in Calls, NEW todo \in SUBSET Names, NEW X, X = [c EXCEPT !.todo = todo]
    PROVE  Moved(c, X) /\ X.pc = c.pc /\ X.want = c.want /\ X.todo = todo /\ X.doc = c.doc
BY DEF Calls, Moved

\* One call changes while nothing is begun and no account starts to leave.
LEMMA TaskMoves ==
    ASSUME Shape, up, UNCHANGED <<up, calls, leaving>>, NEW t \in Tasks, NEW X,
           task' = [task EXCEPT ![t] = X]
    PROVE  /\ task'[t] = X
           /\ OnlyTask(t)
           /\ X = Idle \/ CallShape(X, calls, leaving) => TasksShape'
<1>1. task'[t] = X /\ OnlyTask(t)
  BY DEF Shape, TasksShape, OnlyTask
<1>2. ASSUME X = Idle \/ CallShape(X, calls, leaving) PROVE TasksShape'
  <2>1. /\ calls' \in 0..MaxCalls /\ calls <= calls' /\ leaving \subseteq leaving'
        /\ X = Idle \/ CallShape(X, calls', leaving')
    BY <1>2, AuthAssumption DEF Shape, StoresShape
  <2> QED BY <2>1, TaskChanged
<1> QED BY <1>1, <1>2

LEMMA DocumentFits ==
    ASSUME Shape PROVE Document \in SUBSET Entry
<1>1. ASSUME NEW a \in Accounts, sessions[a] # NoSession PROVE Persisted(sessions[a]) \in Entry
  <2>1. PICK s : s = sessions[a]
    OBVIOUS
  <2>2. s \in SessionsBy(calls)
    BY <1>1, <2>1 DEF Shape, StoresShape
  <2> QED BY <2>1, <2>2 DEF SessionsBy, Persisted, Entry
<1> QED BY <1>1 DEF Document

LEMMA StoreSecretFacts ==
    ASSUME Shape, NEW t \in Tasks, StoreSecret(t)
    PROVE  /\ Shape'
           /\ task[t].pc = "secrets" /\ task'[t].pc = "secrets"
           /\ Moved(task[t], task'[t]) /\ task'[t].want = task[t].want /\ OnlyTask(t)
           /\ UNCHANGED <<up, callers, memory, disk, calls, history>>
           /\ \E n \in task[t].todo :
                /\ task'[t].todo = task[t].todo \ {n}
                /\ vault' = [vault EXCEPT ![task[t].session.account][n] = task[t].session.tokens[n]]
<1>1. /\ up /\ task[t].pc = "secrets"
      /\ UNCHANGED <<up, callers, memory, disk, calls, history>>
  BY DEF StoreSecret
<1>2. PICK n \in task[t].todo :
            /\ vault' = [vault EXCEPT ![task[t].session.account][n] = task[t].session.tokens[n]]
            /\ task' = [task EXCEPT ![t].todo = task[t].todo \ {n}]
  BY DEF StoreSecret
<1>3. PICK c : c = task[t]
  OBVIOUS
<1>4. CallShape(c, calls, leaving)
  BY <1>1, <1>3, InFlight
<1>5. PICK X : X = [c EXCEPT !.todo = c.todo \ {n}]
  OBVIOUS
<1>6. c.todo \ {n} \in SUBSET Names /\ n \in Names
  BY <1>2, <1>3, <1>4 DEF CallShape, Calls
<1>7. Moved(c, X) /\ X.pc = c.pc /\ X.want = c.want /\ X.todo = c.todo \ {n} /\ X.doc = c.doc
  BY <1>4, <1>5, <1>6, MovesTodo DEF CallShape
<1>8. CallShape(X, calls, leaving)
  BY <1>4, <1>7 DEF CallShape, Moved, HasSession, Configures
<1>9. task' = [task EXCEPT ![t] = X]
  BY <1>2, <1>3, <1>5
<1>10. task'[t] = X /\ OnlyTask(t) /\ TasksShape'
  BY <1>1, <1>8, <1>9, TaskMoves DEF history
<1>11. c.session \in SessionsBy(calls)
  BY <1>1, <1>3, <1>4 DEF CallShape, Calls, HasSession, Configures, Saving
<1>12. c.session.account \in Accounts /\ c.session.tokens[n] \in 0..calls
  BY <1>6, <1>11 DEF SessionsBy
<1>13. vault' \in [Accounts -> [Names -> 0..calls]]
  BY <1>2, <1>3, <1>6, <1>12 DEF Shape, StoresShape
<1>14. Shape'
  BY <1>1, <1>10, <1>13 DEF Shape, StoresShape, memory, disk, history
<1> QED BY <1>1, <1>2, <1>3, <1>7, <1>10, <1>14

LEMMA InsertSessionFacts ==
    ASSUME Shape, NEW t \in Tasks, InsertSession(t)
    PROVE  /\ Shape'
           /\ task[t].pc = "secrets" /\ task[t].todo = {} /\ task'[t].pc = "snapshot"
           /\ Moved(task[t], task'[t]) /\ task'[t].want = task[t].want /\ OnlyTask(t)
           /\ UNCHANGED <<up, callers, providers, flows, vault, disk, calls, history>>
           /\ task[t].session \in SessionsBy(calls)
           /\ sessions' = [sessions EXCEPT ![task[t].session.account] = task[t].session]
<1>1. /\ up /\ task[t].pc = "secrets" /\ task[t].todo = {}
      /\ UNCHANGED <<up, callers, providers, flows, vault, disk, calls, history>>
      /\ sessions' = [sessions EXCEPT ![task[t].session.account] = task[t].session]
  BY DEF InsertSession
<1>3. PICK c : c = task[t]
  OBVIOUS
<1>4. CallShape(c, calls, leaving)
  BY <1>1, <1>3, InFlight
<1>5. PICK X : X = [c EXCEPT !.pc = "snapshot"]
  OBVIOUS
<1>7. Moved(c, X) /\ X.pc = "snapshot" /\ X.want = c.want /\ X.todo = c.todo /\ X.doc = c.doc
  BY <1>4, <1>5, MovesLabel DEF CallShape, Labels
<1>8. CallShape(X, calls, leaving)
  BY <1>1, <1>3, <1>4, <1>7 DEF CallShape, Moved, HasSession, Configures, Saving
<1>9. task' = [task EXCEPT ![t] = X]
  BY <1>3, <1>5 DEF InsertSession
<1>10. task'[t] = X /\ OnlyTask(t) /\ TasksShape'
  BY <1>1, <1>8, <1>9, TaskMoves DEF history
<1>11. c.session \in SessionsBy(calls)
  BY <1>1, <1>3, <1>4 DEF CallShape, Calls, HasSession, Configures, Saving
<1>12. c.session.account \in Accounts
  BY <1>11 DEF SessionsBy
<1>13. /\ sessions' \in [Accounts -> SessionsBy(calls) \cup {NoSession}]
       /\ \A a \in Accounts : sessions'[a] # NoSession => sessions'[a].account = a
  BY <1>1, <1>3, <1>11, <1>12 DEF Shape, StoresShape
<1>14. Shape'
  BY <1>1, <1>10, <1>13 DEF Shape, StoresShape, memory, disk, history
<1> QED BY <1>1, <1>3, <1>7, <1>10, <1>11, <1>14

LEMMA DeleteSecretFacts ==
    ASSUME Shape, NEW t \in Tasks, DeleteSecret(t)
    PROVE  /\ Shape'
           /\ task[t].pc = "forget" /\ task[t].op = "logout"
           /\ Moved(task[t], task'[t]) /\ task'[t].want = task[t].want /\ OnlyTask(t)
           /\ UNCHANGED <<up, callers, memory, disk, calls, history>>
           /\ \E n \in task[t].todo :
                /\ task'[t].todo = task[t].todo \ {n}
                /\ task'[t].pc = IF task[t].todo = {n} THEN "snapshot" ELSE "forget"
                /\ vault' = [vault EXCEPT ![task[t].account][n] = 0]
<1>1. /\ up /\ task[t].pc = "forget"
      /\ UNCHANGED <<up, callers, memory, disk, calls, history>>
  BY DEF DeleteSecret
<1>3. PICK c : c = task[t]
  OBVIOUS
<1>4. CallShape(c, calls, leaving)
  BY <1>1, <1>3, InFlight
<1>a. PICK n \in c.todo :
            /\ vault' = [vault EXCEPT ![c.account][n] = 0]
            /\ task' = [task EXCEPT ![t].todo = c.todo \ {n},
                                    ![t].pc = IF c.todo = {n} THEN "snapshot" ELSE "forget"]
  BY <1>3 DEF DeleteSecret
<1>b. PICK pc \in {"snapshot", "forget"} : pc = IF c.todo = {n} THEN "snapshot" ELSE "forget"
  OBVIOUS
<1>2. /\ vault' = [vault EXCEPT ![c.account][n] = 0]
      /\ pc = IF c.todo = {n} THEN "snapshot" ELSE "forget"
      /\ task' = [task EXCEPT ![t] = [c EXCEPT !.todo = c.todo \ {n}, !.pc = pc]]
  BY <1>3, <1>a, <1>b
<1>5. PICK X : X = [c EXCEPT !.todo = c.todo \ {n}, !.pc = pc]
  OBVIOUS
<1>6. c.todo \ {n} \in SUBSET Names /\ n \in Names
  BY <1>2, <1>4 DEF CallShape, Calls
<1>7. Moved(c, X) /\ X.pc = pc /\ X.want = c.want /\ X.todo = c.todo \ {n} /\ X.doc = c.doc
  <2>1. c \in Calls /\ pc \in Labels
    BY <1>4 DEF CallShape, Labels
  <2> QED BY <1>5, <1>6, <2>1 DEF Moved, Calls, Labels
<1>11. c.op = "logout" /\ c.account \in Accounts
  BY <1>1, <1>3, <1>4 DEF CallShape, Calls, Configures, Saving
<1>8. CallShape(X, calls, leaving)
  BY <1>1, <1>3, <1>4, <1>7, <1>11 DEF CallShape, Moved, HasSession, Configures, Saving
<1>9. task' = [task EXCEPT ![t] = X]
  BY <1>2, <1>5
<1>10. task'[t] = X /\ OnlyTask(t) /\ TasksShape'
  BY <1>1, <1>8, <1>9, TaskMoves DEF history
<1>13. vault' \in [Accounts -> [Names -> 0..calls]]
  <2>1. 0 \in 0..calls
    BY AuthAssumption DEF Shape, StoresShape
  <2> QED BY <1>2, <1>6, <1>11, <2>1 DEF Shape, StoresShape
<1>14. Shape'
  BY <1>1, <1>10, <1>13 DEF Shape, StoresShape, memory, disk, history
<1> QED BY <1>1, <1>2, <1>3, <1>7, <1>10, <1>11, <1>14

LEMMA SnapshotFacts ==
    ASSUME Shape, NEW t \in Tasks, Snapshot(t)
    PROVE  /\ Shape'
           /\ task[t].pc = "snapshot" /\ task'[t].pc = "write" /\ task'[t].doc = Document
           /\ Moved(task[t], task'[t]) /\ task'[t].want = task[t].want /\ OnlyTask(t)
           /\ ~ Configures(task[t])
           /\ UNCHANGED <<up, callers, memory, vault, disk, calls, history>>
<1>1. /\ up /\ task[t].pc = "snapshot"
      /\ UNCHANGED <<up, callers, memory, vault, disk, calls, history>>
  BY DEF Snapshot
<1>3. PICK c, doc : c = task[t] /\ doc = Document
  OBVIOUS
<1>4. CallShape(c, calls, leaving)
  BY <1>1, <1>3, InFlight
<1>5. PICK X : X = [c EXCEPT !.pc = "write", !.doc = doc]
  OBVIOUS
<1>6. doc \in SUBSET Entry
  BY <1>3, DocumentFits
<1>7. Moved(c, X) /\ X.pc = "write" /\ X.want = c.want /\ X.todo = c.todo /\ X.doc = doc
  <2>1. c \in Calls /\ "write" \in Labels
    BY <1>4 DEF CallShape, Labels, Saving
  <2> QED BY <1>5, <1>6, <2>1 DEF Moved, Calls, Labels
<1>2. ~ Configures(c)
  BY <1>1, <1>3, <1>4 DEF CallShape, Saving
<1>8. CallShape(X, calls, leaving)
  BY <1>1, <1>2, <1>3, <1>4, <1>6, <1>7 DEF CallShape, Moved, HasSession, Configures, Saving
<1>9. task' = [task EXCEPT ![t] = X]
  BY <1>3, <1>5 DEF Snapshot
<1>10. task'[t] = X /\ OnlyTask(t) /\ TasksShape'
  BY <1>1, <1>8, <1>9, TaskMoves DEF history
<1>14. Shape'
  BY <1>1, <1>10 DEF Shape, StoresShape, memory, disk, history
<1> QED BY <1>1, <1>2, <1>3, <1>7, <1>10, <1>14

\* What a call writes is a document of its file.
LEMMA SavedFits ==
    ASSUME NEW k, NEW gone, NEW c, CallShape(c, k, gone), c.pc \in Saving
    PROVE  /\ Name(c) = "accounts" => c.doc \in SUBSET Entry
           /\ Name(c) = "providers" => c.doc \in SUBSET Configurable
           /\ (Name(c) = "providers") <=> Configures(c)
           /\ Name(c) \in {"accounts", "providers"}
BY DEF CallShape, Name, Configures

LEMMA WriteTemporaryFacts ==
    ASSUME Shape, NEW t \in Tasks, WriteTemporary(t)
    PROVE  /\ Shape'
           /\ task[t].pc = "write" /\ task'[t].pc = "check" /\ task'[t].doc = task[t].doc
           /\ Moved(task[t], task'[t]) /\ task'[t].want = task[t].want /\ OnlyTask(t)
           /\ UNCHANGED <<up, callers, memory, vault, file, calls, history>>
           /\ tmp' = [tmp EXCEPT ![Name(task[t])] = task[t].doc]
<1>1. /\ up /\ task[t].pc = "write"
      /\ UNCHANGED <<up, callers, memory, vault, file, calls, history>>
      /\ tmp' = [tmp EXCEPT ![Name(task[t])] = task[t].doc]
  BY DEF WriteTemporary
<1>3. PICK c : c = task[t]
  OBVIOUS
<1>4. CallShape(c, calls, leaving)
  BY <1>1, <1>3, InFlight
<1>5. PICK X : X = [c EXCEPT !.pc = "check"]
  OBVIOUS
<1>7. Moved(c, X) /\ X.pc = "check" /\ X.want = c.want /\ X.todo = c.todo /\ X.doc = c.doc
  BY <1>4, <1>5, MovesLabel DEF CallShape, Labels, Saving
<1>8. CallShape(X, calls, leaving)
  BY <1>1, <1>3, <1>4, <1>7 DEF CallShape, Moved, HasSession, Configures, Saving
<1>9. task' = [task EXCEPT ![t] = X]
  BY <1>3, <1>5 DEF WriteTemporary
<1>10. task'[t] = X /\ OnlyTask(t) /\ TasksShape'
  BY <1>1, <1>8, <1>9, TaskMoves DEF history
<1>13. tmp' \in Documents
  <2>1. c.pc \in Saving
    BY <1>1, <1>3 DEF Saving
  <2> QED BY <1>1, <1>3, <1>4, <2>1, SavedFits DEF Shape, StoresShape, Documents
<1>14. Shape'
  BY <1>1, <1>10, <1>13 DEF Shape, StoresShape, memory, disk, history
<1> QED BY <1>1, <1>3, <1>7, <1>10, <1>14

LEMMA CheckOldFacts ==
    ASSUME Shape, NEW t \in Tasks, CheckOld(t)
    PROVE  /\ Shape'
           /\ task[t].pc = "check" /\ task'[t].doc = task[t].doc
           /\ task'[t].pc \in {"rename", "remove"}
           /\ task'[t].pc = "rename" => file[Name(task[t])] = Missing
           /\ Moved(task[t], task'[t]) /\ task'[t].want = task[t].want /\ OnlyTask(t)
           /\ UNCHANGED <<up, callers, memory, vault, disk, calls, history>>
<1>1. /\ up /\ task[t].pc = "check"
      /\ UNCHANGED <<up, callers, memory, vault, disk, calls, history>>
  BY DEF CheckOld
<1>3. PICK c : c = task[t]
  OBVIOUS
<1>4. CallShape(c, calls, leaving)
  BY <1>1, <1>3, InFlight
<1>2. PICK pc \in {"rename", "remove"} : pc = IF file[Name(task[t])] = Missing THEN "rename" ELSE "remove"
  OBVIOUS
<1>5. PICK X : X = [c EXCEPT !.pc = pc]
  OBVIOUS
<1>7. Moved(c, X) /\ X.pc = pc /\ X.want = c.want /\ X.todo = c.todo /\ X.doc = c.doc
  BY <1>4, <1>5, MovesLabel DEF CallShape, Labels, Saving
<1>8. CallShape(X, calls, leaving)
  BY <1>1, <1>3, <1>4, <1>7 DEF CallShape, Moved, HasSession, Configures, Saving
<1>9. task' = [task EXCEPT ![t] = X]
  BY <1>2, <1>3, <1>5 DEF CheckOld
<1>10. task'[t] = X /\ OnlyTask(t) /\ TasksShape'
  BY <1>1, <1>8, <1>9, TaskMoves DEF history
<1>14. Shape'
  BY <1>1, <1>10 DEF Shape, StoresShape, memory, disk, history
<1> QED BY <1>1, <1>2, <1>3, <1>7, <1>10, <1>14

LEMMA RemoveOldFacts ==
    ASSUME Shape, NEW t \in Tasks, RemoveOld(t)
    PROVE  /\ Shape'
           /\ task[t].pc = "remove"
           /\ \/ task'[t] = Idle /\ file[Name(task[t])] = Missing
              \/ /\ task'[t].pc = "rename" /\ task'[t].doc = task[t].doc
                 /\ Moved(task[t], task'[t]) /\ task'[t].want = task[t].want
           /\ OnlyTask(t)
           /\ UNCHANGED <<up, callers, memory, vault, tmp, calls, history>>
           /\ file' = [file EXCEPT ![Name(task[t])] = Missing]
<1>1. /\ up /\ task[t].pc = "remove"
      /\ UNCHANGED <<up, callers, memory, vault, tmp, calls, history>>
      /\ file' = [file EXCEPT ![Name(task[t])] = Missing]
  BY DEF RemoveOld
<1>3. PICK c : c = task[t]
  OBVIOUS
<1>4. CallShape(c, calls, leaving)
  BY <1>1, <1>3, InFlight
<1>5. PICK X : X = [c EXCEPT !.pc = "rename"]
  OBVIOUS
<1>7. Moved(c, X) /\ X.pc = "rename" /\ X.want = c.want /\ X.todo = c.todo /\ X.doc = c.doc
  BY <1>4, <1>5, MovesLabel DEF CallShape, Labels, Saving
<1>8. CallShape(X, calls, leaving)
  BY <1>1, <1>3, <1>4, <1>7 DEF CallShape, Moved, HasSession, Configures, Saving
<1>9. task' = [task EXCEPT ![t] = X] \/ (task' = [task EXCEPT ![t] = Idle] /\ file[Name(c)] = Missing)
  BY <1>3, <1>5 DEF RemoveOld
<1>10. TasksShape' /\ OnlyTask(t) /\ (task'[t] = X \/ (task'[t] = Idle /\ file[Name(c)] = Missing))
  BY <1>1, <1>8, <1>9, TaskMoves DEF history
<1>13. file' \in Documents
  BY <1>1 DEF Shape, StoresShape, Documents, Name
<1>14. Shape'
  BY <1>1, <1>10, <1>13 DEF Shape, StoresShape, memory, disk, history
<1> QED BY <1>1, <1>3, <1>7, <1>10, <1>14

\* A rename that finds its temporary, and one that does not.
RenamedAway(t) ==
    /\ tmp[Name(task[t])] = Missing
    /\ task'[t] = Idle
    /\ UNCHANGED <<disk, providers, out>>

RenamedIn(t) ==
    /\ tmp[Name(task[t])] # Missing
    /\ file' = [file EXCEPT ![Name(task[t])] = tmp[Name(task[t])]]
    /\ tmp' = [tmp EXCEPT ![Name(task[t])] = Missing]
    /\ providers' = Registered(task[t])
    /\ \/ task'[t] = Idle
       \/ /\ task[t].op = "launch" /\ Moved(task[t], task'[t])
          /\ task'[t].pc = "call" /\ task'[t].want = "verify"
    /\ out' = IF task[t].op = "logout" THEN out \cup {task[t].account} ELSE out

LEMMA RenameFacts ==
    ASSUME Shape, NEW t \in Tasks, Rename(t)
    PROVE  /\ Shape'
           /\ task[t].pc = "rename" /\ up
           /\ RenamedAway(t) \/ RenamedIn(t)
           /\ OnlyTask(t)
           /\ UNCHANGED <<up, callers, flows, sessions, vault, calls, handed, cancelled, leaving>>
<1>1. /\ up /\ task[t].pc = "rename"
      /\ UNCHANGED <<up, callers, flows, sessions, vault, calls, handed, cancelled, leaving>>
  BY DEF Rename
<1>3. PICK c : c = task[t]
  OBVIOUS
<1>4. CallShape(c, calls, leaving)
  BY <1>1, <1>3, InFlight
<1>5. PICK X : X = [c EXCEPT !.pc = "call", !.want = "verify"]
  OBVIOUS
<1>6. c \in Calls
  BY <1>4 DEF CallShape
<1>7. Moved(c, X) /\ X.pc = "call" /\ X.want = "verify" /\ X.todo = c.todo /\ X.doc = c.doc
  BY <1>5, <1>6 DEF Moved, Calls
<1>8. c.op = "launch" => CallShape(X, calls, leaving)
  BY <1>1, <1>3, <1>4, <1>7 DEF CallShape, Moved, HasSession, Configures, Saving
<1>9. \/ task' = [task EXCEPT ![t] = X] /\ c.op = "launch" /\ tmp[Name(c)] # Missing
      \/ task' = [task EXCEPT ![t] = Idle]
  BY <1>3, <1>5 DEF Rename
<1>10. /\ TasksShape' /\ OnlyTask(t)
       /\ (task'[t] = X /\ c.op = "launch" /\ tmp[Name(c)] # Missing) \/ task'[t] = Idle
  BY <1>1, <1>8, <1>9, TaskMoves
<1>11. RenamedAway(t) \/ RenamedIn(t)
  BY <1>3, <1>7, <1>10 DEF Rename, RenamedAway, RenamedIn
<1>12. c.provider \in Kinds /\ (c.op = "logout" => c.account \in Accounts)
  BY <1>4 DEF CallShape, Calls
<1>13. /\ file' \in Documents /\ tmp' \in Documents /\ providers' \subseteq Kinds
       /\ out' \subseteq Accounts
  <2>1. CASE RenamedAway(t)
    BY <2>1 DEF RenamedAway, Shape, StoresShape, disk
  <2>2. CASE RenamedIn(t)
    <3>1. providers' \subseteq Kinds /\ out' \subseteq Accounts
      BY <2>2, <1>3, <1>12 DEF RenamedIn, Registered, Shape, StoresShape
    <3>2. file' \in Documents /\ tmp' \in Documents
      BY <2>2 DEF RenamedIn, Shape, StoresShape, Documents, Name
    <3> QED BY <3>1, <3>2
  <2> QED BY <1>11, <2>1, <2>2
<1>14. Shape'
  BY <1>1, <1>10, <1>13 DEF Shape, StoresShape
<1> QED BY <1>1, <1>10, <1>11, <1>14

LEMMA InterruptedFacts ==
    ASSUME Shape, NEW t \in Tasks, Interrupted(t)
    PROVE  /\ Shape'
           /\ task'[t] = Idle /\ OnlyTask(t) /\ task[t] # Idle
           /\ torn' = (torn \/ Halfway(task[t]))
           /\ UNCHANGED <<up, callers, memory, vault, disk, calls, handed, cancelled, out, leaving>>
<1>1. /\ up /\ task[t] # Idle /\ task' = [task EXCEPT ![t] = Idle]
      /\ torn' = (torn \/ Halfway(task[t]))
      /\ UNCHANGED <<up, callers, memory, vault, disk, calls, handed, cancelled, out, leaving>>
  BY DEF Interrupted
<1>2. task'[t] = Idle /\ OnlyTask(t) /\ TasksShape'
  BY <1>1, TaskMoves
<1>3. Shape'
  BY <1>1, <1>2 DEF Shape, StoresShape, memory, disk
<1> QED BY <1>1, <1>2, <1>3

LEMMA RenameDroppedFacts ==
    ASSUME Shape, NEW t \in Tasks, RenameDropped(t)
    PROVE  /\ Shape'
           /\ up /\ task[t].pc = "rename" /\ task[t] # Idle
           /\ task'[t] = Idle /\ OnlyTask(t)
           /\ file' = [file EXCEPT ![Name(task[t])] = tmp[Name(task[t])]]
           /\ tmp' = [tmp EXCEPT ![Name(task[t])] = Missing]
           /\ torn' = (torn \/ Halfway(task[t]))
           /\ UNCHANGED <<up, callers, memory, vault, calls, handed, cancelled, out, leaving>>
<1>1. /\ up /\ task[t].pc = "rename" /\ task' = [task EXCEPT ![t] = Idle]
      /\ file' = [file EXCEPT ![Name(task[t])] = tmp[Name(task[t])]]
      /\ tmp' = [tmp EXCEPT ![Name(task[t])] = Missing]
      /\ torn' = (torn \/ Halfway(task[t]))
      /\ UNCHANGED <<up, callers, memory, vault, calls, handed, cancelled, out, leaving>>
  BY DEF RenameDropped
<1>2. task'[t] = Idle /\ OnlyTask(t) /\ TasksShape'
  BY <1>1, TaskMoves
<1>3. file' \in Documents /\ tmp' \in Documents
  BY <1>1 DEF Shape, StoresShape, Documents, Name
<1>4. Shape'
  BY <1>1, <1>2, <1>3 DEF Shape, StoresShape, memory
<1> QED BY <1>1, <1>2, <1>4 DEF Idle

LEMMA KillFacts ==
    ASSUME Shape, Kill
    PROVE  /\ Shape'
           /\ ~ up' /\ providers' = {} /\ DOMAIN flows' = {} /\ flows' = NoFlows
           /\ \A a \in Accounts : sessions'[a] = NoSession
           /\ \A t \in Tasks : task'[t] = Idle
           /\ UNCHANGED <<callers, vault, disk, calls, handed, cancelled, out, leaving>>
<1>1. /\ up' = FALSE /\ providers' = {} /\ flows' = NoFlows
      /\ sessions' = [a \in Accounts |-> NoSession]
      /\ task' = [t \in Tasks |-> Idle]
      /\ UNCHANGED <<callers, vault, disk, calls, handed, cancelled, out, leaving>>
  BY DEF Kill
<1>2. TasksShape'
  BY <1>1 DEF TasksShape, Running
<1>3. StoresShape'
  BY <1>1 DEF Shape, StoresShape, disk
<1> QED BY <1>1, <1>2, <1>3 DEF Shape, NoFlows

LEMMA StartFacts ==
    ASSUME Shape, Start
    PROVE  /\ Shape'
           /\ ~ up /\ up'
           /\ providers' = Registry \cup {Offline}
           /\ \A t \in Tasks : task[t] = Idle /\ task'[t] = Idle
           /\ \A a \in Accounts : sessions'[a] # NoSession =>
                /\ a \in Listed(file.accounts)
                /\ sessions'[a].tokens = vault[a]
                /\ Persisted(sessions'[a]) \in file.accounts /\ file.accounts # Missing
           /\ UNCHANGED <<callers, flows, vault, disk, calls, history>>
<1>1. /\ ~ up /\ up' = TRUE /\ Loadable
      /\ providers' = Registry \cup {Offline}
      /\ sessions' = [a \in Accounts |-> IF a \in Listed(file.accounts) THEN Restored(a) ELSE NoSession]
      /\ UNCHANGED <<callers, flows, vault, disk, task, calls, history>>
  BY DEF Start
<1>2. ASSUME NEW a \in Accounts, a \in Listed(file.accounts)
      PROVE  /\ Restored(a) \in SessionsBy(calls) /\ Restored(a).account = a
             /\ Restored(a).tokens = vault[a]
             /\ Persisted(Restored(a)) \in file.accounts /\ file.accounts # Missing
  <2>1. file.accounts # Missing /\ \E d \in file.accounts : d.account = a
    BY <1>2 DEF Listed
  <2>2. PICK s : s = CHOOSE d \in file.accounts : d.account = a
    OBVIOUS
  <2>3. s \in file.accounts /\ s.account = a
    BY <2>1, <2>2
  <2>4. s \in Entry
    BY <2>1, <2>3 DEF Shape, StoresShape, Documents
  <2>5. Restored(a) = [account |-> a, refreshable |-> s.refreshable, life |-> s.life, tokens |-> vault[a]]
    BY <2>2 DEF Restored
  <2>6. Persisted(Restored(a)) = s
    BY <2>3, <2>4, <2>5 DEF Persisted, Entry
  <2>7. Official(a) => vault[a][Token] # 0
    BY <1>1, <1>2 DEF Loadable, Token
  <2>8. Restored(a) \in SessionsBy(calls)
    BY <2>4, <2>5, <2>7 DEF SessionsBy, Entry, Shape, StoresShape
  <2> QED BY <2>1, <2>3, <2>5, <2>6, <2>8
<1>3. /\ sessions' \in [Accounts -> SessionsBy(calls) \cup {NoSession}]
      /\ \A a \in Accounts : sessions'[a] # NoSession => sessions'[a].account = a
  BY <1>1, <1>2
<1>4. providers' \subseteq Kinds
  BY <1>1 DEF Registry, Shape, StoresShape, Documents, Kinds
<1>5. \A t \in Tasks : task[t] = Idle /\ task'[t] = Idle
  BY <1>1 DEF Shape, TasksShape, Running
<1>6. TasksShape'
  BY <1>1, <1>5 DEF Shape, TasksShape
<1>7. StoresShape'
  BY <1>1, <1>3, <1>4 DEF Shape, StoresShape, disk, history
<1> QED BY <1>1, <1>2, <1>5, <1>6, <1>7 DEF Shape

-----------------------------------------------------------------------------
(***************************************************************************)
(* Flows.                                                                  *)
(***************************************************************************)
Apart == FlowsApart /\ \A t \in Tasks : CallApart(t)

\* No number is used and no flow opened.
LEMMA ApartQuiet ==
    ASSUME Apart, UNCHANGED <<calls, handed, cancelled>>,
           flows' = [f \in DOMAIN flows' |-> flows[f]], DOMAIN flows' \subseteq DOMAIN flows,
           \A u \in Tasks : \/ task'[u] = Idle
                            \/ /\ task[u] # Idle
                               /\ task'[u].serial = task[u].serial /\ task'[u].flow = task[u].flow
    PROVE  Apart'
<1>1. \A f \in DOMAIN flows' : f \in DOMAIN flows /\ flows'[f] = flows[f]
  OBVIOUS
<1>2. FlowsApart'
  BY <1>1 DEF Apart, FlowsApart
<1>3. ASSUME NEW t \in Tasks PROVE CallApart(t)'
  BY <1>1 DEF Apart, CallApart, Running
<1> QED BY <1>2, <1>3 DEF Apart

\* The call moves on and keeps its numbers, or ends.
LEMMA ApartMoves ==
    ASSUME Shape, Apart, NEW t \in Tasks, OnlyTask(t), UNCHANGED <<calls, handed, cancelled, flows>>,
           \/ task'[t] = Idle
           \/ /\ task[t].pc # "idle"
              /\ task'[t].serial = task[t].serial /\ task'[t].flow = task[t].flow
    PROVE  Apart'
<1>1. flows' = [f \in DOMAIN flows' |-> flows[f]]
  BY DEF Apart, FlowsApart
<1>2. ASSUME NEW u \in Tasks
      PROVE  \/ task'[u] = Idle
             \/ /\ task[u] # Idle
                /\ task'[u].serial = task[u].serial /\ task'[u].flow = task[u].flow
  BY DEF OnlyTask, Idle
<1> QED BY <1>1, <1>2, ApartQuiet

LEMMA ApartStarts ==
    ASSUME Shape, Apart, NEW t \in Tasks, Starts(t)
    PROVE  Apart'
<1>1. /\ Shape' /\ task[t] = Idle /\ calls' = calls + 1 /\ calls < MaxCalls
      /\ OnlyTask(t) /\ (task'[t] = Idle \/ Fresh(t)) /\ FlowsTaken(t)
  BY StartsFacts DEF Apart
<1>2. calls \in Nat /\ MaxCalls \in Nat
  BY AuthAssumption DEF Shape, StoresShape
<1>3. /\ \A f \in DOMAIN flows' : f \in DOMAIN flows /\ flows'[f] = flows[f]
      /\ flows' = [f \in DOMAIN flows' |-> flows'[f]]
  BY <1>1 DEF FlowsTaken
<1>4. \A f \in DOMAIN flows :
        /\ f \in 1..calls /\ flows[f].serial \in 1..calls
        /\ flows[f] \in [provider : Kinds, state : States, serial : 1..calls']
        /\ handed[flows[f].serial] = 0 /\ f \notin cancelled
        /\ \A g \in DOMAIN flows : flows[f].serial = flows[g].serial => f = g
  <2>1. \A f \in DOMAIN flows : flows[f] \in [provider : Kinds, state : States, serial : 1..calls]
    BY DEF Apart, FlowsApart
  <2>2. 1..calls \subseteq 1..calls'
    BY <1>1, <1>2
  <2> QED BY <2>1, <2>2 DEF Apart, FlowsApart
<1>5. /\ handed \in [1..MaxCalls -> Nat]
      /\ \A n \in 1..MaxCalls : handed[n] <= 1 /\ (n > calls => handed[n] = 0)
      /\ cancelled \subseteq 1..calls
  BY DEF Apart, FlowsApart
<1>6. \A u \in Running : /\ task[u].serial \in 1..calls /\ task[u].flow \in 0..calls
                         /\ u \in Tasks /\ CallApart(u)
  BY DEF Running, Apart, Shape, TasksShape, CallShape, Calls
<1>7. \A u \in Tasks \ {t} : task'[u] = task[u]
  BY <1>1 DEF OnlyTask
<1>8. task'[t] # Idle => task'[t].serial = calls + 1
  BY <1>1 DEF Fresh
<1>9. \A u \in Tasks : task'[u] # Idle => u = t \/ u \in Running
  BY <1>7 DEF Running
<1>a. CASE handed' = handed /\ cancelled' = cancelled /\ (task'[t] # Idle => task'[t].flow = 0)
  <2>1. FlowsApart'
    BY <1>1, <1>2, <1>3, <1>4, <1>5, <1>a DEF FlowsApart
  <2>2. ASSUME NEW u \in Tasks, u # t, task'[u] # Idle PROVE CallApart(u)'
    <3>1. u \in Running /\ task'[u] = task[u] /\ task[u].serial \in 1..calls /\ task[u].flow \in 0..calls
      BY <1>6, <1>7, <1>9, <2>2
    <3>2. ASSUME NEW v \in Tasks, task'[v] # Idle
          PROVE  /\ task'[v].flow # task[u].serial
                 /\ v # u => /\ task'[v].serial # task[u].serial
                             /\ task[u].flow # 0 => task'[v].flow # task[u].flow
      <4>1. CASE v = t
        <5>1. task'[v].serial = calls + 1 /\ task'[v].flow = 0
          BY <1>8, <1>a, <3>2, <4>1
        <5> QED BY <1>2, <3>1, <5>1
      <4>2. CASE v # t
        <5>1. v \in Running /\ task'[v] = task[v]
          BY <1>7, <1>9, <3>2, <4>2
        <5>2. CallApart(u) /\ task[u] # Idle
          BY <1>6, <3>1 DEF Running
        <5> QED BY <5>1, <5>2 DEF CallApart
      <4> QED BY <4>1, <4>2
    <3> QED BY <1>3, <1>6, <1>a, <3>1, <3>2 DEF CallApart, Running
  <2>3. ASSUME task'[t] # Idle PROVE CallApart(t)'
    <3>1. task'[t].serial = calls + 1 /\ task'[t].flow = 0
      BY <1>8, <1>a, <2>3
    <3>2. ASSUME NEW v \in Tasks, task'[v] # Idle
          PROVE  /\ task'[v].flow # calls + 1
                 /\ v # t => task'[v].serial # calls + 1
      BY <1>2, <1>6, <1>7, <1>9, <3>1, <3>2
    <3>3. handed[calls + 1] = 0 /\ calls + 1 \notin cancelled /\ 0 \notin cancelled
      BY <1>1, <1>2, <1>5
    <3>4. /\ calls + 1 \notin DOMAIN flows' /\ 0 \notin DOMAIN flows'
          /\ \A f \in DOMAIN flows' : flows'[f].serial # calls + 1
      BY <1>2, <1>3, <1>4
    <3> QED BY <1>a, <3>1, <3>2, <3>3, <3>4 DEF CallApart, Running
  <2>4. \A u \in Tasks : CallApart(u)'
    BY <2>2, <2>3 DEF CallApart
  <2> QED BY <2>1, <2>4 DEF Apart
<1>b. ASSUME NEW f \in DOMAIN flows \ DOMAIN flows',
             handed' = handed /\ cancelled' = cancelled \cup {f} /\ task'[t] = Idle
      PROVE  Apart'
  <2>1. FlowsApart'
    BY <1>1, <1>2, <1>3, <1>4, <1>5, <1>b DEF FlowsApart
  <2>2. ASSUME NEW u \in Tasks, task'[u] # Idle PROVE CallApart(u)'
    <3>1. u \in Running /\ u # t /\ task'[u] = task[u] /\ CallApart(u)
      BY <1>6, <1>7, <1>9, <1>b, <2>2
    <3>2. task[u].serial # f /\ task[u].flow # f
      BY <3>1 DEF CallApart, Running
    <3>3. \A v \in Tasks : task'[v] # Idle => v \in Running /\ task'[v] = task[v]
      BY <1>7, <1>9, <1>b
    <3> QED BY <1>3, <1>b, <3>1, <3>2, <3>3 DEF CallApart, Running
  <2>4. \A u \in Tasks : CallApart(u)'
    BY <2>2 DEF CallApart
  <2> QED BY <2>1, <2>4 DEF Apart
<1>c. ASSUME NEW f \in DOMAIN flows \ DOMAIN flows',
             /\ handed' = [handed EXCEPT ![flows[f].serial] = @ + 1]
             /\ cancelled' = cancelled /\ task'[t] # Idle /\ task'[t].flow = f
      PROVE  Apart'
  <2>0. PICK n \in 1..calls : n = flows[f].serial
    BY <1>4
  <2>1. /\ handed' \in [1..MaxCalls -> Nat] /\ handed'[n] = 1
        /\ \A m \in 1..MaxCalls : m # n => handed'[m] = handed[m]
    <3>1. n \in 1..MaxCalls /\ handed[n] = 0 /\ handed' = [handed EXCEPT ![n] = @ + 1]
      BY <1>1, <1>2, <1>4, <1>c, <2>0
    <3> QED BY <1>5, <3>1
  <2>2. FlowsApart'
    <3>1. \A m \in 1..MaxCalls : handed'[m] <= 1 /\ (m > calls' => handed'[m] = 0)
      BY <1>1, <1>2, <1>5, <2>1
    <3>2. \A g \in DOMAIN flows' : handed'[flows'[g].serial] = 0
      BY <1>2, <1>3, <1>4, <1>c, <2>0, <2>1
    <3>3. DOMAIN flows' \subseteq 1..calls' /\ cancelled' \subseteq 1..calls'
      BY <1>1, <1>2, <1>3, <1>4, <1>5, <1>c
    <3> QED BY <1>3, <1>4, <1>c, <2>1, <3>1, <3>2, <3>3 DEF FlowsApart
  <2>3. ASSUME NEW u \in Tasks, u # t, task'[u] # Idle PROVE CallApart(u)'
    <3>1. /\ u \in Running /\ task'[u] = task[u] /\ task[u].serial \in 1..calls
          /\ task[u].flow \in 0..calls /\ CallApart(u) /\ task[u] # Idle
      BY <1>6, <1>7, <1>9, <2>3 DEF Running
    <3>2. task[u].serial # n /\ task[u].serial # f /\ task[u].flow # f
      BY <2>0, <3>1 DEF CallApart
    <3>3. ASSUME NEW v \in Tasks, task'[v] # Idle
          PROVE  /\ task'[v].flow # task[u].serial
                 /\ v # u => /\ task'[v].serial # task[u].serial
                             /\ task[u].flow # 0 => task'[v].flow # task[u].flow
      <4>1. CASE v = t
        <5>1. task'[v].serial = calls + 1 /\ task'[v].flow = f
          BY <1>8, <1>c, <4>1
        <5> QED BY <1>2, <3>1, <3>2, <5>1
      <4>2. CASE v # t
        <5>1. v \in Running /\ task'[v] = task[v]
          BY <1>7, <1>9, <3>3, <4>2
        <5> QED BY <3>1, <5>1 DEF CallApart
      <4> QED BY <4>1, <4>2
    <3>4. handed'[task[u].serial] = 0
      <4>1. task[u].serial \in 1..MaxCalls /\ handed[task[u].serial] = 0
        BY <1>1, <1>2, <3>1 DEF CallApart
      <4> QED BY <2>1, <3>2, <4>1
    <3> QED BY <1>3, <1>c, <3>1, <3>3, <3>4 DEF CallApart, Running
  <2>4. CallApart(t)'
    <3>1. task'[t].serial = calls + 1 /\ task'[t].flow = f /\ f \in 1..calls
      BY <1>4, <1>8, <1>c
    <3>2. ASSUME NEW v \in Tasks, task'[v] # Idle
          PROVE  /\ task'[v].flow # calls + 1
                 /\ v # t => task'[v].serial # calls + 1 /\ task'[v].flow # f
      <4>1. CASE v = t
        BY <1>2, <3>1, <4>1
      <4>2. CASE v # t
        <5>1. v \in Running /\ task'[v] = task[v] /\ task[v] # Idle
          BY <1>7, <1>9, <3>2, <4>2 DEF Running
        <5> QED BY <1>2, <1>6, <5>1 DEF CallApart
      <4> QED BY <4>1, <4>2
    <3>3. handed'[calls + 1] = 0 /\ calls + 1 \notin cancelled /\ f \notin cancelled
      BY <1>1, <1>2, <1>4, <1>5, <2>1
    <3>4. /\ calls + 1 \notin DOMAIN flows' /\ f \notin DOMAIN flows'
          /\ \A g \in DOMAIN flows' : flows'[g].serial # calls + 1
      BY <1>2, <1>3, <1>4, <1>c
    <3> QED BY <1>c, <3>1, <3>2, <3>3, <3>4 DEF CallApart, Running
  <2>5. \A u \in Tasks : CallApart(u)'
    BY <2>3, <2>4 DEF CallApart
  <2> QED BY <2>2, <2>5 DEF Apart
<1> QED BY <1>1, <1>a, <1>b, <1>c DEF FlowsTaken

LEMMA ApartOpens ==
    ASSUME Shape, Apart, NEW t \in Tasks, task[t].pc = "call", OpensFlow(t), task'[t] = Idle,
           OnlyTask(t), UNCHANGED <<calls, handed, cancelled>>
    PROVE  Apart'
<1>0. task[t] # Idle /\ CallShape(task[t], calls, leaving)
  BY InFlight
<1>1. PICK c : c = task[t]
  OBVIOUS
<1>2. c \in Calls /\ c.serial \in 1..calls /\ c.flow \in 0..calls /\ c.provider \in Kinds
  BY <1>0, <1>1 DEF CallShape, Calls
<1>3. PICK id \in {c.serial, c.flow} \ {0}, state \in States :
        /\ id = IF c.flow = 0 THEN c.serial ELSE c.flow
        /\ flows' = [g \in DOMAIN flows \cup {id} |->
               IF g = id THEN [provider |-> c.provider, state |-> state, serial |-> c.serial]
               ELSE flows[g]]
  BY <1>1 DEF OpensFlow
<1>4. /\ id \in 1..calls /\ id \notin DOMAIN flows /\ id \notin cancelled
      /\ handed[c.serial] = 0 /\ \A f \in DOMAIN flows : flows[f].serial # c.serial
  BY <1>0, <1>1, <1>2, <1>3 DEF Apart, CallApart
<1>5. /\ DOMAIN flows' = DOMAIN flows \cup {id}
      /\ flows'[id] = [provider |-> c.provider, state |-> state, serial |-> c.serial]
      /\ flows'[id].serial = c.serial
      /\ \A f \in DOMAIN flows : flows'[f] = flows[f]
      /\ flows' = [f \in DOMAIN flows' |-> flows'[f]]
  BY <1>3, <1>4
<1>6. FlowsApart'
  BY <1>2, <1>4, <1>5 DEF Apart, FlowsApart
<1>7. ASSUME NEW u \in Tasks, task'[u] # Idle PROVE CallApart(u)'
  <2>1. u # t /\ task'[u] = task[u] /\ u \in Running /\ t \in Running /\ CallApart(u) /\ CallApart(t)
    BY <1>0, <1>7 DEF OnlyTask, Running, Apart
  <2>2. /\ task[u].serial # c.serial /\ task[u].serial # c.flow /\ task[u].flow # c.serial
        /\ c.flow # 0 => task[u].flow # c.flow
    BY <1>0, <1>1, <2>1 DEF CallApart, Running
  <2>3. task[u].serial # id /\ task[u].flow # id
    BY <1>3, <2>2
  <2>4. \A v \in Tasks : task'[v] # Idle => v \in Running /\ task'[v] = task[v]
    BY DEF OnlyTask, Running
  <2> QED BY <1>5, <2>1, <2>2, <2>3, <2>4 DEF CallApart, Running
<1> QED BY <1>6, <1>7 DEF Apart, CallApart

LEMMA ApartAnswer ==
    ASSUME Shape, Apart, NEW t \in Tasks, Answer(t)
    PROVE  Apart'
<1>1. /\ task[t].pc = "call" /\ OnlyTask(t)
      /\ AnswerEnds(t) \/ SessionComes(t) \/ AccountLeaves(t)
      /\ UNCHANGED <<calls, handed, cancelled>>
  BY AnswerFacts
<1>2. CASE AnswerEnds(t)
  BY <1>1, <1>2, ApartMoves, ApartOpens DEF AnswerEnds
<1>3. CASE SessionComes(t)
  BY <1>1, <1>3, ApartMoves DEF SessionComes
<1>4. CASE AccountLeaves(t)
  BY <1>1, <1>4, ApartMoves DEF AccountLeaves, Moved
<1> QED BY <1>1, <1>2, <1>3, <1>4

LEMMA ApartStep ==
    ASSUME Shape, Apart, [Next]_vars
    PROVE  Apart' /\ Shape'
<1>0. ASSUME NEW t \in Tasks, Answer(t) \/ StoreSecret(t) \/ InsertSession(t) \/ DeleteSecret(t) \/ Snapshot(t)
                  \/ WriteTemporary(t) \/ CheckOld(t) \/ RemoveOld(t) \/ Rename(t)
      PROVE  Apart' /\ Shape'
  <2>1. CASE Answer(t)
    BY <2>1, ApartAnswer, AnswerFacts
  <2>2. CASE StoreSecret(t)
    BY <2>2, StoreSecretFacts, ApartMoves DEF Moved, memory, history
  <2>3. CASE InsertSession(t)
    BY <2>3, InsertSessionFacts, ApartMoves DEF Moved, history
  <2>4. CASE DeleteSecret(t)
    BY <2>4, DeleteSecretFacts, ApartMoves DEF Moved, memory, history
  <2>5. CASE Snapshot(t)
    BY <2>5, SnapshotFacts, ApartMoves DEF Moved, memory, history
  <2>6. CASE WriteTemporary(t)
    BY <2>6, WriteTemporaryFacts, ApartMoves DEF Moved, memory, history
  <2>7. CASE CheckOld(t)
    BY <2>7, CheckOldFacts, ApartMoves DEF Moved, memory, history
  <2>8. CASE RemoveOld(t)
    BY <2>8, RemoveOldFacts, ApartMoves DEF Moved, memory, history
  <2>9. CASE Rename(t)
    BY <2>9, RenameFacts, ApartMoves DEF Moved, RenamedAway, RenamedIn
  <2> QED BY <1>0, <2>1, <2>2, <2>3, <2>4, <2>5, <2>6, <2>7, <2>8, <2>9
<1>1. ASSUME NEW t \in Tasks, Starts(t) PROVE Apart' /\ Shape'
  BY <1>1, ApartStarts, StartsFacts DEF Apart
<1>2. ASSUME NEW t \in Tasks, Interrupted(t) \/ RenameDropped(t) PROVE Apart' /\ Shape'
  BY <1>2, InterruptedFacts, RenameDroppedFacts, ApartMoves DEF memory
<1>3. CASE Kill
  <2>1. /\ Shape' /\ DOMAIN flows' = {} /\ \A u \in Tasks : task'[u] = Idle
        /\ UNCHANGED <<calls, handed, cancelled>>
    BY <1>3, KillFacts
  <2>2. flows' = [f \in DOMAIN flows' |-> flows[f]]
    BY <1>3 DEF Kill, NoFlows
  <2> QED BY <2>1, <2>2, ApartQuiet
<1>4. CASE Start
  <2>1. /\ Shape' /\ flows' = flows /\ \A u \in Tasks : task'[u] = Idle
        /\ UNCHANGED <<calls, handed, cancelled>>
    BY <1>4, StartFacts DEF history
  <2> QED BY <2>1, ApartQuiet DEF Apart, FlowsApart
<1>5. CASE UNCHANGED vars
  <2>1. UNCHANGED <<up, callers, providers, flows, sessions, vault, file, tmp, task, calls, handed,
                    cancelled, out, leaving>>
    BY <1>5 DEF vars, memory, disk, history
  <2>2. Apart'
    BY <2>1 DEF Apart, FlowsApart, CallApart, Running
  <2>3. Shape'
    BY <2>1 DEF Shape, StoresShape, TasksShape, Running
  <2> QED BY <2>2, <2>3
<1> QED BY <1>0, <1>1, <1>2, <1>3, <1>4, <1>5 DEF Next, Step, Starts

-----------------------------------------------------------------------------
(***************************************************************************)
(* Tokens.                                                                 *)
(***************************************************************************)

\* Metadata that a step leaves in every place where it was not before, was noted elsewhere.
LEMMA NotedFrom ==
    ASSUME NEW s, NEW t \in Tasks, OnlyTask(t), Noted(s)',
           \A a \in Accounts : sessions'[a] # NoSession /\ s = Persisted(sessions'[a]) => Noted(s),
           file'.accounts # Missing /\ s \in file'.accounts => Noted(s),
           tmp'.accounts # Missing /\ s \in tmp'.accounts => Noted(s),
           task'[t] # Idle /\ SavesAccounts(task'[t]) /\ s \in task'[t].doc => Noted(s)
    PROVE  Noted(s)
<1>1. CASE \E u \in Running' : SavesAccounts(task'[u]) /\ s \in task'[u].doc
  <2>1. PICK u \in Tasks : task'[u] # Idle /\ SavesAccounts(task'[u]) /\ s \in task'[u].doc
    BY <1>1 DEF Running
  <2>2. CASE u = t
    BY <2>1, <2>2
  <2>3. CASE u # t
    BY <2>1, <2>3 DEF OnlyTask, Noted, Running
  <2> QED BY <2>2, <2>3
<1> QED BY <1>1 DEF Noted, Persisted

\* The memory and the files are as they were and the call carries no new document.
LEMMA NotedKept ==
    ASSUME Shape, NEW s, NEW t \in Tasks, OnlyTask(t), Noted(s)', UNCHANGED <<sessions, file, tmp>>,
           task'[t] # Idle /\ SavesAccounts(task'[t]) =>
               task[t] # Idle /\ SavesAccounts(task[t]) /\ task'[t].doc = task[t].doc
    PROVE  Noted(s)
<1>1. task'[t] # Idle /\ SavesAccounts(task'[t]) /\ s \in task'[t].doc => Noted(s)
  BY DEF Noted, Running
<1>2. \A a \in Accounts : sessions'[a] # NoSession /\ s = Persisted(sessions'[a]) => Noted(s)
  BY DEF Noted
<1>3. /\ file'.accounts # Missing /\ s \in file'.accounts => Noted(s)
      /\ tmp'.accounts # Missing /\ s \in tmp'.accounts => Noted(s)
  BY DEF Noted
<1> QED BY <1>1, <1>2, <1>3, NotedFrom

\* Metadata becomes noted only when a session enters the map.
LEMMA NotedGrows ==
    ASSUME Shape, FlowsApart, [Next]_vars, NEW s, Noted(s)'
    PROVE  Noted(s) \/ \E t \in Tasks : InsertSession(t) /\ s = Persisted(task[t].session)
<1>1. ASSUME NEW t \in Tasks, Starts(t) PROVE Noted(s)
  <2>1. /\ OnlyTask(t) /\ UNCHANGED <<sessions, file, tmp>> /\ (task'[t] = Idle \/ Fresh(t))
    BY <1>1, StartsFacts DEF disk
  <2>2. task'[t] # Idle => ~ SavesAccounts(task'[t])
    BY <2>1 DEF Fresh, SavesAccounts, Saving
  <2> QED BY <2>1, <2>2, NotedKept
<1>2. ASSUME NEW t \in Tasks, Answer(t) PROVE Noted(s)
  <2>1. /\ OnlyTask(t) /\ (AnswerEnds(t) \/ SessionComes(t) \/ AccountLeaves(t))
        /\ UNCHANGED <<file, tmp>>
    BY <1>2, AnswerFacts DEF disk
  <2>2. CASE AnswerEnds(t) \/ SessionComes(t)
    BY <2>1, <2>2, NotedKept DEF AnswerEnds, SessionComes, SavesAccounts, Saving
  <2>3. CASE AccountLeaves(t)
    <3>1. task'[t].pc = "forget"
      BY <2>3 DEF AccountLeaves
    <3>2. \A a \in Accounts : sessions'[a] # NoSession => sessions'[a] = sessions[a]
      BY <2>3 DEF AccountLeaves, Shape, StoresShape
    <3>3. \A a \in Accounts : sessions'[a] # NoSession /\ s = Persisted(sessions'[a]) => Noted(s)
      BY <3>2 DEF Noted
    <3>4. /\ file'.accounts # Missing /\ s \in file'.accounts => Noted(s)
          /\ tmp'.accounts # Missing /\ s \in tmp'.accounts => Noted(s)
      BY <2>1 DEF Noted
    <3>5. ~ SavesAccounts(task'[t])
      BY <3>1 DEF SavesAccounts, Saving
    <3> QED BY <2>1, <3>3, <3>4, <3>5, NotedFrom
  <2> QED BY <2>1, <2>2, <2>3
<1>3. ASSUME NEW t \in Tasks, StoreSecret(t) \/ DeleteSecret(t) PROVE Noted(s)
  <2>1. /\ OnlyTask(t) /\ UNCHANGED <<sessions, file, tmp>>
        /\ task'[t].pc \in {"secrets", "forget", "snapshot"}
    BY <1>3, StoreSecretFacts, DeleteSecretFacts DEF memory, disk
  <2> QED BY <2>1, NotedKept DEF SavesAccounts, Saving
<1>4. ASSUME NEW t \in Tasks, InsertSession(t), s # Persisted(task[t].session) PROVE Noted(s)
  <2>1. /\ OnlyTask(t) /\ UNCHANGED <<file, tmp>> /\ task'[t].pc = "snapshot"
        /\ task[t].session.account \in Accounts
        /\ sessions' = [sessions EXCEPT ![task[t].session.account] = task[t].session]
    BY <1>4, InsertSessionFacts DEF disk, SessionsBy
  <2>2. \A a \in Accounts : sessions'[a] = sessions[a] \/ sessions'[a] = task[t].session
    BY <2>1 DEF Shape, StoresShape
  <2>3. \A a \in Accounts : sessions'[a] # NoSession /\ s = Persisted(sessions'[a]) => Noted(s)
    BY <1>4, <2>2 DEF Noted
  <2>4. /\ file'.accounts # Missing /\ s \in file'.accounts => Noted(s)
        /\ tmp'.accounts # Missing /\ s \in tmp'.accounts => Noted(s)
    BY <2>1 DEF Noted
  <2>5. ~ SavesAccounts(task'[t])
    BY <2>1 DEF SavesAccounts, Saving
  <2> QED BY <2>1, <2>3, <2>4, <2>5, NotedFrom
<1>5. ASSUME NEW t \in Tasks, Snapshot(t) PROVE Noted(s)
  <2>1. OnlyTask(t) /\ UNCHANGED <<sessions, file, tmp>> /\ task'[t].doc = Document
    BY <1>5, SnapshotFacts DEF memory, disk
  <2>2. \A a \in Accounts : sessions'[a] # NoSession /\ s = Persisted(sessions'[a]) => Noted(s)
    BY <2>1 DEF Noted
  <2>3. /\ file'.accounts # Missing /\ s \in file'.accounts => Noted(s)
        /\ tmp'.accounts # Missing /\ s \in tmp'.accounts => Noted(s)
    BY <2>1 DEF Noted
  <2>4. s \in Document => Noted(s)
    BY DEF Document, Noted
  <2> QED BY <2>1, <2>2, <2>3, <2>4, NotedFrom
<1>6. ASSUME NEW t \in Tasks, WriteTemporary(t) PROVE Noted(s)
  <2>1. /\ OnlyTask(t) /\ UNCHANGED <<sessions, file>> /\ task[t].pc = "write"
        /\ tmp' = [tmp EXCEPT ![Name(task[t])] = task[t].doc]
        /\ task'[t].doc = task[t].doc /\ task'[t].op = task[t].op
    BY <1>6, WriteTemporaryFacts DEF memory, Moved
  <2>2. CallShape(task[t], calls, leaving) /\ task[t] # Idle /\ task[t].pc \in Saving
    BY <2>1, InFlight DEF Saving
  <2>3. SavesAccounts(task'[t]) => SavesAccounts(task[t])
    BY <2>1, <2>2 DEF SavesAccounts, Configures
  <2>4. task'[t] # Idle /\ SavesAccounts(task'[t]) /\ s \in task'[t].doc => Noted(s)
    BY <2>1, <2>2, <2>3 DEF Noted, Running
  <2>5. tmp'.accounts # Missing /\ s \in tmp'.accounts => Noted(s)
    <3>1. CASE Name(task[t]) = "accounts"
      <4>1. tmp'.accounts = task[t].doc
        BY <2>1, <3>1 DEF Shape, StoresShape, Documents
      <4>2. SavesAccounts(task[t])
        BY <2>2, <3>1 DEF SavesAccounts, Configures, Name
      <4> QED BY <2>2, <4>1, <4>2 DEF Noted, Running
    <3>2. CASE Name(task[t]) # "accounts"
      <4>1. tmp'.accounts = tmp.accounts
        BY <2>1, <3>2 DEF Shape, StoresShape, Documents
      <4> QED BY <4>1 DEF Noted
    <3> QED BY <3>1, <3>2
  <2>6. \A a \in Accounts : sessions'[a] # NoSession /\ s = Persisted(sessions'[a]) => Noted(s)
    BY <2>1 DEF Noted
  <2>7. file'.accounts # Missing /\ s \in file'.accounts => Noted(s)
    BY <2>1 DEF Noted
  <2> QED BY <2>1, <2>4, <2>5, <2>6, <2>7, NotedFrom
<1>7. ASSUME NEW t \in Tasks, CheckOld(t) PROVE Noted(s)
  <2>1. /\ OnlyTask(t) /\ UNCHANGED <<sessions, file, tmp>> /\ task[t].pc = "check"
        /\ task'[t].doc = task[t].doc /\ task'[t].op = task[t].op
    BY <1>7, CheckOldFacts DEF memory, disk, Moved
  <2>2. task[t] # Idle /\ task[t].pc \in Saving
    BY <2>1, InFlight DEF Saving
  <2> QED BY <2>1, <2>2, NotedKept DEF SavesAccounts, Configures
<1>8. ASSUME NEW t \in Tasks, RemoveOld(t) PROVE Noted(s)
  <2>1. /\ OnlyTask(t) /\ UNCHANGED <<sessions, tmp>> /\ task[t].pc = "remove"
        /\ task'[t] # Idle => task'[t].doc = task[t].doc /\ task'[t].op = task[t].op
        /\ file' = [file EXCEPT ![Name(task[t])] = Missing]
    BY <1>8, RemoveOldFacts DEF memory, Moved
  <2>2. task[t] # Idle /\ task[t].pc \in Saving
    BY <2>1, InFlight DEF Saving
  <2>3. task'[t] # Idle /\ SavesAccounts(task'[t]) /\ s \in task'[t].doc => Noted(s)
    BY <2>1, <2>2 DEF Noted, Running, SavesAccounts, Configures
  <2>4. file'.accounts \in {file.accounts, Missing}
    BY <2>1 DEF Shape, StoresShape, Documents
  <2>5. file'.accounts # Missing /\ s \in file'.accounts => Noted(s)
    BY <2>4 DEF Noted
  <2>6. \A a \in Accounts : sessions'[a] # NoSession /\ s = Persisted(sessions'[a]) => Noted(s)
    BY <2>1 DEF Noted
  <2>7. tmp'.accounts # Missing /\ s \in tmp'.accounts => Noted(s)
    BY <2>1 DEF Noted
  <2> QED BY <2>1, <2>3, <2>5, <2>6, <2>7, NotedFrom
<1>9. ASSUME NEW t \in Tasks, Rename(t) PROVE Noted(s)
  <2>1. /\ OnlyTask(t) /\ sessions' = sessions /\ (RenamedAway(t) \/ RenamedIn(t))
        /\ task[t].pc = "rename"
    BY <1>9, RenameFacts
  <2>2. task'[t] = Idle \/ ~ SavesAccounts(task'[t])
    BY <2>1 DEF RenamedAway, RenamedIn, SavesAccounts, Saving
  <2>3. CASE RenamedAway(t)
    BY <2>1, <2>2, <2>3, NotedKept DEF RenamedAway, disk
  <2>4. CASE RenamedIn(t)
    <3>1. /\ file' = [file EXCEPT ![Name(task[t])] = tmp[Name(task[t])]]
          /\ tmp' = [tmp EXCEPT ![Name(task[t])] = Missing]
      BY <2>4 DEF RenamedIn
    <3>2. file'.accounts \in {file.accounts, tmp.accounts} /\ tmp'.accounts \in {tmp.accounts, Missing}
      BY <3>1 DEF Shape, StoresShape, Documents, Name
    <3>3. /\ file'.accounts # Missing /\ s \in file'.accounts => Noted(s)
          /\ tmp'.accounts # Missing /\ s \in tmp'.accounts => Noted(s)
      BY <3>2 DEF Noted
    <3>4. \A a \in Accounts : sessions'[a] # NoSession /\ s = Persisted(sessions'[a]) => Noted(s)
      BY <2>1 DEF Noted
    <3> QED BY <2>1, <2>2, <3>3, <3>4, NotedFrom
  <2> QED BY <2>1, <2>3, <2>4
<1>10. ASSUME NEW t \in Tasks, Interrupted(t) PROVE Noted(s)
  BY <1>10, InterruptedFacts, NotedKept DEF memory, disk
<1>14. ASSUME NEW t \in Tasks, RenameDropped(t) PROVE Noted(s)
  <2>1. /\ OnlyTask(t) /\ sessions' = sessions /\ task'[t] = Idle
        /\ file' = [file EXCEPT ![Name(task[t])] = tmp[Name(task[t])]]
        /\ tmp' = [tmp EXCEPT ![Name(task[t])] = Missing]
    BY <1>14, RenameDroppedFacts DEF memory
  <2>2. file'.accounts \in {file.accounts, tmp.accounts} /\ tmp'.accounts \in {tmp.accounts, Missing}
    BY <2>1 DEF Shape, StoresShape, Documents, Name
  <2>3. /\ file'.accounts # Missing /\ s \in file'.accounts => Noted(s)
        /\ tmp'.accounts # Missing /\ s \in tmp'.accounts => Noted(s)
    BY <2>2 DEF Noted
  <2>4. \A a \in Accounts : sessions'[a] # NoSession /\ s = Persisted(sessions'[a]) => Noted(s)
    BY <2>1 DEF Noted
  <2> QED BY <2>1, <2>3, <2>4, NotedFrom
<1>11. CASE Kill
  BY <1>11, KillFacts DEF Noted, Running, disk
<1>12. CASE Start
  BY <1>12, StartFacts DEF Noted, Running, disk
<1>13. CASE UNCHANGED vars
  BY <1>13 DEF vars, memory, disk, Noted, Running
<1> QED BY <1>1, <1>2, <1>3, <1>4, <1>5, <1>6, <1>7, <1>8, <1>9, <1>10, <1>11, <1>12, <1>13, <1>14
        DEF Next, Step, Starts

\* Only two steps change the vault, and an account never stops leaving.
LEMMA VaultKept ==
    ASSUME Shape, FlowsApart, [Next]_vars
    PROVE  /\ leaving \subseteq leaving'
           /\ vault' = vault \/ \E t \in Tasks : StoreSecret(t) \/ DeleteSecret(t)
<1>1. ASSUME NEW t \in Tasks, Starts(t) PROVE vault' = vault /\ leaving' = leaving
  BY <1>1, StartsFacts
<1>2. ASSUME NEW t \in Tasks, Answer(t) PROVE vault' = vault /\ leaving \subseteq leaving'
  BY <1>2, AnswerFacts DEF AnswerEnds, SessionComes, AccountLeaves
<1>3. ASSUME NEW t \in Tasks, StoreSecret(t) \/ DeleteSecret(t) PROVE leaving' = leaving
  BY <1>3, StoreSecretFacts, DeleteSecretFacts DEF history
<1>4. ASSUME NEW t \in Tasks, InsertSession(t) \/ Snapshot(t) \/ WriteTemporary(t) \/ CheckOld(t)
                              \/ RemoveOld(t)
      PROVE  vault' = vault /\ leaving' = leaving
  BY <1>4 DEF InsertSession, Snapshot, WriteTemporary, CheckOld, RemoveOld, history
<1>5. ASSUME NEW t \in Tasks, Rename(t) \/ Interrupted(t) \/ RenameDropped(t)
      PROVE  vault' = vault /\ leaving' = leaving
  BY <1>5, RenameFacts, InterruptedFacts, RenameDroppedFacts
<1>6. Kill \/ Start \/ UNCHANGED vars => vault' = vault /\ leaving' = leaving
  BY DEF Kill, Start, vars, history
<1> QED BY <1>1, <1>2, <1>3, <1>4, <1>5, <1>6 DEF Next, Step, Starts

\* A call that stores secrets has just got its session, stores one, or waits.
LEMMA SecretsFrom ==
    ASSUME Shape, FlowsApart, [Next]_vars, NEW u \in Tasks, task'[u].pc = "secrets"
    PROVE  \/ Answer(u) /\ SessionComes(u)
           \/ StoreSecret(u)
           \/ task'[u] = task[u]
<1>0. task'[u] # Idle
  BY DEF Idle
<1>1. ASSUME NEW t \in Tasks, Starts(t) PROVE task'[u] = task[u]
  BY <1>0, <1>1, StartsFacts DEF OnlyTask, Fresh
<1>2. ASSUME NEW t \in Tasks, Answer(t) PROVE task'[u] = task[u] \/ (Answer(u) /\ SessionComes(u))
  BY <1>0, <1>2, AnswerFacts DEF OnlyTask, AnswerEnds, AccountLeaves
<1>3. ASSUME NEW t \in Tasks, StoreSecret(t) PROVE task'[u] = task[u] \/ StoreSecret(u)
  BY <1>3, StoreSecretFacts DEF OnlyTask
<1>4. ASSUME NEW t \in Tasks, InsertSession(t) \/ DeleteSecret(t) \/ Snapshot(t) \/ WriteTemporary(t)
      PROVE  task'[u] = task[u]
  BY <1>4, InsertSessionFacts, DeleteSecretFacts, SnapshotFacts, WriteTemporaryFacts DEF OnlyTask
<1>5. ASSUME NEW t \in Tasks, CheckOld(t) \/ RemoveOld(t) PROVE task'[u] = task[u]
  BY <1>0, <1>5, CheckOldFacts, RemoveOldFacts DEF OnlyTask
<1>6. ASSUME NEW t \in Tasks, Rename(t) \/ Interrupted(t) \/ RenameDropped(t) PROVE task'[u] = task[u]
  BY <1>0, <1>6, RenameFacts, InterruptedFacts, RenameDroppedFacts DEF OnlyTask, RenamedAway, RenamedIn
<1>7. Kill \/ Start => FALSE
  BY <1>0, KillFacts, StartFacts
<1>8. UNCHANGED vars => task'[u] = task[u]
  BY DEF vars
<1> QED BY <1>1, <1>2, <1>3, <1>4, <1>5, <1>6, <1>7, <1>8 DEF Next, Step, Starts

\* What one store does to the vault.
LEMMA TokenStored ==
    ASSUME Shape, NEW t \in Tasks, StoreSecret(t)
    PROVE  \E n \in task[t].todo :
               /\ n \in Names /\ task[t].session \in SessionsBy(calls)
               /\ task[t].session.tokens[n] # 0
               /\ task'[t].todo = task[t].todo \ {n} /\ task'[t].session = task[t].session
               /\ \A a \in Accounts, m \in Names :
                    vault'[a][m] = IF a = task[t].session.account /\ m = n
                                   THEN task[t].session.tokens[n] ELSE vault[a][m]
<1>1. PICK n \in task[t].todo :
        /\ task'[t].todo = task[t].todo \ {n}
        /\ vault' = [vault EXCEPT ![task[t].session.account][n] = task[t].session.tokens[n]]
  BY StoreSecretFacts
<1>2. PICK c : c = task[t]
  OBVIOUS
<1>3. CallShape(c, calls, leaving) /\ c.pc = "secrets"
  BY <1>2, StoreSecretFacts, InFlight
<1>4. c.session \in SessionsBy(calls) /\ n \in Names /\ c.session.tokens[n] # 0
  BY <1>1, <1>2, <1>3 DEF CallShape, Calls, HasSession, Configures, Saving
<1>5. c.session.account \in Accounts
  BY <1>4 DEF SessionsBy
<1>6. \A a \in Accounts, m \in Names :
        vault'[a][m] = IF a = c.session.account /\ m = n THEN c.session.tokens[n] ELSE vault[a][m]
  BY <1>1, <1>2, <1>4, <1>5 DEF Shape, StoresShape
<1>7. task'[t].session = task[t].session
  BY StoreSecretFacts DEF Moved
<1> QED BY <1>1, <1>2, <1>4, <1>6, <1>7

\* What one deletion does to the vault.
LEMMA TokenDeleted ==
    ASSUME Shape, NEW t \in Tasks, DeleteSecret(t)
    PROVE  /\ task[t].account \in leaving
           /\ \E n \in task[t].todo :
               /\ n \in Names
               /\ task'[t].todo = task[t].todo \ {n}
               /\ task'[t].pc = IF task[t].todo = {n} THEN "snapshot" ELSE "forget"
               /\ \A a \in Accounts, m \in Names :
                    vault'[a][m] = IF a = task[t].account /\ m = n THEN 0 ELSE vault[a][m]
<1>1. PICK n \in task[t].todo :
        /\ task'[t].todo = task[t].todo \ {n}
        /\ task'[t].pc = IF task[t].todo = {n} THEN "snapshot" ELSE "forget"
        /\ vault' = [vault EXCEPT ![task[t].account][n] = 0]
  BY DeleteSecretFacts
<1>2. PICK c : c = task[t]
  OBVIOUS
<1>3. CallShape(c, calls, leaving) /\ c.pc = "forget" /\ c.op = "logout"
  BY <1>2, DeleteSecretFacts, InFlight
<1>4. c.account \in leaving /\ c.account \in Accounts /\ n \in Names
  BY <1>1, <1>2, <1>3 DEF CallShape, Calls
<1>6. \A a \in Accounts, m \in Names :
        vault'[a][m] = IF a = c.account /\ m = n THEN 0 ELSE vault[a][m]
  BY <1>1, <1>2, <1>4 DEF Shape, StoresShape
<1> QED BY <1>1, <1>2, <1>4, <1>6

\* The Minecraft token of an account that does not leave stays.
LEMMA TokenStays ==
    ASSUME Shape, FlowsApart, [Next]_vars, NEW a \in Accounts, Counts(a)', vault[a][Token] # 0
    PROVE  vault'[a][Token] # 0 /\ Counts(a)
<1>0. Counts(a) /\ Token \in Names
  BY VaultKept, NamesAre DEF Counts
<1>1. CASE vault' = vault
  BY <1>0, <1>1
<1>2. ASSUME NEW t \in Tasks, StoreSecret(t) PROVE vault'[a][Token] # 0
  BY <1>0, <1>2, TokenStored
<1>3. ASSUME NEW t \in Tasks, DeleteSecret(t) PROVE vault'[a][Token] # 0
  BY <1>0, <1>3, TokenDeleted DEF Counts
<1> QED BY <1>0, <1>1, <1>2, <1>3, VaultKept

LEMMA TokensStep ==
    ASSUME Shape, FlowsApart, TokensKept, [Next]_vars
    PROVE  TokensKept'
<1>1. ASSUME NEW s \in Entry, Noted(s)', Counts(s.account)' PROVE vault'[s.account][Token] # 0
  <2>0. s.account \in Accounts /\ Counts(s.account)
    BY <1>1, VaultKept DEF Entry, Counts
  <2>1. CASE Noted(s)
    BY <1>1, <2>0, <2>1, TokenStays DEF TokensKept
  <2>2. ASSUME NEW t \in Tasks, InsertSession(t), s = Persisted(task[t].session)
        PROVE  vault'[s.account][Token] # 0
    <3>1. task[t].pc = "secrets" /\ task[t].todo = {} /\ task[t].session.account = s.account
      BY <2>2, InsertSessionFacts DEF Persisted
    <3>2. vault[s.account][Token] # 0
      BY <2>0, <3>1 DEF TokensKept
    <3> QED BY <1>1, <2>0, <3>2, TokenStays
  <2> QED BY <1>1, <2>1, <2>2, NotedGrows
<1>2. ASSUME NEW u \in Tasks, task'[u].pc = "secrets", NEW b, b = task'[u].session.account, Counts(b)'
      PROVE  Token \in task'[u].todo \/ vault'[b][Token] # 0
  <2>0. Token \in Names
    BY NamesAre
  <2>1. CASE SessionComes(u)
    BY <1>2, <2>0, <2>1 DEF SessionComes, SecretsOf, SessionsBy, Counts
  <2>2. CASE StoreSecret(u)
    <3>1. PICK n \in task[u].todo :
               /\ n \in Names /\ task[u].session \in SessionsBy(calls)
               /\ task[u].session.tokens[n] # 0
               /\ task'[u].todo = task[u].todo \ {n} /\ task'[u].session = task[u].session
               /\ \A a \in Accounts, m \in Names :
                    vault'[a][m] = IF a = task[u].session.account /\ m = n
                                   THEN task[u].session.tokens[n] ELSE vault[a][m]
      BY <2>2, TokenStored
    <3>2. task[u].session.account \in Accounts
      BY <3>1 DEF SessionsBy
    <3>3. Counts(task[u].session.account)
      BY <1>2, <3>1, VaultKept DEF Counts
    <3>4. Token \in task[u].todo \/ vault[task[u].session.account][Token] # 0
      BY <2>2, <3>3, StoreSecretFacts DEF TokensKept
    <3>5. b = task[u].session.account
      BY <1>2, <3>1
    <3>6. CASE n = Token
      BY <3>1, <3>2, <3>5, <3>6
    <3>7. CASE n # Token
      BY <2>0, <3>1, <3>2, <3>4, <3>5, <3>7
    <3> QED BY <3>6, <3>7
  <2>3. CASE task'[u] = task[u]
    <3>1. CallShape(task[u], calls, leaving) /\ task[u].pc = "secrets"
      BY <1>2, <2>3, InFlight
    <3>2. task[u].session.account \in Accounts
      BY <3>1 DEF CallShape, Calls, HasSession, Configures, Saving, SessionsBy
    <3>3. Counts(task[u].session.account)
      BY <1>2, <2>3, VaultKept DEF Counts
    <3>4. Token \in task[u].todo \/ vault[task[u].session.account][Token] # 0
      BY <3>1, <3>3 DEF TokensKept
    <3> QED BY <1>2, <2>3, <3>2, <3>4, TokenStays
  <2> QED BY <1>2, <2>1, <2>2, <2>3, SecretsFrom
<1>3. ASSUME NEW u \in Tasks, task'[u].pc = "secrets", Counts(task[u].session.account)'
      PROVE  Token \in task'[u].todo \/ vault'[task'[u].session.account][Token] # 0
  BY <1>2, <1>3 DEF Counts
<1> QED BY <1>1, <1>3 DEF TokensKept

-----------------------------------------------------------------------------
(***************************************************************************)
(* One call at a time.                                                     *)
(***************************************************************************)

\* A call goes on.
Acts(t) == Step(t) \/ Interrupted(t) \/ RenameDropped(t)

\* What call t does when no other runs.
Alone(t) ==
    /\ \A u \in Tasks \ {t} : task[u] = Idle
    /\ \A u \in Tasks \ {t} : task'[u] = Idle

LEMMA ActsFacts ==
    ASSUME Shape, NEW t \in Tasks, Acts(t)
    PROVE  /\ up /\ OnlyTask(t) /\ task[t] # Idle
           /\ UNCHANGED <<up, callers, calls>>
           /\ task'[t] # Idle => /\ task'[t].serial = task[t].serial /\ task'[t].op = task[t].op
                                 /\ task'[t].account = task[t].account
                                 /\ task'[t].provider = task[t].provider
<1>0. up /\ UNCHANGED <<up, callers, calls>>
  BY DEF Acts, Step, Answer, StoreSecret, InsertSession, DeleteSecret, Snapshot, WriteTemporary,
         CheckOld, RemoveOld, Rename, Interrupted, RenameDropped
<1>1. CASE Answer(t)
  BY <1>1, AnswerFacts DEF AnswerEnds, SessionComes, AccountLeaves, Moved, Idle
<1>2. CASE StoreSecret(t)
  BY <1>2, <1>0, StoreSecretFacts, InFlight DEF Moved
<1>3. CASE InsertSession(t)
  BY <1>3, <1>0, InsertSessionFacts, InFlight DEF Moved
<1>4. CASE DeleteSecret(t)
  BY <1>4, <1>0, DeleteSecretFacts, InFlight DEF Moved
<1>5. CASE Snapshot(t)
  BY <1>5, <1>0, SnapshotFacts, InFlight DEF Moved
<1>6. CASE WriteTemporary(t)
  BY <1>6, <1>0, WriteTemporaryFacts, InFlight DEF Moved
<1>7. CASE CheckOld(t)
  BY <1>7, <1>0, CheckOldFacts, InFlight DEF Moved
<1>8. CASE RemoveOld(t)
  BY <1>8, <1>0, RemoveOldFacts, InFlight DEF Moved
<1>9. CASE Rename(t)
  BY <1>9, RenameFacts DEF RenamedAway, RenamedIn, Moved, Idle
<1>10. CASE Interrupted(t)
  BY <1>10, InterruptedFacts DEF Interrupted
<1>11. CASE RenameDropped(t)
  BY <1>11, RenameDroppedFacts
<1> QED BY <1>1, <1>2, <1>3, <1>4, <1>5, <1>6, <1>7, <1>8, <1>9, <1>10, <1>11 DEF Acts, Step

\* Only a call that ends halfway through a save of the registry leaves the process torn.
LEMMA TornFrom ==
    ASSUME NEW t \in Tasks, Starts(t) \/ Acts(t)
    PROVE  torn' = torn \/ torn' = (torn \/ Halfway(task[t]))
<1>1. Starts(t) => torn' = torn
  BY DEF Starts, Begin, Continue, CancelFlow, Refresh, IdentityForLaunch, Logout, Configure, history
<1>2. Step(t) => torn' = torn
  BY DEF Step, Answer, StoreSecret, InsertSession, DeleteSecret, Snapshot, WriteTemporary, CheckOld,
         RemoveOld, Rename, history
<1>3. Interrupted(t) \/ RenameDropped(t) => torn' = (torn \/ Halfway(task[t]))
  BY DEF Interrupted, RenameDropped
<1> QED BY <1>1, <1>2, <1>3 DEF Acts

LEMMA NextIs ==
    ASSUME [Next]_vars
    PROVE  \/ \E t \in Tasks : Starts(t) \/ Acts(t)
           \/ Kill \/ Start \/ UNCHANGED vars
BY DEF Next, Starts, Acts

LEMMA NoneRuns ==
    ASSUME callers = 1, Cardinality(Running) < callers PROVE Running = {}
<1>1. IsFiniteSet(Running)
  BY AuthAssumption, FS_Subset DEF Running
<1>2. Cardinality(Running) \in Nat
  BY <1>1, FS_CardinalityType
<1>3. Cardinality(Running) = 0
  BY <1>2
<1> QED BY <1>1, <1>3, FS_EmptySet

LEMMA CallersKept ==
    ASSUME Shape, FlowsApart, [Next]_vars PROVE callers' = callers
<1>1. ASSUME NEW t \in Tasks, Starts(t) PROVE callers' = callers
  BY <1>1, StartsFacts
<1>2. ASSUME NEW t \in Tasks, Acts(t) PROVE callers' = callers
  BY <1>2, ActsFacts
<1>3. Kill \/ Start \/ UNCHANGED vars => callers' = callers
  BY DEF Kill, Start, vars
<1> QED BY <1>1, <1>2, <1>3, NextIs

\* The only call that starts, goes on, or has ended is t.
LEMMA Lone ==
    ASSUME Shape, FlowsApart, callers = 1, OneCall, NEW t \in Tasks, Starts(t) \/ Acts(t)
    PROVE  /\ Alone(t) /\ up /\ up'
           /\ Starts(t) => task[t] = Idle
           /\ Acts(t) => task[t] # Idle
<1>1. CASE Starts(t)
  <2>1. /\ up /\ up' = up /\ Cardinality(Running) < callers /\ task[t] = Idle /\ OnlyTask(t)
    BY <1>1, StartsFacts
  <2>2. Running = {}
    BY <2>1, NoneRuns
  <2> QED BY <2>1, <2>2, ActsFacts DEF Alone, OnlyTask, Running
<1>2. CASE Acts(t)
  <2>1. up /\ up' = up /\ task[t] # Idle /\ OnlyTask(t)
    BY <1>2, ActsFacts
  <2> QED BY <2>1, StartsFacts DEF Alone, OnlyTask, Running, OneCall
<1> QED BY <1>1, <1>2

LEMMA OneCallStep ==
    ASSUME Shape, FlowsApart, callers = 1, OneCall, [Next]_vars PROVE OneCall'
<1>1. ASSUME NEW t \in Tasks, Starts(t) PROVE OneCall'
  <2>1. Alone(t) /\ calls' = calls + 1 /\ (task'[t] = Idle \/ task'[t].serial = calls + 1)
    BY <1>1, Lone, StartsFacts DEF Fresh
  <2> QED BY <2>1 DEF OneCall, Running, Alone
<1>2. ASSUME NEW t \in Tasks, Acts(t) PROVE OneCall'
  <2>1. /\ Alone(t) /\ calls' = calls /\ task[t] # Idle
        /\ task'[t] # Idle => task'[t].serial = task[t].serial
    BY <1>2, Lone, ActsFacts
  <2> QED BY <2>1 DEF OneCall, Running, Alone
<1>3. CASE Kill \/ Start
  BY <1>3, KillFacts, StartFacts DEF OneCall, Running
<1>4. CASE UNCHANGED vars
  BY <1>4 DEF OneCall, Running, vars
<1> QED BY <1>1, <1>2, <1>3, <1>4, NextIs

\* The session a call works on is the one it had, the one of the map when it starts, or the
\* one its provider has returned.
LEMMA SessionFrom ==
    ASSUME Shape, FlowsApart, [Next]_vars, NEW u \in Tasks, task'[u] # Idle, HasSession(task'[u])
    PROVE  \/ /\ task[u] # Idle /\ HasSession(task[u])
              /\ task'[u].session = task[u].session /\ task'[u].op = task[u].op
           \/ Starts(u) /\ Fresh(u)
           \/ Answer(u) /\ SessionComes(u)
<1> DEFINE Same == /\ task[u] # Idle /\ HasSession(task[u])
                   /\ task'[u].session = task[u].session /\ task'[u].op = task[u].op
<1>0. task'[u] = task[u] => Same
  OBVIOUS
<1>1. ASSUME NEW t \in Tasks, Starts(t) PROVE Same \/ (Starts(u) /\ Fresh(u))
  BY <1>0, <1>1, StartsFacts DEF OnlyTask
<1>2. ASSUME NEW t \in Tasks, Answer(t) PROVE Same \/ (Answer(u) /\ SessionComes(u))
  <2>1. CASE u # t
    BY <1>0, <1>2, <2>1, AnswerFacts DEF OnlyTask
  <2>2. CASE u = t
    <3>1. task[u].pc = "call" /\ (SessionComes(u) \/ AccountLeaves(u))
      BY <1>2, <2>2, AnswerFacts DEF AnswerEnds
    <3>2. CASE AccountLeaves(u)
      BY <3>1, <3>2 DEF AccountLeaves, Moved, HasSession, Idle
    <3> QED BY <1>2, <2>2, <3>1, <3>2
  <2> QED BY <2>1, <2>2
<1>3. ASSUME NEW t \in Tasks, OnlyTask(t), task[t].pc # "idle", task[t].pc # "call",
             task'[t] = Idle \/ Moved(task[t], task'[t])
      PROVE  Same
  BY <1>0, <1>3 DEF OnlyTask, Moved, HasSession, Idle
<1>4. ASSUME NEW t \in Tasks, StoreSecret(t) \/ InsertSession(t) \/ DeleteSecret(t) PROVE Same
  BY <1>3, <1>4, StoreSecretFacts, InsertSessionFacts, DeleteSecretFacts
<1>5. ASSUME NEW t \in Tasks, Snapshot(t) \/ WriteTemporary(t) \/ CheckOld(t) PROVE Same
  BY <1>3, <1>5, SnapshotFacts, WriteTemporaryFacts, CheckOldFacts
<1>6. ASSUME NEW t \in Tasks, RemoveOld(t) \/ Rename(t) PROVE Same
  BY <1>3, <1>6, RemoveOldFacts, RenameFacts DEF RenamedAway, RenamedIn
<1>7. ASSUME NEW t \in Tasks, Interrupted(t) \/ RenameDropped(t) PROVE Same
  BY <1>0, <1>7, InterruptedFacts, RenameDroppedFacts DEF OnlyTask
<1>8. Kill \/ Start => FALSE
  BY KillFacts, StartFacts
<1>9. UNCHANGED vars => task'[u] = task[u]
  BY DEF vars
<1> QED BY <1>0, <1>1, <1>2, <1>4, <1>5, <1>6, <1>7, <1>8, <1>9, NextIs DEF Acts, Step

\* A session of the map was there, has been inserted, or has been restored.
LEMMA MapFrom ==
    ASSUME Shape, FlowsApart, [Next]_vars, NEW a \in Accounts, sessions'[a] # NoSession
    PROVE  \/ sessions'[a] = sessions[a]
           \/ \E t \in Tasks : InsertSession(t) /\ sessions'[a] = task[t].session /\ task[t].session.account = a
           \/ Start
<1>1. ASSUME NEW t \in Tasks, Starts(t) PROVE sessions'[a] = sessions[a]
  BY <1>1, StartsFacts
<1>2. ASSUME NEW t \in Tasks, Answer(t) PROVE sessions'[a] = sessions[a]
  BY <1>2, AnswerFacts DEF AnswerEnds, SessionComes, AccountLeaves, Shape, StoresShape
<1>3. ASSUME NEW t \in Tasks, InsertSession(t)
      PROVE  \/ sessions'[a] = sessions[a]
             \/ sessions'[a] = task[t].session /\ task[t].session.account = a
  <2>1. /\ sessions' = [sessions EXCEPT ![task[t].session.account] = task[t].session]
        /\ task[t].session.account \in Accounts
    BY <1>3, InsertSessionFacts DEF SessionsBy
  <2> QED BY <2>1 DEF Shape, StoresShape
<1>4. ASSUME NEW t \in Tasks, StoreSecret(t) \/ DeleteSecret(t) \/ Snapshot(t) \/ WriteTemporary(t)
                              \/ CheckOld(t) \/ RemoveOld(t) \/ Rename(t) \/ Interrupted(t)
                              \/ RenameDropped(t)
      PROVE  sessions'[a] = sessions[a]
  BY <1>4 DEF StoreSecret, DeleteSecret, Snapshot, WriteTemporary, CheckOld, RemoveOld, Rename,
              Interrupted, RenameDropped, memory
<1>5. Kill => FALSE
  BY KillFacts
<1>6. UNCHANGED vars => sessions' = sessions
  BY DEF vars, memory
<1> QED BY <1>1, <1>2, <1>3, <1>4, <1>5, <1>6, NextIs DEF Acts, Step

\* What the types say of tokens and metadata.
LEMMA TokenTypes ==
    ASSUME Shape
    PROVE  /\ calls \in Nat /\ Token \in Names
           /\ \A a \in Accounts : vault[a][Token] \in 0..calls
           /\ \A s \in SessionsBy(calls) :
                /\ s.account \in Accounts /\ s.tokens[Token] \in 0..calls /\ s.life \in Nat
                /\ Persisted(s) \in Entry /\ Persisted(s).account = s.account
                /\ Persisted(s).life = s.life
           /\ \A s \in Entry : s.account \in Accounts /\ s.life \in Nat
           /\ \A u \in Running : HasSession(task[u]) => task[u].session \in SessionsBy(calls)
           /\ \A a \in Accounts : sessions[a] # NoSession =>
                sessions[a] \in SessionsBy(calls) /\ sessions[a].account = a /\ Noted(Persisted(sessions[a]))
<1>1. calls \in Nat /\ Token \in Names
  BY AuthAssumption, NamesAre DEF Shape, StoresShape
<1>2. \A a \in Accounts : vault[a][Token] \in 0..calls
  BY <1>1 DEF Shape, StoresShape
<1>3. ASSUME NEW s \in SessionsBy(calls)
      PROVE  /\ s.account \in Accounts /\ s.tokens[Token] \in 0..calls /\ s.life \in Nat
             /\ Persisted(s) \in Entry /\ Persisted(s).account = s.account
             /\ Persisted(s).life = s.life
  BY <1>1 DEF SessionsBy, Persisted, Entry
<1>4. \A s \in Entry : s.account \in Accounts /\ s.life \in Nat
  BY DEF Entry
<1>5. \A u \in Running : HasSession(task[u]) => task[u].session \in SessionsBy(calls)
  BY DEF Running, Shape, TasksShape, CallShape
<1>6. \A a \in Accounts : sessions[a] # NoSession =>
                sessions[a] \in SessionsBy(calls) /\ sessions[a].account = a /\ Noted(Persisted(sessions[a]))
  BY DEF Shape, StoresShape, Noted
<1> QED BY <1>1, <1>2, <1>3, <1>4, <1>5, <1>6

\* A call that inserts its session works on one.
LEMMA Inserting ==
    ASSUME Shape, NEW t \in Tasks, InsertSession(t) \/ StoreSecret(t)
    PROVE  /\ t \in Running /\ HasSession(task[t]) /\ task[t].pc = "secrets"
           /\ task[t].op \in {"login", "refresh", "launch"}
<1>1. task[t].pc = "secrets"
  BY InsertSessionFacts, StoreSecretFacts
<1>2. CallShape(task[t], calls, leaving) /\ task[t] # Idle
  BY <1>1, InFlight
<1> QED BY <1>1, <1>2 DEF Running, CallShape, Calls, HasSession, Configures, Saving

LEMMA FreshVault ==
    ASSUME Shape, FlowsApart, OneCall, TokensFresh, [Next]_vars,
           NEW s \in Entry, Noted(s)', Counts(s.account)'
    PROVE  s.life <= vault'[s.account][Token]
<1>0. s.account \in Accounts /\ Counts(s.account) /\ Token \in Names
  BY TokenTypes, VaultKept DEF Counts
<1>1. CASE Noted(s)
  <2>1. /\ s.life <= vault[s.account][Token]
        /\ \A t \in Running : HasSession(task[t]) /\ task[t].session.account = s.account =>
              s.life <= task[t].session.tokens[Token]
    BY <1>0, <1>1 DEF TokensFresh
  <2>2. ASSUME NEW t \in Tasks, StoreSecret(t) PROVE s.life <= vault'[s.account][Token]
    <3>1. t \in Running /\ HasSession(task[t])
      BY <2>2, Inserting
    <3>2. PICK n \in Names : \A a \in Accounts, m \in Names :
              vault'[a][m] = IF a = task[t].session.account /\ m = n
                             THEN task[t].session.tokens[n] ELSE vault[a][m]
      BY <2>2, TokenStored
    <3> QED BY <1>0, <2>1, <3>1, <3>2
  <2>3. ASSUME NEW t \in Tasks, DeleteSecret(t) PROVE s.life <= vault'[s.account][Token]
    BY <1>0, <2>1, <2>3, TokenDeleted DEF Counts
  <2> QED BY <2>1, <2>2, <2>3, VaultKept
<1>2. ASSUME NEW t \in Tasks, InsertSession(t), s = Persisted(task[t].session)
      PROVE  s.life <= vault'[s.account][Token]
  <2>1. /\ t \in Running /\ HasSession(task[t]) /\ task[t].pc = "secrets" /\ task[t].todo = {}
        /\ vault' = vault
    BY <1>2, Inserting, InsertSessionFacts
  <2>2. s.account = task[t].session.account /\ s.life = task[t].session.life
    BY <1>2 DEF Persisted
  <2> QED BY <1>0, <2>1, <2>2 DEF TokensFresh
<1> QED BY <1>1, <1>2, NotedGrows

LEMMA FreshMap ==
    ASSUME Shape, FlowsApart, OneCall, TokensFresh, [Next]_vars,
           NEW s \in Entry, Noted(s)', Counts(s.account)', sessions'[s.account] # NoSession
    PROVE  s.life <= sessions'[s.account].tokens[Token]
<1>0. s.account \in Accounts /\ Counts(s.account)
  BY TokenTypes, VaultKept DEF Counts
<1>1. ASSUME NEW t \in Tasks, InsertSession(t), s = Persisted(task[t].session)
      PROVE  s.life <= sessions'[s.account].tokens[Token]
  <2>1. /\ t \in Running /\ HasSession(task[t])
        /\ sessions' = [sessions EXCEPT ![task[t].session.account] = task[t].session]
    BY <1>1, Inserting, InsertSessionFacts
  <2>2. s.account = task[t].session.account /\ s.life = task[t].session.life
    BY <1>1 DEF Persisted
  <2>3. sessions'[s.account] = task[t].session
    BY <1>0, <2>1, <2>2 DEF Shape, StoresShape
  <2> QED BY <1>0, <2>1, <2>2, <2>3 DEF TokensFresh
<1>2. CASE Noted(s)
  <2>1. /\ s.life <= vault[s.account][Token]
        /\ sessions[s.account] # NoSession => s.life <= sessions[s.account].tokens[Token]
        /\ \A t \in Running : HasSession(task[t]) /\ task[t].session.account = s.account =>
              s.life <= task[t].session.tokens[Token]
    BY <1>0, <1>2 DEF TokensFresh
  <2>2. CASE sessions'[s.account] = sessions[s.account]
    BY <2>1, <2>2
  <2>3. ASSUME NEW t \in Tasks, InsertSession(t), sessions'[s.account] = task[t].session,
               task[t].session.account = s.account
        PROVE  s.life <= sessions'[s.account].tokens[Token]
    BY <2>1, <2>3, Inserting
  <2>4. CASE Start
    BY <1>0, <2>1, <2>4, StartFacts
  <2> QED BY <1>0, <2>2, <2>3, <2>4, MapFrom
<1> QED BY <1>1, <1>2, NotedGrows

LEMMA FreshCall ==
    ASSUME Shape, FlowsApart, callers = 1, OneCall, TokensFresh, [Next]_vars,
           NEW u \in Tasks, task'[u] # Idle, HasSession(task'[u]),
           NEW s \in Entry, Noted(s)', Counts(s.account)', task'[u].session.account = s.account
    PROVE  s.life <= task'[u].session.tokens[Token]
<1>0. s.account \in Accounts /\ Counts(s.account)
  BY TokenTypes, VaultKept DEF Counts
<1>1. Noted(s) =>
        /\ s.life <= vault[s.account][Token]
        /\ sessions[s.account] # NoSession => s.life <= sessions[s.account].tokens[Token]
        /\ \A t \in Running : HasSession(task[t]) /\ task[t].session.account = s.account =>
              s.life <= task[t].session.tokens[Token]
  BY <1>0 DEF TokensFresh
<1>2. CASE /\ task[u] # Idle /\ HasSession(task[u])
           /\ task'[u].session = task[u].session
  <2>1. u \in Running
    BY <1>2 DEF Running
  <2>2. ASSUME NEW t \in Tasks, InsertSession(t), s = Persisted(task[t].session)
        PROVE  s.life <= task[u].session.tokens[Token]
    <3>1. t = u
      BY <2>1, <2>2, Inserting DEF OneCall
    <3>2. s.account = task[u].session.account /\ s.life = task[u].session.life
      BY <2>2, <3>1 DEF Persisted
    <3> QED BY <1>0, <1>2, <2>1, <3>2 DEF TokensFresh
  <2> QED BY <1>1, <1>2, <2>1, <2>2, NotedGrows
<1>3. CASE Starts(u) /\ Fresh(u)
  <2>1. /\ \A t \in Tasks : task[t] = Idle
        /\ sessions[task'[u].account] # NoSession /\ task'[u].session = sessions[task'[u].account]
    BY <1>3, Lone DEF Alone, Fresh
  <2>2. ~ \E t \in Tasks : InsertSession(t)
    BY <2>1, Inserting DEF Running
  <2>3. task'[u].account = s.account
    <3>1. task'[u].account \in Accounts
      BY <1>3 DEF Fresh, CallShape, HasSession, Saving, Configures
    <3> QED BY <2>1, <3>1 DEF Shape, StoresShape
  <2> QED BY <1>1, <2>1, <2>2, <2>3, NotedGrows
<1>4. CASE Answer(u) /\ SessionComes(u)
  <2>1. u \in Running /\ task[u].pc = "call"
    BY <1>4, AnswerFacts, InFlight DEF Running
  <2>2. Noted(s)
    BY <2>1, Inserting, NotedGrows DEF OneCall
  <2>3. CASE HasSession(task[u]) /\ task'[u].session = task[u].session
    BY <1>1, <2>1, <2>2, <2>3
  <2>4. CASE task'[u].session.tokens[Token] = task[u].serial
    <3>1. task[u].serial = calls
      BY <2>1 DEF OneCall
    <3> QED BY <1>0, <1>1, <2>2, <2>4, <3>1, TokenTypes
  <2> QED BY <1>0, <1>4, <2>3, <2>4 DEF SessionComes, Counts
<1> QED BY <1>2, <1>3, <1>4, SessionFrom

LEMMA FreshSession ==
    ASSUME Shape, Shape', FlowsApart, callers = 1, OneCall, TokensFresh, [Next]_vars,
           NEW u \in Tasks, task'[u] # Idle, HasSession(task'[u]),
           NEW b, b = task'[u].session.account, Counts(b)'
    PROVE  /\ task'[u].session.life <= task'[u].session.tokens[Token]
           /\ task'[u].pc = "secrets" =>
                 \/ Token \in task'[u].todo
                 \/ vault'[b][Token] = task'[u].session.tokens[Token]
<1>0. Counts(b) /\ Token \in Names
  BY VaultKept, NamesAre DEF Counts
<1>1. task'[u].session.life <= task'[u].session.tokens[Token]
  <2>1. CASE /\ task[u] # Idle /\ HasSession(task[u])
             /\ task'[u].session = task[u].session
    BY <1>0, <2>1 DEF TokensFresh, Running
  <2>2. CASE Starts(u) /\ Fresh(u)
    <3>1. PICK a : a = task'[u].account
      OBVIOUS
    <3>2. a \in Accounts /\ sessions[a] # NoSession /\ task'[u].session = sessions[a]
      BY <2>2, <3>1 DEF Fresh, CallShape, HasSession, Saving, Configures
    <3>3. /\ sessions[a] \in SessionsBy(calls) /\ sessions[a].account = a
          /\ Noted(Persisted(sessions[a]))
      BY <3>2, TokenTypes
    <3>4. /\ Persisted(sessions[a]) \in Entry /\ Persisted(sessions[a]).account = a
          /\ Persisted(sessions[a]).life = sessions[a].life
      BY <3>3, TokenTypes
    <3>5. b = a
      BY <3>2, <3>3
    <3>6. Persisted(sessions[a]).life <= sessions[a].tokens[Token]
      BY <1>0, <3>2, <3>3, <3>4, <3>5 DEF TokensFresh
    <3> QED BY <3>2, <3>4, <3>6
  <2>3. CASE Answer(u) /\ SessionComes(u)
    <3>1. u \in Running /\ Official(task'[u].session.account)
      BY <1>0, <2>3, AnswerFacts, InFlight DEF Running, Counts
    <3>2. CASE HasSession(task[u]) /\ task'[u].session = task[u].session
      BY <1>0, <3>1, <3>2 DEF TokensFresh
    <3>3. CASE task'[u].session.life = task[u].serial /\ task'[u].session.tokens[Token] = task[u].serial
      <4>1. task[u].serial \in Nat
        BY <3>1, TokenTypes DEF OneCall
      <4> QED BY <3>3, <4>1
    <3> QED BY <2>3, <3>1, <3>2, <3>3 DEF SessionComes
  <2> QED BY <2>1, <2>2, <2>3, SessionFrom
<1>2. ASSUME task'[u].pc = "secrets"
      PROVE  \/ Token \in task'[u].todo
             \/ vault'[b][Token] = task'[u].session.tokens[Token]
  <2>1. CASE SessionComes(u)
    <3>1. task'[u].session.tokens[Token] # 0 /\ task'[u].todo = SecretsOf(task'[u].session)
      BY <1>0, <2>1 DEF SessionComes, SessionsBy, Counts
    <3> QED BY <1>0, <3>1 DEF SecretsOf
  <2>2. CASE StoreSecret(u)
    <3>1. PICK n \in Names :
               /\ task[u].session \in SessionsBy(calls)
               /\ task'[u].todo = task[u].todo \ {n} /\ task'[u].session = task[u].session
               /\ \A a \in Accounts, m \in Names :
                    vault'[a][m] = IF a = task[u].session.account /\ m = n
                                   THEN task[u].session.tokens[n] ELSE vault[a][m]
      BY <2>2, TokenStored
    <3>2. b = task[u].session.account /\ b \in Accounts
      BY <3>1, TokenTypes
    <3>3. Token \in task[u].todo \/ vault[b][Token] = task[u].session.tokens[Token]
      BY <1>0, <2>2, <3>2, Inserting DEF TokensFresh
    <3>4. CASE n = Token
      BY <3>1, <3>2, <3>4
    <3>5. CASE n # Token
      BY <1>0, <3>1, <3>2, <3>3, <3>5
    <3> QED BY <3>4, <3>5
  <2>3. CASE task'[u] = task[u] /\ ~ StoreSecret(u)
    <3>1. u \in Running /\ HasSession(task[u])
      BY <2>3 DEF Running
    <3>2. ASSUME NEW t \in Tasks, StoreSecret(t) \/ DeleteSecret(t) PROVE FALSE
      <4>1. t \in Running
        BY <3>2, InFlight, StoreSecretFacts, DeleteSecretFacts DEF Running
      <4>2. t = u
        BY <3>1, <4>1 DEF OneCall
      <4> QED BY <1>2, <2>3, <3>2, <4>2, DeleteSecretFacts
    <3>3. vault' = vault
      BY <3>2, VaultKept
    <3> QED BY <1>0, <1>2, <2>3, <3>1, <3>3 DEF TokensFresh
  <2> QED BY <1>2, <2>1, <2>2, <2>3, SecretsFrom
<1> QED BY <1>1, <1>2

LEMMA FreshStep ==
    ASSUME Shape, Shape', FlowsApart, callers = 1, OneCall, TokensFresh, [Next]_vars
    PROVE  TokensFresh'
<1>1. ASSUME NEW s \in Entry, Noted(s)', Counts(s.account)'
      PROVE  /\ s.life <= vault'[s.account][Token]
             /\ sessions'[s.account] # NoSession => s.life <= sessions'[s.account].tokens[Token]
             /\ \A t \in Running' : HasSession(task'[t]) /\ task'[t].session.account = s.account =>
                  s.life <= task'[t].session.tokens[Token]
  BY <1>1, FreshVault, FreshMap, FreshCall DEF Running
<1>2. ASSUME NEW u \in Running', HasSession(task'[u]), Counts(task[u].session.account)'
      PROVE  /\ task'[u].session.life <= task'[u].session.tokens[Token]
             /\ task'[u].pc = "secrets" =>
                 \/ Token \in task'[u].todo
                 \/ vault'[task'[u].session.account][Token] = task'[u].session.tokens[Token]
  <2>1. PICK b : b = task'[u].session.account
    OBVIOUS
  <2>2. u \in Tasks /\ task'[u] # Idle
    BY DEF Running
  <2>3. Counts(b)'
    BY <1>2, <2>1 DEF Counts
  <2> QED BY <1>2, <2>1, <2>2, <2>3, FreshSession
<1> QED BY <1>1, <1>2 DEF TokensFresh, HasSession

\* accounts.json is what it was, is missing, or is the temporary of a call that renames it.
LEMMA FileFrom ==
    ASSUME Shape, FlowsApart, [Next]_vars
    PROVE  \/ file'.accounts = file.accounts
           \/ file'.accounts = Missing
           \/ \E t \in Tasks : /\ Rename(t) \/ RenameDropped(t)
                               /\ Name(task[t]) = "accounts"
                               /\ file'.accounts = tmp.accounts
<1>1. ASSUME NEW t \in Tasks, Starts(t) PROVE file' = file
  BY <1>1, StartsFacts DEF disk
<1>2. ASSUME NEW t \in Tasks, RemoveOld(t) PROVE file'.accounts \in {file.accounts, Missing}
  BY <1>2, RemoveOldFacts DEF Shape, StoresShape, Documents
<1>3. ASSUME NEW t \in Tasks, Rename(t)
      PROVE  \/ file'.accounts = file.accounts
             \/ RenamedIn(t) /\ Name(task[t]) = "accounts" /\ file'.accounts = tmp.accounts
  <2>1. CASE RenamedAway(t)
    BY <2>1 DEF RenamedAway, disk
  <2>2. CASE RenamedIn(t)
    <3>1. file' = [file EXCEPT ![Name(task[t])] = tmp[Name(task[t])]]
      BY <2>2 DEF RenamedIn
    <3> QED BY <2>2, <3>1 DEF Shape, StoresShape, Documents
  <2> QED BY <1>3, <2>1, <2>2, RenameFacts
<1>4. ASSUME NEW t \in Tasks, Answer(t) \/ StoreSecret(t) \/ InsertSession(t) \/ DeleteSecret(t)
                 \/ Snapshot(t) \/ WriteTemporary(t) \/ CheckOld(t) \/ Interrupted(t)
      PROVE  file' = file
  BY <1>4 DEF Answer, StoreSecret, InsertSession, DeleteSecret, Snapshot, WriteTemporary, CheckOld,
              Interrupted, disk
<1>5. Kill \/ Start \/ UNCHANGED vars => file' = file
  BY DEF Kill, Start, vars, disk
<1>6. ASSUME NEW t \in Tasks, RenameDropped(t)
      PROVE  file'.accounts = file.accounts \/ (Name(task[t]) = "accounts" /\ file'.accounts = tmp.accounts)
  BY <1>6, RenameDroppedFacts DEF Shape, StoresShape, Documents
<1> QED BY <1>1, <1>2, <1>3, <1>4, <1>5, <1>6, NextIs DEF Acts, Step

\* The document a call saves to accounts.json is the one it had or a reading of the map.
LEMMA DocFrom ==
    ASSUME Shape, FlowsApart, [Next]_vars, NEW u \in Tasks, task'[u] # Idle, SavesAccounts(task'[u])
    PROVE  \/ task[u] # Idle /\ SavesAccounts(task[u]) /\ task'[u].doc = task[u].doc
           \/ task'[u].doc = Document
<1> DEFINE Same == task[u] # Idle /\ SavesAccounts(task[u]) /\ task'[u].doc = task[u].doc
<1>0. task'[u] = task[u] => Same
  OBVIOUS
<1>a. task'[u].pc \in Saving
  BY DEF SavesAccounts
<1>1. ASSUME NEW t \in Tasks, Starts(t) PROVE Same
  BY <1>0, <1>1, StartsFacts DEF OnlyTask, Fresh, SavesAccounts, Saving
<1>2. ASSUME NEW t \in Tasks, Answer(t) PROVE Same
  BY <1>0, <1>2, <1>a, AnswerFacts DEF OnlyTask, AnswerEnds, SessionComes, AccountLeaves, Saving
<1>3. ASSUME NEW t \in Tasks, StoreSecret(t) \/ InsertSession(t) \/ DeleteSecret(t) PROVE Same
  BY <1>0, <1>3, <1>a, StoreSecretFacts, InsertSessionFacts, DeleteSecretFacts DEF OnlyTask, Saving
<1>4. ASSUME NEW t \in Tasks, Snapshot(t) PROVE Same \/ task'[u].doc = Document
  BY <1>0, <1>4, SnapshotFacts DEF OnlyTask
<1>5. ASSUME NEW t \in Tasks, OnlyTask(t), task[t].pc \in Saving,
             task'[t] = Idle \/ (Moved(task[t], task'[t]) /\ task'[t].doc = task[t].doc)
      PROVE  Same
  BY <1>0, <1>5 DEF OnlyTask, Moved, SavesAccounts, Configures, Idle, Saving
<1>6. ASSUME NEW t \in Tasks, WriteTemporary(t) \/ CheckOld(t) \/ RemoveOld(t) PROVE Same
  BY <1>5, <1>6, WriteTemporaryFacts, CheckOldFacts, RemoveOldFacts DEF Saving
<1>7. ASSUME NEW t \in Tasks, Rename(t) \/ Interrupted(t) \/ RenameDropped(t) PROVE Same
  BY <1>0, <1>7, <1>a, RenameFacts, InterruptedFacts, RenameDroppedFacts
     DEF OnlyTask, RenamedAway, RenamedIn, Saving
<1>8. Kill \/ Start => FALSE
  BY KillFacts, StartFacts
<1>9. UNCHANGED vars => task'[u] = task[u]
  BY DEF vars
<1> QED BY <1>0, <1>1, <1>2, <1>3, <1>4, <1>6, <1>7, <1>8, <1>9, NextIs DEF Acts, Step

\* An account is out because it was, or because a logout has just renamed its document in.
LEMMA OutFrom ==
    ASSUME Shape, FlowsApart, [Next]_vars, NEW a \in out'
    PROVE  \/ a \in out
           \/ \E t \in Tasks : Rename(t) /\ RenamedIn(t) /\ task[t].op = "logout" /\ a = task[t].account
<1>1. ASSUME NEW t \in Tasks, Starts(t) PROVE out' = out
  BY <1>1, StartsFacts
<1>2. ASSUME NEW t \in Tasks, Answer(t) PROVE out' \subseteq out
  BY <1>2, AnswerFacts DEF AnswerEnds, SessionComes, AccountLeaves
<1>3. ASSUME NEW t \in Tasks, Rename(t)
      PROVE  a \in out \/ (RenamedIn(t) /\ task[t].op = "logout" /\ a = task[t].account)
  BY <1>3, RenameFacts DEF RenamedAway, RenamedIn
<1>4. ASSUME NEW t \in Tasks, StoreSecret(t) \/ InsertSession(t) \/ DeleteSecret(t) \/ Snapshot(t)
                 \/ WriteTemporary(t) \/ CheckOld(t) \/ RemoveOld(t) \/ Interrupted(t)
                 \/ RenameDropped(t)
      PROVE  out' = out
  BY <1>4 DEF StoreSecret, InsertSession, DeleteSecret, Snapshot, WriteTemporary, CheckOld,
              RemoveOld, Interrupted, RenameDropped, history
<1>5. Kill \/ Start \/ UNCHANGED vars => out' = out
  BY DEF Kill, Start, vars, history
<1> QED BY <1>1, <1>2, <1>3, <1>4, <1>5, NextIs DEF Acts, Step

\* An account that is not in the map is not in a reading of it.
LEMMA NotRead ==
    ASSUME Shape, NEW a \in Accounts, sessions[a] = NoSession
    PROVE  a \notin Listed(Document)
BY DEF Listed, Document, Persisted, Shape, StoresShape

\* What a lone call renames in is the document it has written.
LEMMA RenamesOwn ==
    ASSUME Shape, NEW t \in Tasks, Rename(t) \/ RenameDropped(t), \A u \in Running : LogoutForgets(u)
    PROVE  /\ t \in Running /\ CallShape(task[t], calls, leaving) /\ task[t].pc = "rename"
           /\ tmp[Name(task[t])] = task[t].doc
<1>1. task[t].pc = "rename" /\ CallShape(task[t], calls, leaving) /\ task[t] # Idle
  BY RenameFacts, RenameDroppedFacts, InFlight
<1> QED BY <1>1 DEF Running, LogoutForgets

LEMMA OutStep ==
    ASSUME Shape, Shape', FlowsApart, callers = 1, OneCall, OutForgotten,
           \A u \in Running : LogoutForgets(u), [Next]_vars
    PROVE  OutForgotten'
<1>1. ASSUME NEW a \in out', NEW t \in Tasks, Rename(t), RenamedIn(t), task[t].op = "logout",
             a = task[t].account
      PROVE  /\ sessions'[a] = NoSession
             /\ a \notin Listed(file'.accounts)
             /\ \A n \in Names : vault'[a][n] = 0
             /\ \A u \in Running' : FALSE
  <2>1. /\ t \in Running /\ CallShape(task[t], calls, leaving) /\ task[t].pc = "rename"
        /\ tmp[Name(task[t])] = task[t].doc
    BY <1>1, RenamesOwn
  <2>2. Name(task[t]) = "accounts" /\ task[t].pc \in Saving
    BY <1>1, <2>1 DEF Name, Saving
  <2>3. /\ sessions[a] = NoSession /\ a \notin Listed(task[t].doc)
        /\ \A n \in Names : vault[a][n] = 0
    BY <1>1, <2>1, <2>2 DEF LogoutForgets
  <2>4. sessions' = sessions /\ vault' = vault /\ task'[t] = Idle
    BY <1>1, RenameFacts DEF RenamedIn
  <2>5. file'.accounts = task[t].doc
    BY <1>1, <2>1, <2>2 DEF RenamedIn, Shape, StoresShape, Documents
  <2>6. Alone(t)
    BY <1>1, Lone DEF Acts, Step
  <2> QED BY <2>3, <2>4, <2>5, <2>6 DEF Alone, Running
<1>2. ASSUME NEW a \in out', a \in out
      PROVE  /\ sessions'[a] = NoSession
             /\ a \notin Listed(file'.accounts)
             /\ \A n \in Names : vault'[a][n] = 0
             /\ \A u \in Running' :
                  /\ HasSession(task'[u]) => task'[u].op = "logout" \/ task'[u].session.account # a
                  /\ SavesAccounts(task'[u]) => a \notin Listed(task'[u].doc)
  <2>0. a \in Accounts
    BY <1>2 DEF Shape, StoresShape
  <2>1. /\ sessions[a] = NoSession
        /\ a \notin Listed(file.accounts)
        /\ \A n \in Names : vault[a][n] = 0
        /\ \A t \in Running :
            /\ HasSession(task[t]) => task[t].op = "logout" \/ task[t].session.account # a
            /\ SavesAccounts(task[t]) => a \notin Listed(task[t].doc)
    BY <1>2 DEF OutForgotten
  <2>2. sessions'[a] = NoSession
    <3>1. ASSUME NEW t \in Tasks, InsertSession(t), task[t].session.account = a PROVE FALSE
      BY <2>1, <3>1, Inserting
    <3>2. Start => sessions'[a] = NoSession
      BY <2>0, <2>1, StartFacts
    <3> QED BY <2>0, <2>1, <3>1, <3>2, MapFrom
  <2>3. a \notin Listed(file'.accounts)
    <3>1. ASSUME NEW t \in Tasks, Rename(t) \/ RenameDropped(t), Name(task[t]) = "accounts",
                 file'.accounts = tmp.accounts
          PROVE  a \notin Listed(file'.accounts)
      <4>1. /\ t \in Running /\ task[t].pc = "rename" /\ tmp.accounts = task[t].doc
        BY <3>1, RenamesOwn
      <4>2. SavesAccounts(task[t])
        BY <3>1, <4>1 DEF SavesAccounts, Configures, Name, Saving
      <4> QED BY <2>1, <3>1, <4>1, <4>2
    <3> QED BY <2>1, <3>1, FileFrom DEF Listed
  <2>4. \A n \in Names : vault'[a][n] = 0
    <3>1. ASSUME NEW t \in Tasks, StoreSecret(t) PROVE \A n \in Names : vault'[a][n] = 0
      <4>1. task[t].session.account # a
        BY <2>1, <3>1, Inserting
      <4> QED BY <2>0, <2>1, <3>1, <4>1, TokenStored
    <3>2. ASSUME NEW t \in Tasks, DeleteSecret(t) PROVE \A n \in Names : vault'[a][n] = 0
      BY <2>0, <2>1, <3>2, TokenDeleted
    <3> QED BY <2>1, <3>1, <3>2, VaultKept
  <2>5. ASSUME NEW u \in Tasks, task'[u] # Idle, HasSession(task'[u])
        PROVE  task'[u].op = "logout" \/ task'[u].session.account # a
    <3>1. CASE /\ task[u] # Idle /\ HasSession(task[u])
               /\ task'[u].session = task[u].session /\ task'[u].op = task[u].op
      BY <2>1, <3>1 DEF Running
    <3>2. CASE Starts(u) /\ Fresh(u)
      <4>1. /\ task'[u].account \in Accounts /\ sessions[task'[u].account] # NoSession
            /\ task'[u].session = sessions[task'[u].account]
        BY <2>5, <3>2 DEF Fresh, CallShape, HasSession, Saving, Configures
      <4> QED BY <2>1, <4>1 DEF Shape, StoresShape
    <3>3. CASE SessionComes(u)
      BY <3>3 DEF SessionComes
    <3> QED BY <2>5, <3>1, <3>2, <3>3, SessionFrom
  <2>6. ASSUME NEW u \in Tasks, task'[u] # Idle, SavesAccounts(task'[u])
        PROVE  a \notin Listed(task'[u].doc)
    BY <2>0, <2>1, <2>6, DocFrom, NotRead DEF Running
  <2> QED BY <2>2, <2>3, <2>4, <2>5, <2>6 DEF Running
<1>3. ASSUME NEW a \in out'
      PROVE  /\ sessions'[a] = NoSession
             /\ a \notin Listed(file'.accounts)
             /\ \A n \in Names : vault'[a][n] = 0
             /\ \A u \in Running' :
                  /\ HasSession(task'[u]) => task'[u].op = "logout" \/ task'[u].session.account # a
                  /\ SavesAccounts(task'[u]) => a \notin Listed(task'[u].doc)
  BY <1>1, <1>2, OutFrom
<1> QED BY <1>3 DEF OutForgotten, HasSession, SavesAccounts, Configures, Listed

LEMMA ForgetStep ==
    ASSUME Shape, Shape', FlowsApart, callers = 1, OneCall, [Next]_vars,
           \A u \in Running : LogoutForgets(u)
    PROVE  (\A u \in Running : LogoutForgets(u))'
<1>0. ASSUME NEW t \in Tasks, Starts(t) \/ Acts(t), task'[t] # Idle => LogoutForgets(t)'
      PROVE  (\A u \in Running : LogoutForgets(u))'
  <2>1. Alone(t)
    BY <1>0, Lone
  <2>2. \A u \in Running' : u = t /\ task'[t] # Idle
    BY <2>1 DEF Alone, Running
  <2> QED BY <1>0, <2>2
<1>1. ASSUME NEW t \in Tasks, Starts(t) PROVE (\A u \in Running : LogoutForgets(u))'
  <2>1. ASSUME task'[t] # Idle PROVE LogoutForgets(t)'
    BY <1>1, <2>1, StartsFacts DEF Fresh, Configures, LogoutForgets
  <2> QED BY <1>0, <1>1, <2>1
<1>2. ASSUME NEW t \in Tasks, Acts(t), task'[t] # Idle PROVE LogoutForgets(t)'
  <2>0. PICK c : c = task[t]
    OBVIOUS
  <2>1. LogoutForgets(t) /\ t \in Running /\ CallShape(c, calls, leaving)
    BY <1>2, <2>0, ActsFacts DEF Running, Shape, TasksShape
  <2>2. CASE Answer(t)
    <3>1. SessionComes(t) \/ AccountLeaves(t)
      BY <1>2, <2>2, AnswerFacts DEF AnswerEnds
    <3>2. CASE SessionComes(t)
      BY <3>2 DEF SessionComes, LogoutForgets, Saving
    <3>3. CASE AccountLeaves(t)
      BY <3>3 DEF AccountLeaves, Moved, LogoutForgets, Saving, Shape, StoresShape
    <3> QED BY <3>1, <3>2, <3>3
  <2>3. CASE StoreSecret(t) \/ InsertSession(t)
    <3>1. task'[t].op # "logout"
      BY <1>2, <2>3, Inserting, ActsFacts
    <3>2. task'[t].pc \in {"secrets", "snapshot"}
      BY <2>3, StoreSecretFacts, InsertSessionFacts
    <3> QED BY <3>1, <3>2 DEF LogoutForgets
  <2>4. CASE DeleteSecret(t)
    <3>1. /\ c.pc = "forget" /\ c.op = "logout" /\ sessions' = sessions
          /\ task'[t].account = c.account
      BY <2>0, <2>4, DeleteSecretFacts DEF memory, Moved
    <3>2. PICK n \in c.todo :
               /\ task'[t].todo = c.todo \ {n}
               /\ task'[t].pc = IF c.todo = {n} THEN "snapshot" ELSE "forget"
               /\ \A a \in Accounts, m \in Names :
                    vault'[a][m] = IF a = c.account /\ m = n THEN 0 ELSE vault[a][m]
      BY <2>0, <2>4, TokenDeleted
    <3>3. /\ c.account \in Accounts /\ sessions[c.account] = NoSession
          /\ \A m \in Names : vault[c.account][m] = 0 \/ m \in c.todo
      BY <2>0, <2>1, <3>1 DEF LogoutForgets, CallShape
    <3>4. \A m \in Names : vault'[c.account][m] = 0 \/ (task'[t].pc = "forget" /\ m \in task'[t].todo)
      BY <3>2, <3>3
    <3> QED BY <3>1, <3>2, <3>3, <3>4 DEF LogoutForgets, Saving
  <2>5. CASE Snapshot(t)
    <3>1. /\ c.pc = "snapshot" /\ task'[t].doc = Document /\ task'[t].pc = "write"
          /\ sessions' = sessions /\ vault' = vault
          /\ task'[t].account = c.account /\ task'[t].op = c.op
      BY <2>0, <2>5, SnapshotFacts DEF memory, Moved
    <3>2. ASSUME c.op = "logout"
          PROVE  /\ c.account \in Accounts /\ sessions[c.account] = NoSession
                 /\ \A m \in Names : vault[c.account][m] = 0
      BY <2>0, <2>1, <3>1, <3>2 DEF LogoutForgets, CallShape
    <3>3. c.op = "logout" => c.account \notin Listed(Document)
      BY <3>2, NotRead
    <3>4. c.op = "logout" => task'[t].account \notin Listed(task[t].doc)'
      BY <3>1, <3>3 DEF Listed
    <3> QED BY <3>1, <3>2, <3>4 DEF LogoutForgets
  <2>6. CASE WriteTemporary(t) \/ CheckOld(t) \/ RemoveOld(t)
    <3>1. /\ c.pc \in {"write", "check", "remove"} /\ task'[t].pc \in {"check", "remove", "rename"}
          /\ task'[t].doc = c.doc /\ sessions' = sessions /\ vault' = vault
          /\ task'[t].account = c.account /\ task'[t].op = c.op
      BY <1>2, <2>0, <2>6, WriteTemporaryFacts, CheckOldFacts, RemoveOldFacts DEF memory, Moved
    <3>2. c.pc \in Saving /\ Name(task[t])' = Name(c)
      BY <3>1 DEF Name, Saving
    <3>3. tmp'[Name(c)] = c.doc
      <4>1. CASE WriteTemporary(t)
        <5>1. tmp' = [tmp EXCEPT ![Name(c)] = c.doc]
          BY <2>0, <4>1, WriteTemporaryFacts
        <5> QED BY <5>1 DEF Shape, StoresShape, Documents, Name
      <4>2. CASE CheckOld(t) \/ RemoveOld(t)
        <5>1. tmp' = tmp /\ c.pc \in {"check", "remove"}
          BY <2>0, <4>2, CheckOldFacts, RemoveOldFacts DEF disk
        <5> QED BY <2>0, <2>1, <5>1 DEF LogoutForgets
      <4> QED BY <2>6, <4>1, <4>2
    <3>4. c.op = "logout" =>
            /\ sessions[c.account] = NoSession /\ c.account \notin Listed(c.doc)
            /\ \A m \in Names : vault[c.account][m] = 0
      BY <2>0, <2>1, <3>1, <3>2 DEF LogoutForgets
    <3>5. c.op = "logout" => task'[t].account \notin Listed(task[t].doc)'
      BY <3>1, <3>4 DEF Listed
    <3> QED BY <3>1, <3>2, <3>3, <3>4, <3>5 DEF LogoutForgets
  <2>7. CASE Rename(t)
    BY <1>2, <2>7, RenameFacts DEF RenamedAway, RenamedIn, Moved, LogoutForgets
  <2>8. CASE Interrupted(t) \/ RenameDropped(t)
    BY <1>2, <2>8, InterruptedFacts, RenameDroppedFacts
  <2> QED BY <1>2, <2>2, <2>3, <2>4, <2>5, <2>6, <2>7, <2>8 DEF Acts, Step
<1>3. CASE Kill \/ Start
  BY <1>3, KillFacts, StartFacts DEF Running
<1>4. CASE UNCHANGED vars
  BY <1>4 DEF vars, memory, disk, Running, LogoutForgets, Listed, Name
<1> QED BY <1>0, <1>1, <1>2, <1>3, <1>4, NextIs

\* Call t runs and changes the configured providers.
Changing(t) == task[t] # Idle /\ Configures(task[t])

\* Configured, when no call but t runs.
ConfiguredBy(t) ==
    /\ ~ (Changing(t) /\ task[t].pc = "rename") => providers = Registry \cup {Offline}
    /\ Changing(t) /\ task[t].pc # "rename" =>
         task[t].doc = IF task[t].op = "add" THEN Registry \cup {task[t].provider}
                       ELSE Registry \ {task[t].provider}
    /\ Changing(t) /\ task[t].pc = "rename" => Registered(task[t]) = task[t].doc \cup {Offline}

LEMMA ConfiguredAlone ==
    ASSUME NEW t \in Tasks, Alone(t), up, up', ~ torn
    PROVE  /\ Configured => ConfiguredBy(t)
           /\ ConfiguredBy(t)' => Configured'
<1>1. Configured => ConfiguredBy(t)
  BY DEF Configured, ConfiguredBy, Changing, Alone, Running
<1>2. ConfiguredBy(t)' => Configured'
  BY DEF Configured, ConfiguredBy, Changing, Alone, Running
<1> QED BY <1>1, <1>2

\* A call that changes nothing of the configuration keeps it.
LEMMA ConfiguredKept ==
    ASSUME NEW t \in Tasks, ConfiguredBy(t), providers' = providers, Registry' = Registry,
           Changing(t) => task[t].pc # "rename",
           Changing(t)' => /\ Changing(t) /\ task'[t].pc # "rename" /\ task'[t].op = task[t].op
                           /\ task'[t].doc = task[t].doc /\ task'[t].provider = task[t].provider
    PROVE  ConfiguredBy(t)'
BY DEF ConfiguredBy

\* Before the rename, the change of the providers and the change of the file agree.
LEMMA ChangeAgrees ==
    ASSUME NEW t \in Tasks, ConfiguredBy(t), Changing(t), task[t].pc # "rename",
           task[t].provider \in Configurable, providers' = providers,
           task'[t].op = task[t].op, task'[t].doc = task[t].doc, task'[t].provider = task[t].provider
    PROVE  Registered(task[t])' = task'[t].doc \cup {Offline}
<1>1. /\ providers' = Registry \cup {Offline} /\ Offline \notin Configurable
      /\ task[t].op \in {"add", "remove"}
      /\ task'[t].doc = IF task[t].op = "add" THEN Registry \cup {task[t].provider}
                        ELSE Registry \ {task[t].provider}
  BY DEF ConfiguredBy, Changing, Configures, Configurable, Offline
<1>2. CASE task[t].op = "add"
  BY <1>1, <1>2 DEF Registered
<1>3. CASE task[t].op = "remove"
  BY <1>1, <1>3 DEF Registered
<1> QED BY <1>1, <1>2, <1>3

LEMMA ConfiguredActs ==
    ASSUME Shape, Shape', callers = 1, NEW t \in Tasks, Acts(t), ConfiguredBy(t), ~ torn',
           \A u \in Running : LogoutForgets(u)
    PROVE  ConfiguredBy(t)'
<1>0. /\ task[t] # Idle
      /\ task'[t] # Idle => task'[t].op = task[t].op /\ task'[t].provider = task[t].provider
  BY ActsFacts
<1>1. CallShape(task[t], calls, leaving) /\ t \in Running
  BY <1>0 DEF Shape, TasksShape, Running
<1>2. Changing(t) => task[t].pc \in Saving /\ task[t].provider \in Configurable
  BY <1>1 DEF Changing, CallShape
<1>3. Changing(t)' => Changing(t)
  BY <1>0 DEF Changing, Configures
<1>4. ASSUME providers' = providers, file' = file, ~ Changing(t) PROVE ConfiguredBy(t)'
  <2>1. Registry' = Registry
    BY <1>4 DEF Registry
  <2> QED BY <1>3, <1>4, <2>1, ConfiguredKept
<1>5. CASE Answer(t) \/ StoreSecret(t) \/ InsertSession(t) \/ DeleteSecret(t) \/ Snapshot(t)
  <2>1. task[t].pc \in {"call", "secrets", "forget", "snapshot"}
    BY <1>5, AnswerFacts, StoreSecretFacts, InsertSessionFacts, DeleteSecretFacts, SnapshotFacts
  <2>2. ~ Changing(t)
    BY <1>2, <2>1 DEF Saving
  <2>3. providers' = providers /\ file' = file
    BY <1>5 DEF Answer, StoreSecret, InsertSession, DeleteSecret, Snapshot, memory, disk
  <2> QED BY <1>4, <2>2, <2>3
<1>6. CASE WriteTemporary(t)
  <2>1. /\ providers' = providers /\ file' = file /\ task'[t].doc = task[t].doc
        /\ task[t].pc = "write" /\ task'[t].pc = "check"
    BY <1>6, WriteTemporaryFacts DEF memory
  <2>2. Registry' = Registry
    BY <2>1 DEF Registry
  <2>3. Changing(t)' => /\ Changing(t) /\ task'[t].op = task[t].op /\ task'[t].provider = task[t].provider
    BY <1>0, <1>3 DEF Changing
  <2> QED BY <2>1, <2>2, <2>3, ConfiguredKept
<1>7. CASE CheckOld(t)
  <2>1. /\ providers' = providers /\ file' = file /\ task'[t].doc = task[t].doc
        /\ task[t].pc = "check" /\ task'[t].pc \in {"rename", "remove"}
        /\ task'[t].pc = "rename" => file[Name(task[t])] = Missing
    BY <1>7, CheckOldFacts DEF memory, disk
  <2>2. Registry' = Registry
    BY <2>1 DEF Registry
  <2>3. Changing(t)' => /\ Changing(t) /\ task'[t].op = task[t].op /\ task'[t].provider = task[t].provider
    BY <1>0, <1>3 DEF Changing
  <2>4. CASE task'[t].pc = "remove"
    BY <2>1, <2>2, <2>3, <2>4, ConfiguredKept
  <2>5. CASE task'[t].pc = "rename"
    <3>1. Changing(t)' => Registered(task[t])' = task'[t].doc \cup {Offline}
      BY <1>2, <2>1, <2>3, ChangeAgrees
    <3>2. providers' = Registry' \cup {Offline}
      BY <2>1, <2>2 DEF ConfiguredBy
    <3> QED BY <2>5, <3>1, <3>2 DEF ConfiguredBy
  <2> QED BY <2>1, <2>4, <2>5
<1>8. CASE RemoveOld(t)
  <2>1. /\ providers' = providers /\ task[t].pc = "remove"
        /\ \/ task'[t] = Idle /\ file[Name(task[t])] = Missing
           \/ task'[t].pc = "rename" /\ task'[t].doc = task[t].doc
        /\ file' = [file EXCEPT ![Name(task[t])] = Missing]
    BY <1>8, RemoveOldFacts DEF memory
  <2>2. ~ Changing(t) => file'.providers = file.providers
    BY <1>0, <2>1 DEF Changing, Configures, Name, Shape, StoresShape, Documents
  <2>3. CASE ~ Changing(t)
    <3>1. Registry' = Registry
      BY <2>2, <2>3 DEF Registry
    <3> QED BY <1>3, <2>1, <2>3, <3>1, ConfiguredKept
  <2>4. CASE Changing(t) /\ task'[t] = Idle
    <3>1. file[Name(task[t])] = Missing
      BY <2>1, <2>4 DEF Idle
    <3>2. file'.providers = file.providers
      BY <2>1, <3>1 DEF Shape, StoresShape, Documents, Name
    <3>3. Registry' = Registry
      BY <3>2 DEF Registry
    <3>4. ~ Changing(t)'
      BY <2>4 DEF Changing
    <3> QED BY <2>1, <3>3, <3>4, ConfiguredKept
  <2>5. CASE Changing(t) /\ task'[t] # Idle
    <3>1. Registered(task[t])' = task'[t].doc \cup {Offline}
      BY <1>0, <1>2, <2>1, <2>5, ChangeAgrees
    <3>2. Changing(t)' /\ task'[t].pc = "rename"
      BY <1>0, <2>1, <2>5 DEF Changing, Configures
    <3> QED BY <3>1, <3>2 DEF ConfiguredBy
  <2> QED BY <2>3, <2>4, <2>5
<1>9. CASE Rename(t)
  <2>1. /\ task[t].pc = "rename" /\ tmp[Name(task[t])] = task[t].doc
    BY <1>9, RenamesOwn
  <2>2. CASE RenamedAway(t)
    <3>1. ~ Changing(t)
      <4>1. Changing(t) => task[t].doc \in SUBSET Configurable
        BY <1>1 DEF Changing, CallShape
      <4> QED BY <2>1, <2>2, <4>1, AuthAssumption DEF RenamedAway
    <3> QED BY <1>4, <2>2, <3>1 DEF RenamedAway, disk
  <2>3. CASE RenamedIn(t) /\ ~ Changing(t)
    <3>1. providers' = providers
      BY <1>0, <2>3 DEF RenamedIn, Registered, Changing, Configures
    <3>2. file'.providers = file.providers
      BY <1>0, <2>3 DEF RenamedIn, Changing, Configures, Name, Shape, StoresShape, Documents
    <3>3. Registry' = Registry
      BY <3>2 DEF Registry
    <3> QED BY <1>3, <2>3, <3>1, <3>3, ConfiguredKept
  <2>4. CASE RenamedIn(t) /\ Changing(t)
    <3>1. task'[t] = Idle
      BY <2>4 DEF RenamedIn, Changing, Configures
    <3>2. providers' = task[t].doc \cup {Offline}
      BY <2>1, <2>4 DEF RenamedIn, ConfiguredBy
    <3>3. Name(task[t]) = "providers"
      BY <2>4 DEF Changing, Configures, Name
    <3>4. file'.providers = task[t].doc /\ file'.providers # Missing
      BY <2>1, <2>4, <3>3 DEF RenamedIn, Shape, StoresShape, Documents
    <3>5. Registry' = task[t].doc
      BY <3>4 DEF Registry
    <3> QED BY <3>1, <3>2, <3>5 DEF ConfiguredBy, Changing
  <2> QED BY <1>9, <2>2, <2>3, <2>4, RenameFacts
<1>10. CASE Interrupted(t) \/ RenameDropped(t)
  <2>1. /\ task'[t] = Idle /\ providers' = providers /\ torn' = (torn \/ Halfway(task[t]))
    BY <1>10, InterruptedFacts, RenameDroppedFacts DEF memory
  <2>2. ~ (Changing(t) /\ task[t].pc = "rename")
    BY <2>1 DEF Halfway, Changing, Configures, Name
  <2>3. file'.providers = file.providers
    <3>1. CASE Interrupted(t)
      BY <3>1, InterruptedFacts DEF disk
    <3>2. CASE RenameDropped(t)
      <4>1. Name(task[t]) = "accounts"
        BY <2>2, <3>2, RenameDroppedFacts DEF Changing, Configures, Name
      <4> QED BY <3>2, <4>1, RenameDroppedFacts DEF Shape, StoresShape, Documents
    <3> QED BY <1>10, <3>1, <3>2
  <2>4. Registry' = Registry
    BY <2>3 DEF Registry
  <2>5. ~ Changing(t)'
    BY <2>1 DEF Changing
  <2> QED BY <2>1, <2>2, <2>4, <2>5, ConfiguredKept
<1> QED BY <1>5, <1>6, <1>7, <1>8, <1>9, <1>10 DEF Acts, Step

LEMMA ConfiguredStep ==
    ASSUME Shape, Shape', FlowsApart, callers = 1, OneCall, Configured, [Next]_vars,
           \A u \in Running : LogoutForgets(u)
    PROVE  Configured'
<1>0. SUFFICES ASSUME ~ torn' PROVE Configured'
  BY DEF Configured
<1>1. ASSUME NEW t \in Tasks, Starts(t) PROVE Configured'
  <2>1. /\ Alone(t) /\ up /\ up' /\ task[t] = Idle /\ ~ torn
    BY <1>0, <1>1, Lone, TornFrom
  <2>2. /\ providers' = providers /\ file' = file /\ (task'[t] = Idle \/ Fresh(t))
    BY <1>1, StartsFacts DEF disk
  <2>3. Registry' = Registry
    BY <2>2 DEF Registry
  <2>4. ConfiguredBy(t)
    BY <2>1, ConfiguredAlone
  <2>5. ConfiguredBy(t)'
    BY <2>1, <2>2, <2>3, <2>4 DEF ConfiguredBy, Changing, Fresh
  <2> QED BY <2>1, <2>5, ConfiguredAlone
<1>2. ASSUME NEW t \in Tasks, Acts(t) PROVE Configured'
  <2>1. /\ Alone(t) /\ up /\ up' /\ ~ torn
    BY <1>0, <1>2, Lone, TornFrom
  <2> QED BY <1>0, <1>2, <2>1, ConfiguredAlone, ConfiguredActs
<1>3. CASE Kill
  BY <1>3, KillFacts DEF Configured
<1>4. CASE Start
  <2>1. providers' = Registry \cup {Offline} /\ file' = file /\ Running' = {}
    BY <1>4, StartFacts DEF disk, Running
  <2> QED BY <2>1 DEF Configured, Registry
<1>5. CASE UNCHANGED vars
  BY <1>5 DEF vars, memory, disk, history, Running, Configured, Registered, Registry
<1> QED BY <1>1, <1>2, <1>3, <1>4, <1>5, NextIs

-----------------------------------------------------------------------------
(***************************************************************************)
(* The start, and the theorems.                                            *)
(***************************************************************************)

\* The sessions of a start are those that earlier calls obtained.
LEMMA InitSessions ==
    ASSUME Init
    PROVE  /\ calls \in 0..MaxCalls /\ calls \in Nat /\ callers \in Nat
           /\ sessions = [a \in Accounts |-> sessions[a]]
           /\ \A a \in Accounts : sessions[a] # NoSession =>
                /\ sessions[a] \in SessionsBy(calls) /\ sessions[a].account = a
                /\ Official(a) => sessions[a].life = sessions[a].tokens[Token]
           /\ vault = [a \in Accounts |->
                  IF sessions[a] = NoSession THEN [n \in Names |-> 0] ELSE sessions[a].tokens]
           /\ file.accounts \in {Missing, Document} /\ file.providers \in SUBSET Configurable
           /\ file = [accounts |-> file.accounts, providers |-> file.providers]
<1>1. PICK i \in InitAuth :
        /\ callers = i.callers
        /\ sessions = [a \in Accounts |->
                IF \E s \in i.sessions : s.account = a
                THEN CHOOSE s \in i.sessions : s.account = a ELSE NoSession]
        /\ vault = [a \in Accounts |->
                IF sessions[a] = NoSession THEN [n \in Names |-> 0] ELSE sessions[a].tokens]
        /\ file = [accounts |-> IF i.sessions = {} THEN Missing ELSE Document,
                   providers |-> i.registry]
        /\ calls = i.calls
  BY DEF Init
<1>2. /\ i.callers \in Nat /\ i.calls \in 0..MaxCalls /\ i.registry \subseteq Configurable
      /\ \A s \in i.sessions : \E a \in Accounts, r \in BOOLEAN, g \in 1..i.calls :
            s = Session(a[1], a[2], r, g)
  BY InitAssumption
<1>3. calls \in 0..MaxCalls /\ calls \in Nat /\ callers \in Nat
  BY <1>1, <1>2, AuthAssumption
<1>4. ASSUME NEW a \in Accounts, sessions[a] # NoSession
      PROVE  /\ sessions[a] \in SessionsBy(calls) /\ sessions[a].account = a
             /\ Official(a) => sessions[a].life = sessions[a].tokens[Token]
  <2>1. sessions[a] \in i.sessions /\ sessions[a].account = a
    BY <1>1, <1>4
  <2>2. PICK b \in Accounts, r \in BOOLEAN, g \in 1..i.calls : sessions[a] = Session(b[1], b[2], r, g)
    BY <1>2, <2>1
  <2>3. PICK kind, u : kind = b[1] /\ u = b[2]
    OBVIOUS
  <2>4. kind \in Kinds /\ u \in Users /\ b = <<kind, u>>
    BY <2>3, AccountsAssumption
  <2>5. g \in 0..calls /\ g # 0
    BY <1>1, <1>3
  <2>6. LET s == Session(kind, u, r, g) IN
           /\ s \in SessionsBy(calls)
           /\ s.account = <<kind, u>>
           /\ kind = "microsoft" => s.life = g /\ s.tokens[Token] = g
    BY <1>3, <2>4, <2>5, SessionMade
  <2>7. sessions[a] = Session(kind, u, r, g)
    BY <2>2, <2>3
  <2>8. a = <<kind, u>>
    BY <2>1, <2>6, <2>7
  <2> QED BY <2>1, <2>6, <2>7, <2>8 DEF Official
<1>5. /\ file.accounts \in {Missing, Document} /\ file.providers \in SUBSET Configurable
      /\ file = [accounts |-> file.accounts, providers |-> file.providers]
  BY <1>1, <1>2
<1> QED BY <1>1, <1>3, <1>4, <1>5

LEMMA InitShape ==
    ASSUME Init PROVE Shape
<1>1. /\ calls \in 0..MaxCalls /\ calls \in Nat /\ callers \in Nat
      /\ sessions = [a \in Accounts |-> sessions[a]]
      /\ \A a \in Accounts : sessions[a] # NoSession =>
           sessions[a] \in SessionsBy(calls) /\ sessions[a].account = a
      /\ vault = [a \in Accounts |->
             IF sessions[a] = NoSession THEN [n \in Names |-> 0] ELSE sessions[a].tokens]
      /\ file.accounts \in {Missing, Document} /\ file.providers \in SUBSET Configurable
      /\ file = [accounts |-> file.accounts, providers |-> file.providers]
  BY InitSessions
<1>2. /\ up = TRUE /\ tmp = [accounts |-> Missing, providers |-> Missing]
      /\ providers = file.providers \cup {Offline} /\ task = [t \in Tasks |-> Idle]
      /\ out = {} /\ leaving = {}
  BY DEF Init
<1>3. sessions \in [Accounts -> SessionsBy(calls) \cup {NoSession}]
  BY <1>1
<1>4. vault \in [Accounts -> [Names -> 0..calls]]
  <2>1. ASSUME NEW a \in Accounts PROVE vault[a] \in [Names -> 0..calls]
    <3>1. CASE sessions[a] = NoSession
      BY <1>1, <3>1
    <3>2. CASE sessions[a] # NoSession
      <4>1. vault[a] = sessions[a].tokens /\ sessions[a] \in SessionsBy(calls)
        BY <1>1, <3>2
      <4> QED BY <4>1 DEF SessionsBy
    <3> QED BY <3>1, <3>2
  <2>2. vault = [a \in Accounts |-> vault[a]]
    BY <1>1
  <2> QED BY <2>1, <2>2
<1>5. Document \in SUBSET Entry
  <2>1. ASSUME NEW a \in Accounts, sessions[a] # NoSession PROVE Persisted(sessions[a]) \in Entry
    <3>1. PICK s \in SessionsBy(calls) : s = sessions[a]
      BY <1>1, <2>1
    <3>2. Persisted(s) \in Entry
      BY DEF SessionsBy, Persisted, Entry
    <3> QED BY <3>1, <3>2
  <2> QED BY <2>1 DEF Document
<1>6. file \in Documents /\ tmp \in Documents
  BY <1>1, <1>2, <1>5 DEF Documents
<1>7. providers \subseteq Kinds
  BY <1>1, <1>2 DEF Kinds
<1>8. StoresShape
  BY <1>1, <1>2, <1>3, <1>4, <1>6, <1>7 DEF StoresShape
<1>9. TasksShape
  BY <1>2 DEF TasksShape
<1> QED BY <1>8, <1>9 DEF Shape

LEMMA InitHolds ==
    Init => IInv
<1> SUFFICES ASSUME Init PROVE IInv
  OBVIOUS
<1>1. Shape
  BY InitShape
<1>2. /\ flows = NoFlows /\ tmp = [accounts |-> Missing, providers |-> Missing] /\ up = TRUE
      /\ providers = file.providers \cup {Offline} /\ task = [t \in Tasks |-> Idle]
      /\ handed = [n \in 1..MaxCalls |-> 0] /\ cancelled = {} /\ out = {} /\ leaving = {}
  BY DEF Init
<1>3. Running = {} /\ \A t \in Tasks : task[t] = Idle
  BY <1>2 DEF Running
<1>4. FlowsApart
  BY <1>2 DEF FlowsApart, NoFlows
<1>5. \A t \in Tasks : CallApart(t)
  BY <1>3 DEF CallApart
<1>6. ASSUME NEW s, Noted(s)
      PROVE  \E a \in Accounts : sessions[a] # NoSession /\ s = Persisted(sessions[a])
  BY <1>2, <1>3, <1>6, InitSessions DEF Noted, Document
<1>7. ASSUME NEW s \in Entry, Noted(s), Counts(s.account)
      PROVE  /\ vault[s.account][Token] # 0
             /\ s.life <= vault[s.account][Token]
             /\ sessions[s.account] # NoSession => s.life <= sessions[s.account].tokens[Token]
  <2>1. PICK a \in Accounts : sessions[a] # NoSession /\ s = Persisted(sessions[a])
    BY <1>6, <1>7
  <2>2. /\ sessions[a] \in SessionsBy(calls) /\ sessions[a].account = a
        /\ Official(a) => sessions[a].life = sessions[a].tokens[Token]
        /\ vault[a] = sessions[a].tokens
    BY <2>1, InitSessions
  <2>3. s.account = a /\ s.life = sessions[a].life
    BY <2>1, <2>2 DEF Persisted
  <2>4. sessions[a].tokens[Token] \in 0..calls /\ sessions[a].tokens[Token] # 0 /\ calls \in Nat
    BY <1>1, <1>7, <2>2, <2>3, TokenTypes DEF SessionsBy, Counts
  <2> QED BY <1>7, <2>2, <2>3, <2>4 DEF Counts
<1>8. TokensKept
  BY <1>3, <1>7 DEF TokensKept, Idle
<1>9. Solo
  <2>1. OneCall /\ TokensFresh /\ OutForgotten /\ (\A t \in Running : LogoutForgets(t))
    BY <1>2, <1>3, <1>7 DEF OneCall, TokensFresh, OutForgotten
  <2>2. Registry = file.providers
    BY InitSessions, AuthAssumption DEF Registry
  <2>3. Configured
    BY <1>2, <1>3, <2>2 DEF Configured
  <2> QED BY <2>1, <2>3 DEF Solo
<1> QED BY <1>1, <1>4, <1>5, <1>8, <1>9 DEF IInv

LEMMA StepHolds ==
    IInv /\ [Next]_vars => IInv'
<1> SUFFICES ASSUME IInv, [Next]_vars PROVE IInv'
  OBVIOUS
<1>1. Shape /\ FlowsApart /\ Apart /\ TokensKept
  BY DEF IInv, Apart
<1>2. Shape' /\ Apart'
  BY <1>1, ApartStep
<1>3. TokensKept'
  BY <1>1, TokensStep
<1>4. ASSUME callers' = 1 PROVE Solo'
  <2>1. callers = 1
    BY <1>1, <1>4, CallersKept
  <2>2. OneCall /\ TokensFresh /\ OutForgotten /\ Configured
    BY <2>1 DEF IInv, Solo
  <2>3. \A u \in Running : LogoutForgets(u)
    BY <2>1 DEF IInv, Solo
  <2>4. OneCall' /\ TokensFresh'
    BY <1>1, <1>2, <2>1, <2>2, OneCallStep, FreshStep
  <2>5. OutForgotten'
    BY <1>1, <1>2, <2>1, <2>2, <2>3, OutStep
  <2>6. (\A u \in Running : LogoutForgets(u))'
    BY <1>1, <1>2, <2>1, <2>2, <2>3, ForgetStep
  <2>7. Configured'
    BY <1>1, <1>2, <2>1, <2>2, <2>3, ConfiguredStep
  <2> QED BY <2>4, <2>5, <2>6, <2>7 DEF Solo
<1> QED BY <1>2, <1>3, <1>4 DEF IInv, Apart

LEMMA Invariant ==
    Spec => []IInv
BY InitHolds, StepHolds, PTL DEF Spec

LEMMA ImpliesAuthInv ==
    IInv => AuthInv
<1> SUFFICES ASSUME IInv PROVE AuthInv
  OBVIOUS
<1>1. Shape /\ FlowsApart /\ \A t \in Tasks : CallApart(t)
  BY DEF IInv
<1>2. MaxCalls \in Nat /\ calls \in Nat /\ calls <= MaxCalls
  BY <1>1, AuthAssumption DEF Shape, StoresShape
<1>3. TypeOK
  <2>1. DOMAIN flows \subseteq 1..MaxCalls
    BY <1>1, <1>2 DEF FlowsApart
  <2>2. \A a \in Accounts : vault[a] \in [Names -> 0..MaxCalls]
    BY <1>1, <1>2 DEF Shape, StoresShape
  <2>3. vault \in [Accounts -> [Names -> 0..MaxCalls]]
    BY <1>1, <2>2 DEF Shape, StoresShape
  <2>4. Listed(file.accounts) \subseteq Accounts
    BY <1>1 DEF Shape, StoresShape, Documents, Entry, Listed
  <2>5. Registry \subseteq Configurable
    BY <1>1 DEF Shape, StoresShape, Documents, Registry
  <2> QED BY <1>1, <2>1, <2>3, <2>4, <2>5 DEF TypeOK, Shape, StoresShape, TasksShape
<1>4. FlowUsedOnce
  BY <1>1 DEF FlowsApart, FlowUsedOnce
<1>5. CancelIsFinal
  BY <1>1 DEF FlowsApart, CallApart, CancelIsFinal, Running
<1>6. RegisteredAsConfigured
  BY DEF IInv, Solo, Configured, RegisteredAsConfigured
<1> QED BY <1>3, <1>4, <1>5, <1>6 DEF AuthInv

LEMMA ImpliesSecrets ==
    IInv => SecretsBehindAccounts
<1> SUFFICES ASSUME IInv, NEW s, file.accounts # Missing, s \in file.accounts,
                    Official(s.account), s.account \notin leaving
             PROVE  /\ vault[s.account]["minecraft_access"] # 0
                    /\ callers = 1 => vault[s.account]["minecraft_access"] >= s.life
  BY DEF SecretsBehindAccounts
<1>1. s \in Entry /\ Noted(s) /\ Counts(s.account) /\ Shape
  BY DEF IInv, Shape, StoresShape, Documents, Noted, Counts
<1>2. vault[s.account][Token] # 0
  BY <1>1 DEF IInv, TokensKept
<1>3. callers = 1 => s.life <= vault[s.account][Token]
  BY <1>1 DEF IInv, Solo, TokensFresh
<1>4. vault[s.account][Token] \in Nat /\ s.life \in Nat
  BY <1>1, TokenTypes
<1> QED BY <1>2, <1>3, <1>4 DEF Token

LEMMA ImpliesForgotten ==
    IInv => LoggedOutForgotten
BY DEF IInv, Solo, OutForgotten, LoggedOutForgotten

\* However many calls overlap, fail, are dropped or killed, a flow state reaches a provider
\* at most once, a cancelled flow stays cancelled, and the state is well typed; where calls
\* do not overlap, the registered providers are the configured ones until a call of the
\* process ends halfway through replacing providers.json (continue_flow, cancel_flow,
\* finish_step, add_configured, remove_configured, load_configured).
THEOREM AuthSafe == Spec => []AuthInv
BY Invariant, ImpliesAuthInv, PTL

\* Whatever is interrupted, killed or refused by the vault, an official account is listed in
\* accounts.json only when its Minecraft token is in the vault, and the token is as new as
\* the metadata when calls do not overlap (persist_secrets, finish_step, save_sessions).
THEOREM SecretsSafe == Spec => []SecretsBehindAccounts
BY Invariant, ImpliesSecrets, PTL

\* After a confirmed logout nothing is left of the account until it logs in again: no
\* session, no metadata, no secret, when calls do not overlap (logout).
THEOREM LogoutSafe == Spec => []LoggedOutForgotten
BY Invariant, ImpliesForgotten, PTL
=============================================================================
