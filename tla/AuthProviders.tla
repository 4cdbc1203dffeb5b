--------------------------- MODULE AuthProviders ---------------------------
(***************************************************************************)
(* What the four built-in authentication providers answer: the offline     *)
(* provider of auth/mod.rs, auth/microsoft.rs, auth/azuriom.rs and         *)
(* auth/http.rs.  A provider keeps no state of its own: a call maps the    *)
(* flow state it handed out earlier, the user's response and what the      *)
(* remote service says to a step -- a new challenge, a session or an       *)
(* error.  Every operator below is the SET of steps a call may return,     *)
(* over all answers of the service; any failure of the transport, a 429, a *)
(* 5xx, an oversized or undecodable body or a cancellation is the step     *)
(* Failed (AuthHttpClient::send_json, cancellation_check).                 *)
(***************************************************************************)
EXTENDS Naturals, Sequences, FiniteSets

CONSTANTS
    Users,          \* the users
    Accounts,       \* the accounts the services know, a provider and a user each
    NoUser          \* "the service names nobody"

Offline == "offline"

\* The providers a user can configure, and the one that is always there.
Configurable == {"microsoft", "azuriom", "http"}

Kinds == Configurable \cup {Offline}

\* An account id is format!("{provider}-{user}").
ASSUME AccountsAssumption == Accounts \subseteq Kinds \X Users /\ NoUser \notin Users

\* The users with an account at a provider.
Known(kind) == {u \in Users : <<kind, u>> \in Accounts}

\* The four secrets of an account, in the order persist_secrets stores and
\* logout deletes them.
SecretNames == <<"provider_access", "provider_refresh", "device_secret", "minecraft_access">>

Names == {SecretNames[i] : i \in DOMAIN SecretNames}

\* The secrets a session of each provider carries: an offline session none,
\* an Azuriom session its access token, an HTTP session a refresh token when
\* the server sent one, a Microsoft session the Minecraft token as well.
Held(kind, refresh) ==
    (IF kind = Offline THEN {} ELSE {"provider_access"})
        \cup (IF refresh THEN {"provider_refresh"} ELSE {})
        \cup (IF kind = "microsoft" THEN {"minecraft_access"} ELSE {})

\* An AuthSession obtained by the call numbered g: its account, whether it can
\* be refreshed, its lifetime (0: it never expires) and its tokens (0: none).
Session(kind, user, refresh, g) ==
    [account |-> <<kind, user>>,
     refreshable |-> refresh,
     life |-> IF kind \in {"microsoft", "http"} THEN g ELSE 0,
     tokens |-> [n \in Names |-> IF n \in Held(kind, refresh) THEN g ELSE 0]]

Failed == [step |-> "error"]

Challenge(state) == [step |-> "challenge", state |-> state]

Authenticated(session) == [step |-> "session", session |-> session]

Official(account) == account[1] = "microsoft"

\* offline_session: the account follows from the name the user typed.
OfflineSession == {Authenticated(Session(Offline, u, FALSE, 0)) : u \in Known(Offline)}

-----------------------------------------------------------------------------
(***************************************************************************)
(* The Microsoft chain.  One record of answers is what the six services    *)
(* say: the OAuth token endpoint (with or without a refresh token), Xbox   *)
(* Live and XSTS (the user hash each one names), the Minecraft login, the  *)
(* entitlements and the profile.                                           *)
(***************************************************************************)

ChainAnswers ==
    [oauth : {"token", "token_and_refresh", "rejected"},
     xbox : Known("microsoft") \cup {NoUser}, xsts : Known("microsoft") \cup {NoUser},
     login : BOOLEAN, items : {0, 1}, profile : BOOLEAN]

\* oauth_result, xbox_result, first_xbox_claim, the comparison of the two user
\* hashes, ensure_minecraft_ownership and minecraft_profile, in this order.
ChainAccepts(a) ==
    /\ a.oauth # "rejected"
    /\ a.xbox # NoUser
    /\ a.xsts = a.xbox
    /\ a.login
    /\ a.items # 0
    /\ a.profile

\* exchange_code or exchange_refresh, then create_session.
CreateSession(g) ==
    {Failed} \cup
        {Authenticated(Session("microsoft", a.xbox, a.oauth = "token_and_refresh", g)) :
            a \in {b \in ChainAnswers : ChainAccepts(b)}}

-----------------------------------------------------------------------------
\* The responses an application can hand to continue_flow.  A "callback" comes
\* from the redirect URL with the flow's own state and a code; a "foreign" one
\* has another origin, another state, an error, or no code.
Responses == {"credentials", "two_factor", "callback", "foreign"}

\* begin of the offline provider: a session at once when the request names the
\* account.
OfflineBegin == {Challenge("offline"), Failed} \cup OfflineSession

\* begin of the Microsoft provider: browser_flow, with a fresh verifier and state.
MicrosoftBegin == {Challenge("browser"), Failed}

\* begin of Azuriom and of the HTTP protocol.
CredentialsBegin == {Challenge("credentials"), Failed}

\* handle_login_response of the HTTP protocol: success for some account, a
\* two-factor challenge, an error.
HttpLogin(g) ==
    {Failed, Challenge("two_factor")}
        \cup {Authenticated(Session("http", u, r, g)) : u \in Known("http"), r \in BOOLEAN}

\* handle_authenticate: the two-factor state keeps the credentials, so only a
\* call that brought them can be answered by the two-factor challenge.
AzuriomLogin(fresh, g) ==
    {Failed}
        \cup (IF fresh THEN {Challenge("two_factor")} ELSE {})
        \cup {Authenticated(Session("azuriom", u, FALSE, g)) : u \in Known("azuriom")}

\* continue_flow of each provider: a response that does not answer the pending
\* challenge is "unexpected_challenge_response".
OfflineContinue(state, response) ==
    {Failed} \cup IF state = "offline" /\ response = "credentials" THEN OfflineSession ELSE {}

\* A foreign callback is refused before the code is exchanged.
MicrosoftContinue(state, response, g) ==
    IF state = "browser" /\ response = "callback" THEN CreateSession(g) ELSE {Failed}

AzuriomContinue(state, response, g) ==
    IF state = response THEN AzuriomLogin(state = "credentials", g) ELSE {Failed}

HttpContinue(state, response, g) ==
    IF state = response THEN HttpLogin(g) ELSE {Failed}

\* refresh: Azuriom has none, the offline provider returns the session, the other
\* two ask for a new session with the refresh token they hold.
MicrosoftRefresh(session, g) ==
    IF session.tokens["provider_refresh"] # 0 THEN CreateSession(g) ELSE {Failed}

HttpRefresh(session, g) ==
    IF session.tokens["provider_refresh"] # 0 THEN HttpLogin(g) \ {Challenge("two_factor")}
    ELSE {Failed}

AzuriomRefresh == {Failed}

OfflineRefresh(session) == {Authenticated(session), Failed}

\* verify: offline and Microsoft return the session they were given (Microsoft
\* once the profile still has its UUID), Azuriom and HTTP build one from the
\* answer to the access token.
OfflineVerify(session) == {Authenticated(session), Failed}

MicrosoftVerify(session) == {Authenticated(session), Failed}

AzuriomVerify(session, g) ==
    IF session.tokens["provider_access"] # 0 THEN AzuriomLogin(FALSE, g) ELSE {Failed}

HttpVerify(session, g) ==
    IF session.tokens["provider_access"] # 0 THEN HttpLogin(g) \ {Challenge("two_factor")}
    ELSE {Failed}

\* logout: accepted or refused; without an access token Azuriom and HTTP have
\* nothing to ask.
LocalLogout(session) == {Authenticated(session), Failed}

AzuriomLogout(session) ==
    {Authenticated(session)} \cup IF session.tokens["provider_access"] = 0 THEN {} ELSE {Failed}

HttpLogout(session) ==
    {Authenticated(session)} \cup IF session.tokens["provider_access"] = 0 THEN {} ELSE {Failed}

-----------------------------------------------------------------------------
(***************************************************************************)
(* The AuthProvider trait: the call goes to the provider of that id.       *)
(***************************************************************************)

BeginSteps(kind) ==
    CASE kind = Offline     -> OfflineBegin
      [] kind = "microsoft" -> MicrosoftBegin
      [] OTHER              -> CredentialsBegin

ContinueSteps(kind, state, response, g) ==
    CASE kind = Offline     -> OfflineContinue(state, response)
      [] kind = "microsoft" -> MicrosoftContinue(state, response, g)
      [] kind = "azuriom"   -> AzuriomContinue(state, response, g)
      [] kind = "http"      -> HttpContinue(state, response, g)

RefreshSteps(s, g) ==
    CASE s.account[1] = Offline     -> OfflineRefresh(s)
      [] s.account[1] = "microsoft" -> MicrosoftRefresh(s, g)
      [] s.account[1] = "azuriom"   -> AzuriomRefresh
      [] s.account[1] = "http"      -> HttpRefresh(s, g)

VerifySteps(s, g) ==
    CASE s.account[1] = Offline     -> OfflineVerify(s)
      [] s.account[1] = "microsoft" -> MicrosoftVerify(s)
      [] s.account[1] = "azuriom"   -> AzuriomVerify(s, g)
      [] s.account[1] = "http"      -> HttpVerify(s, g)

LogoutSteps(s) ==
    CASE s.account[1] = "azuriom" -> AzuriomLogout(s)
      [] s.account[1] = "http"    -> HttpLogout(s)
      [] OTHER                    -> LocalLogout(s)
=============================================================================
