--------------------------- MODULE OAuth2Tokens ---------------------------
(***************************************************************************)
(* Authorization codes and tokens: oauth2/service.ts with the controllers  *)
(* of /authorize, /token, /revoke, /logout and /user/x/access-token.       *)
(*                                                                         *)
(* The tables oauth2_codes and oauth2_tokens are sets of rows.  A request  *)
(* runs in one of the handler slots Requests and is interrupted at every   *)
(* await: one action is what runs up to the next statement that touches    *)
(* the database, with that statement.  A request that is refused before it *)
(* changes anything leaves no trace and has no action.                     *)
(***************************************************************************)
EXTENDS Naturals, FiniteSets

CONSTANTS
  Requests,        \* handler slots: requests the server works on at once
  Users,           \* principals of type user
  Clients,         \* OAuth2 clients, each with the app principal it belongs to
  BrowserSessions, \* browser session ids
  Scopes, RedirectUris, Verifiers,
  Digest,          \* Verifier -> base64url(sha256(verifier))
  Registered,      \* client -> its rows of oauth2_redirect_uris
  Allowed,         \* client -> allowed_grant_types
  RequirePkce,     \* the clients with require_pkce
  Editable,        \* bound of the model: the principals an administrator edits
  Nil,             \* SQL NULL, undefined, and the client id 0 of the system client
  DurableSessions, \* TRUE for the redis session store, FALSE for the memory store
  CodeExpiry, AccessExpiry, RefreshExpiry,
  MaxSecrets, MaxTime  \* bounds of the model: secrets generated, seconds elapsed

Principals == Users \cup Clients
ClientIds  == Clients \cup {Nil}
Challenges == Verifiers \cup {Digest[v] : v \in Verifiers}
Methods    == {"plain", "S256"}
TokenGrants == {"implicit", "client_credentials", "password",
                "authorization_code", "developer-token"}
\* The responses of the other grants leave the refresh token out.
RefreshableGrants == TokenGrants \ {"implicit", "client_credentials"}

ASSUME NilAssumption == /\ Nil \notin Nat
                        /\ Nil \notin Users \cup Clients \cup BrowserSessions
                        /\ Nil \notin Scopes \cup RedirectUris \cup Challenges
ASSUME SettingsAssumption == /\ CodeExpiry \in Nat
                             /\ AccessExpiry \in Nat
                             /\ RefreshExpiry \in Nat
                             /\ MaxSecrets \in Nat
                             /\ MaxTime \in Nat
                             /\ DurableSessions \in BOOLEAN
ASSUME ClientsAssumption == /\ DOMAIN Digest = Verifiers
                            /\ Registered \in [Clients -> SUBSET RedirectUris]
                            /\ RequirePkce \subseteq Clients
                            /\ Editable \subseteq Principals

VARIABLES
  codes,       \* rows of oauth2_codes
  tokens,      \* rows of oauth2_tokens
  active,      \* principals.active
  session,     \* browser session -> the user stored in it at login, or Nil; the copy
               \* says "active" for as long as it lives
  now,         \* seconds
  lastSecret,  \* secrets generated so far; the next one is lastSecret + 1
  req,         \* what each handler slot holds between two awaits
  issued,      \* history: every row ever inserted in oauth2_codes
  minted       \* history: every row ever inserted in oauth2_tokens, with its origin

vars == <<codes, tokens, active, session, now, lastSecret, req, issued, minted>>
tables  == <<codes, tokens>>
history == <<issued, minted>>
world   == <<active, session, now>>
-----------------------------------------------------------------------------
(* Rows and records                                                        *)

Code == [id : Nat, client : Clients, user : Users, scope : Scopes \cup {Nil},
         redirect : RedirectUris \cup {Nil}, challenge : Challenges \cup {Nil},
         method : Methods, session : BrowserSessions \cup {Nil}, created : Nat]

\* The access token and the refresh token of a row are two secrets with one id.
Token == [id : Nat, client : ClientIds, user : Principals, grant : TokenGrants,
          secretUsed : BOOLEAN, scope : Scopes \cup {Nil},
          session : BrowserSessions \cup {Nil}, accessExpires : Nat, refreshExpires : Nat]

\* What a token request showed for itself: the secret it exchanges, whether it
\* authenticated with the client secret, and the time its checks were made.
Proof == [parent : Nat \cup {Nil}, basic : BOOLEAN, verifier : Verifiers \cup {Nil},
          redirect : RedirectUris \cup {Nil}, at : Nat]

Mint == [token : Token, proof : Proof, by : Requests]

\* The options of generateTokenInternal
Draft == [client : ClientIds, user : Principals, grant : TokenGrants,
          secretUsed : BOOLEAN, scope : Scopes \cup {Nil},
          session : BrowserSessions \cup {Nil}]

Idle == [pc |-> "idle"]

IdleRequest     == [pc : {"idle"}]
ExchangeRequest == [pc : {"deleteCode", "checkCode"}, code : Code, client : Clients, proof : Proof]
RefreshRequest  == [pc : {"revokeOld"}, old : Token, client : Clients, proof : Proof]
MintRequest     == [pc : {"mint"}, draft : Draft, proof : Proof]
InsertRequest   == [pc : {"insertCode"}, row : Code]
RemoveRequest   == [pc : {"removeToken"}, old : Token]
LogoutRequest   == [pc : {"logoutCodes", "logoutTokens", "clearSession"},
                    session : BrowserSessions]

Request == IdleRequest \cup ExchangeRequest \cup RefreshRequest \cup MintRequest
             \cup InsertRequest \cup RemoveRequest \cup LogoutRequest

Live == {k.id : k \in codes} \cup {t.id : t \in tokens}

\* Mutant of StoredSecretUsed: a grant type the switch forgets is undefined.
StoredSecretUsedUndefined(grant, used) ==
  CASE grant \in {"client_credentials", "password"} -> TRUE
    [] grant = "authorization_code" -> used
    [] OTHER -> Nil

\* grantTypeId() followed by grantTypeIdInfo(): the secretUsed flag survives in
\* the database only for authorization_code.
StoredSecretUsed(grant, used) ==
  CASE grant \in {"client_credentials", "password"} -> TRUE
    [] grant = "authorization_code" -> used
    [] OTHER -> FALSE

\* validatePKCE(): a verifier is asked for exactly when a challenge was stored.
Derived(method, verifier) == IF method = "S256" THEN Digest[verifier] ELSE verifier

\* Mutant of PkceMatches: a request without verifier is taken for one without PKCE.
PkceMatchesWhenGiven(verifier, challenge, method) ==
  \/ verifier = Nil
  \/ verifier \in Verifiers /\ challenge = Derived(method, verifier)

PkceMatches(verifier, challenge, method) ==
  \/ verifier = Nil /\ challenge = Nil
  \/ verifier \in Verifiers /\ challenge = Derived(method, verifier)

NoProof(basic) == [parent |-> Nil, basic |-> basic, verifier |-> Nil,
                   redirect |-> Nil, at |-> now]

\* findByClientId(): an inactive app is an error; and the grant must be allowed.
ClientMay(c, grant) == active[c] /\ grant \in Allowed[c]

\* Mutant of Without: the statement matches no row.
WithoutNone(rows, row) == rows

\* DELETE ... WHERE access_token = ?, and likewise for a code
Without(rows, row) == {x \in rows : x.id # row.id}

Begin(r, work) ==
  /\ req[r] = Idle
  /\ req' = [req EXCEPT ![r] = work]

\* Mutant of Finish: the handler runs its last step again.
FinishNever(r) == UNCHANGED req

Finish(r) == req' = [req EXCEPT ![r] = Idle]
-----------------------------------------------------------------------------
(* GET /authorize                                                          *)

\* generateTokenImplicit(): the only grant that tells the browser session
ImplicitDraft(s, c, scope) ==
  [client |-> c, user |-> session[s], grant |-> "implicit", secretUsed |-> FALSE,
   scope |-> scope, session |-> s]

\* response_type=token: the principal is the user object kept in the session.
StartImplicit(r, s, c, scope) ==
  /\ ClientMay(c, "implicit") /\ Registered[c] # {}
  /\ session[s] # Nil
  /\ Begin(r, [pc |-> "mint", proof |-> NoProof(FALSE), draft |-> ImplicitDraft(s, c, scope)])
  /\ UNCHANGED <<tables, world, history, lastSecret>>

\* response_type=code
StartAuthorize(r, s, c, scope, uri, challenge, method) ==
  /\ ClientMay(c, "authorization_code") /\ uri \in Registered[c]
  /\ session[s] # Nil
  /\ c \in RequirePkce => challenge # Nil
  /\ challenge = Nil => method = "S256"  \* how a missing method is read back
  /\ Begin(r, [pc |-> "insertCode",
               row |-> [id |-> 0, client |-> c, user |-> session[s], scope |-> scope,
                        redirect |-> uri, challenge |-> challenge, method |-> method,
                        session |-> s, created |-> now]])
  /\ UNCHANGED <<tables, world, history, lastSecret>>

\* A login challenge that succeeded: a code without redirect_uri or challenge,
\* whose browser_session_id is the id of the challenge and not of a browser.
StartChallengeCode(r, c, u, scope) ==
  /\ ClientMay(c, "authorization_challenge") /\ active[u]
  /\ Begin(r, [pc |-> "insertCode",
               row |-> [id |-> 0, client |-> c, user |-> u, scope |-> scope,
                        redirect |-> Nil, challenge |-> Nil, method |-> "S256",
                        session |-> Nil, created |-> now]])
  /\ UNCHANGED <<tables, world, history, lastSecret>>

\* generateAuthorizationCode()
InsertCode(r) ==
  /\ req[r].pc = "insertCode" /\ lastSecret < MaxSecrets
  /\ LET row == [req[r].row EXCEPT !.id = lastSecret + 1, !.created = now] IN
       /\ codes'  = codes \cup {row}
       /\ issued' = issued \cup {row}
  /\ lastSecret' = lastSecret + 1
  /\ Finish(r)
  /\ UNCHANGED <<tokens, world, minted>>
-----------------------------------------------------------------------------
(* POST /token, grant_type=authorization_code                              *)

StartExchange(r, k, c, basic, verifier, uri) ==
  /\ ClientMay(c, "authorization_code")
  /\ k \in codes
  /\ Begin(r, [pc |-> "deleteCode", code |-> k, client |-> c,
               proof |-> [parent |-> k.id, basic |-> basic, verifier |-> verifier,
                          redirect |-> uri, at |-> now]])
  /\ UNCHANGED <<tables, world, history, lastSecret>>

\* Both DELETEs: by code, then by id; the second finds nothing.
DeleteCode(r) ==
  /\ req[r].pc = "deleteCode"
  /\ codes' = Without(codes, req[r].code)
  /\ req' = [req EXCEPT ![r].pc = "checkCode"]
  /\ UNCHANGED <<tokens, world, history, lastSecret>>

\* Mutants of ExchangeAccepted: any client, and a lifetime one second too long.
ExchangeAcceptedAnyClient(code, client, proof) ==
  /\ PkceMatches(proof.verifier, code.challenge, code.method)
  /\ code.created + CodeExpiry >= now
  /\ code.redirect # Nil => proof.redirect = code.redirect
  /\ active[code.user]

ExchangeAcceptedLate(code, client, proof) ==
  /\ PkceMatches(proof.verifier, code.challenge, code.method)
  /\ code.created + CodeExpiry + 1 >= now
  /\ code.client = client
  /\ code.redirect # Nil => proof.redirect = code.redirect
  /\ active[code.user]

ExchangeAccepted(code, client, proof) ==
  /\ PkceMatches(proof.verifier, code.challenge, code.method)
  /\ code.created + CodeExpiry >= now
  /\ code.client = client
  /\ code.redirect # Nil => proof.redirect = code.redirect
  /\ active[code.user]

\* browser_session_id is not among the options passed on.
ExchangeDraft(client, code, basic) ==
  [client |-> client, user |-> code.user, grant |-> "authorization_code",
   secretUsed |-> StoredSecretUsed("authorization_code", basic),
   scope |-> code.scope, session |-> Nil]

\* The code is gone whatever the outcome of the checks.
CheckCode(r) ==
  /\ req[r].pc = "checkCode"
  /\ LET q == req[r] IN
       IF ExchangeAccepted(q.code, q.client, q.proof)
         THEN req' = [req EXCEPT ![r] =
                [pc |-> "mint", proof |-> [q.proof EXCEPT !.at = now],
                 draft |-> ExchangeDraft(q.client, q.code, q.proof.basic)]]
         ELSE Finish(r)
  /\ UNCHANGED <<tables, world, history, lastSecret>>
-----------------------------------------------------------------------------
(* POST /token, grant_type=refresh_token                                   *)

\* getTokenByRefreshToken() and the comparison of the clients
StartRefresh(r, t, c, basic) ==
  /\ ClientMay(c, "refresh_token")
  /\ t \in tokens /\ t.grant \in RefreshableGrants
  /\ now < t.refreshExpires /\ active[t.user]
  /\ t.client = c
  /\ Begin(r, [pc |-> "revokeOld", old |-> t, client |-> c,
               proof |-> [NoProof(basic) EXCEPT !.parent = t.id]])
  /\ UNCHANGED <<tables, world, history, lastSecret>>

\* Mutant of RefreshDraft: every refreshed token is stored as an authorization_code.
RefreshDraftAsCode(client, old) ==
  [client |-> client, user |-> old.user, grant |-> "authorization_code",
   secretUsed |-> old.secretUsed, scope |-> old.scope, session |-> Nil]

\* The new token keeps everything but the browser session.
RefreshDraft(client, old) ==
  [client |-> client, user |-> old.user, grant |-> old.grant,
   secretUsed |-> StoredSecretUsed(old.grant, old.secretUsed),
   scope |-> old.scope, session |-> Nil]

\* revokeToken(oldToken)
RevokeOld(r) ==
  /\ req[r].pc = "revokeOld"
  /\ LET old == req[r].old IN
       /\ tokens' = Without(tokens, old)
       /\ req' = [req EXCEPT ![r] =
            [pc |-> "mint", proof |-> req[r].proof,
             draft |-> RefreshDraft(req[r].client, old)]]
  /\ UNCHANGED <<codes, world, history, lastSecret>>
-----------------------------------------------------------------------------
(* The grants that start from a principal                                  *)

StartDirect(r, c, u, grant, scope, basic) ==
  /\ active[u]
  /\ Begin(r, [pc |-> "mint", proof |-> NoProof(basic),
               draft |-> [client |-> c, user |-> u, grant |-> grant,
                          secretUsed |-> StoredSecretUsed(grant, basic),
                          scope |-> scope, session |-> Nil]])
  /\ UNCHANGED <<tables, world, history, lastSecret>>

StartClientCredentials(r, c, scope) ==
  ClientMay(c, "client_credentials") /\ StartDirect(r, c, c, "client_credentials", scope, TRUE)

\* The user's password was right (LoginActivity, BrowserLogin).
StartPassword(r, c, u, scope) ==
  ClientMay(c, "password") /\ StartDirect(r, c, u, "password", scope, TRUE)

\* /user/x/access-token, with the client of the caller's bearer token or id 0
StartDeveloperToken(r, c, u, scope) ==
  (c # Nil => active[c]) /\ StartDirect(r, c, u, "developer-token", scope, FALSE)

\* /verification-token/exchange; stored as a developer-token without scope
StartOneTimeToken(r, c, u) ==
  active[c] /\ StartDirect(r, c, u, "developer-token", Nil, FALSE)

\* generateTokenInternal(): the principal was loaded, and found active, earlier.
MintToken(r) ==
  /\ req[r].pc = "mint" /\ lastSecret < MaxSecrets
  /\ LET d   == req[r].draft
         row == [id |-> lastSecret + 1, client |-> d.client, user |-> d.user,
                 grant |-> d.grant, secretUsed |-> d.secretUsed, scope |-> d.scope,
                 session |-> d.session, accessExpires |-> now + AccessExpiry,
                 refreshExpires |-> now + RefreshExpiry]
     IN /\ tokens' = tokens \cup {row}
        /\ minted' = minted \cup {[token |-> row, proof |-> req[r].proof, by |-> r]}
  /\ lastSecret' = lastSecret + 1
  /\ Finish(r)
  /\ UNCHANGED <<codes, world, issued>>
-----------------------------------------------------------------------------
(* POST /revoke and POST /logout                                           *)

\* The access token of the row is looked up first, then the refresh token.
StartRevoke(r, t, c) ==
  /\ active[c]
  /\ t \in tokens /\ active[t.user]
  /\ now < t.accessExpires \/ (t.grant \in RefreshableGrants /\ now < t.refreshExpires)
  /\ t.client = c
  /\ Begin(r, [pc |-> "removeToken", old |-> t])
  /\ UNCHANGED <<tables, world, history, lastSecret>>

RemoveToken(r) ==
  /\ req[r].pc = "removeToken"
  /\ tokens' = Without(tokens, req[r].old)
  /\ Finish(r)
  /\ UNCHANGED <<codes, world, history, lastSecret>>

StartLogout(r, s) ==
  /\ session[s] # Nil
  /\ Begin(r, [pc |-> "logoutCodes", session |-> s])
  /\ UNCHANGED <<tables, world, history, lastSecret>>

\* invalidateTokensByBrowserSessionId(), first and second statement
LogoutCodes(r) ==
  /\ req[r].pc = "logoutCodes"
  /\ codes' = {k \in codes : k.session # req[r].session}
  /\ req' = [req EXCEPT ![r].pc = "logoutTokens"]
  /\ UNCHANGED <<tokens, world, history, lastSecret>>

LogoutTokens(r) ==
  /\ req[r].pc = "logoutTokens"
  /\ tokens' = {t \in tokens : t.session # req[r].session}
  /\ req' = [req EXCEPT ![r].pc = "clearSession"]
  /\ UNCHANGED <<codes, world, history, lastSecret>>

ClearSession(r) ==
  /\ req[r].pc = "clearSession"
  /\ session' = [session EXCEPT ![req[r].session] = Nil]
  /\ Finish(r)
  /\ UNCHANGED <<tables, active, now, history, lastSecret>>
-----------------------------------------------------------------------------
(* The rest of the system                                                  *)

\* setLoginSession(): the session keeps a copy of the user.
Login(s, u) ==
  /\ active[u]
  /\ session' = [session EXCEPT ![s] = u]
  /\ UNCHANGED <<tables, active, now, req, history, lastSecret>>

\* An administrator edits the principal.
SetActive(p) ==
  /\ active' = [active EXCEPT ![p] = ~active[p]]
  /\ UNCHANGED <<tables, session, now, req, history, lastSecret>>

Tick ==
  /\ now < MaxTime
  /\ now' = now + 1
  /\ UNCHANGED <<tables, active, session, req, history, lastSecret>>

\* A statement fails: the request ends with a 500.
Fail(r) ==
  /\ req[r] # Idle
  /\ Finish(r)
  /\ UNCHANGED <<tables, world, history, lastSecret>>

\* The server restarts: requests are lost, and sessions kept in memory too.
Restart ==
  /\ req' = [r \in Requests |-> Idle]
  /\ session' = IF DurableSessions THEN session ELSE [s \in BrowserSessions |-> Nil]
  /\ UNCHANGED <<tables, active, now, history, lastSecret>>
-----------------------------------------------------------------------------
Init ==
  /\ codes = {} /\ tokens = {}
  /\ active = [p \in Principals |-> TRUE]
  /\ session = [s \in BrowserSessions |-> Nil]
  /\ now = 0 /\ lastSecret = 0
  /\ req = [r \in Requests |-> Idle]
  /\ issued = {} /\ minted = {}

Authorize(r) == \E c \in Clients, scope \in Scopes :
  \/ \E s \in BrowserSessions :
       \/ StartImplicit(r, s, c, scope)
       \/ \E uri \in RedirectUris, challenge \in Challenges \cup {Nil}, method \in Methods :
            StartAuthorize(r, s, c, scope, uri, challenge, method)
  \/ \E u \in Users : StartChallengeCode(r, c, u, scope)

Direct(r) == \E c \in Clients, u \in Users, scope \in Scopes :
  \/ StartClientCredentials(r, c, scope)
  \/ StartPassword(r, c, u, scope)
  \/ StartDeveloperToken(r, c, u, scope)
  \/ StartDeveloperToken(r, Nil, u, scope)
  \/ StartOneTimeToken(r, c, u)

TokenEndpoint(r) == \E c \in Clients, basic \in BOOLEAN :
  \/ \E k \in codes, verifier \in Verifiers \cup {Nil}, uri \in RedirectUris \cup {Nil} :
       StartExchange(r, k, c, basic, verifier, uri)
  \/ \E t \in tokens : StartRefresh(r, t, c, basic) \/ StartRevoke(r, t, c)

Step(r) ==
  \/ InsertCode(r) \/ DeleteCode(r) \/ CheckCode(r) \/ RevokeOld(r) \/ MintToken(r)
  \/ RemoveToken(r) \/ LogoutCodes(r) \/ LogoutTokens(r) \/ ClearSession(r)

Next ==
  \/ \E r \in Requests : \/ Authorize(r) \/ Direct(r) \/ TokenEndpoint(r)
                         \/ Step(r) \/ Fail(r)
                         \/ \E s \in BrowserSessions : StartLogout(r, s)
  \/ \E s \in BrowserSessions, u \in Users : Login(s, u)
  \/ \E p \in Editable : SetActive(p)
  \/ Tick \/ Restart

Spec == Init /\ [][Next]_vars
-----------------------------------------------------------------------------
(* Properties                                                              *)

\* Every variable keeps the shape the handlers rely on.
TypeOK ==
  /\ codes \subseteq Code
  /\ tokens \subseteq Token
  /\ active \in [Principals -> BOOLEAN]
  /\ session \in [BrowserSessions -> Users \cup {Nil}]
  /\ now \in Nat /\ lastSecret \in Nat
  /\ req \in [Requests -> Request]
  /\ issued \subseteq Code
  /\ minted \subseteq Mint

\* A code or token that was exchanged for a new token is no longer accepted,
\* however requests, failures and restarts interleave: the service deletes the
\* old row before it inserts the new one and never inserts it again.
SpentSecretsAreGone == \A m \in minted : m.proof.parent \notin Live

\* No handler gets two tokens out of one code or refresh token: when a secret
\* has several children, as many requests held it at the same time.
OneChildPerHandler ==
  \A m1, m2 \in minted :
    m1.proof.parent = m2.proof.parent /\ m1.proof.parent # Nil /\ m1.by = m2.by => m1 = m2

\* A token minted from a code is for the user, the client and the scope that
\* the code was issued for.
CodeGrantsWhatWasAuthorized ==
  \A m \in minted, k \in issued :
    m.proof.parent = k.id =>
      /\ m.token.user = k.user /\ m.token.client = k.client /\ m.token.scope = k.scope
      /\ m.token.grant = "authorization_code"

\* ... and was minted within the code's lifetime by a request that answered its
\* PKCE challenge and named its redirect_uri.
CodeTermsWereMet ==
  \A m \in minted, k \in issued :
    m.proof.parent = k.id =>
      /\ k.challenge # Nil => /\ m.proof.verifier \in Verifiers
                              /\ k.challenge \in {m.proof.verifier, Digest[m.proof.verifier]}
      /\ k.redirect # Nil => m.proof.redirect = k.redirect
      /\ m.proof.at - k.created <= CodeExpiry

\* A client that requires PKCE gets no token out of a code of the browser flow
\* without a verifier: the check is made in /authorize, the proof in /token.
RequiredPkceIsProven ==
  \A m \in minted, k \in issued :
    m.proof.parent = k.id /\ k.redirect # Nil /\ k.client \in RequirePkce =>
      m.proof.verifier \in Verifiers

\* Refreshing hands on everything the old token stood for.
RefreshKeepsTheGrant ==
  \A m, o \in minted :
    m.proof.parent = o.token.id =>
      /\ m.token.user = o.token.user /\ m.token.client = o.token.client
      /\ m.token.scope = o.token.scope /\ m.token.grant = o.token.grant
      /\ m.token.secretUsed = o.token.secretUsed

Entry(id, parent, x) == [secret |-> id, parent |-> parent, user |-> x.user,
                         client |-> x.client, scope |-> x.scope]
IssuedLedger == {Entry(k.id, Nil, k) : k \in issued}
                  \cup {Entry(m.token.id, m.proof.parent, m.token) : m \in minted}

Ledger == INSTANCE GrantLedger WITH
  ledger <- IssuedLedger, live <- Live, ClientIds <- ClientIds,
  GrantedScopes <- Scopes \cup {Nil}, NoParent <- Nil, SecretBound <- MaxSecrets

\* The two tables implement the ledger: a secret dies once, a child is issued
\* only after its parent died and inherits user, client and scope.
ImplementsLedger == Ledger!Spec
=============================================================================
