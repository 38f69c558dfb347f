------------------------ MODULE OAuth2TokensProofs ------------------------
(***************************************************************************)
(* Proofs about OAuth2Tokens, for any number of handlers, users, clients,  *)
(* sessions and secrets.                                                   *)
(***************************************************************************)
EXTENDS OAuth2Tokens, TLAPS

(***************************************************************************)
(* The strengthening of SpentSecretsAreGone and OneChildPerHandler that    *)
(* the steps preserve.                                                     *)
(***************************************************************************)

\* The tables hold nothing that was not inserted.
Known ==
  /\ codes \subseteq issued
  /\ \A t \in tokens : \E m \in minted : m.token = t

\* Secrets are numbered in the order they are generated ...
Numbered ==
  /\ \A k \in issued : k.id <= lastSecret
  /\ \A m \in minted : m.token.id <= lastSecret
  /\ \A m \in minted : m.proof.parent # Nil => m.proof.parent <= lastSecret

\* ... and each number belongs to one code or one token.
Distinct ==
  /\ \A k1, k2 \in issued : k1.id = k2.id => k1 = k2
  /\ \A m1, m2 \in minted : m1.token.id = m2.token.id => m1 = m2
  /\ \A k \in issued, m \in minted : k.id # m.token.id

\* What handler r can rely on when it holds q between two awaits: the secret it
\* exchanges was issued, this handler has not minted from it yet, and from the
\* DELETE on the secret is not live.
HasProof == {"deleteCode", "checkCode", "revokeOld", "mint"}

Holds(r, q) ==
  /\ q.pc \in {"deleteCode", "checkCode"} => q.code \in issued /\ q.proof.parent = q.code.id
  /\ q.pc = "revokeOld" => q.proof.parent = q.old.id /\ \E m \in minted : m.token = q.old
  /\ q.pc \in {"checkCode", "mint"} => q.proof.parent \notin Live
  /\ q.pc \in HasProof /\ q.proof.parent # Nil =>
       /\ q.proof.parent <= lastSecret
       /\ \A m \in minted : m.proof.parent = q.proof.parent => m.by # r

Held == \A r \in Requests : Holds(r, req[r])

IInv == /\ TypeOK /\ Known /\ Numbered /\ Distinct
        /\ SpentSecretsAreGone /\ OneChildPerHandler /\ Held
-----------------------------------------------------------------------------
(* Types                                                                   *)

\* The control point of a request says which locals it has.
LEMMA RequestKinds ==
  ASSUME NEW q \in Request
  PROVE  /\ q.pc \in {"deleteCode", "checkCode"} => q \in ExchangeRequest
         /\ q.pc = "revokeOld" => q \in RefreshRequest
         /\ q.pc = "mint" => q \in MintRequest
         /\ q.pc = "insertCode" => q \in InsertRequest
         /\ q.pc = "removeToken" => q \in RemoveRequest
         /\ q.pc \in {"logoutCodes", "logoutTokens", "clearSession"} => q \in LogoutRequest
BY DEF Request, IdleRequest, ExchangeRequest, RefreshRequest, MintRequest, InsertRequest,
       RemoveRequest, LogoutRequest

\* An action that hands handler r a well-formed request keeps req well-formed.
LEMMA ReqType ==
  ASSUME req \in [Requests -> Request], NEW r \in Requests, NEW q \in Request,
         req' = [req EXCEPT ![r] = q]
  PROVE  req' \in [Requests -> Request]
OBVIOUS

LEMMA IdleType == Idle \in Request
BY DEF Idle, Request, IdleRequest
-----------------------------------------------------------------------------
(* What a request can be when it begins                                    *)

Frame == UNCHANGED <<tables, world, history, lastSecret>>

\* A code of the browser flow for a client that must use PKCE has a challenge.
Guarded(k) == k.redirect # Nil /\ k.client \in RequirePkce => k.challenge # Nil

\* The round trip through the grant_type column changes nothing any more.
Settled(d) == StoredSecretUsed(d.grant, d.secretUsed) = d.secretUsed

\* A fresh request exchanges nothing, or a live secret.
Fresh(q) ==
  /\ q.pc \notin {"checkCode"}
  /\ q.pc = "deleteCode" => q.code \in codes /\ q.proof.parent = q.code.id
  /\ q.pc = "revokeOld" => /\ q.old \in tokens /\ q.proof.parent = q.old.id
                           /\ q.client = q.old.client
  /\ q.pc = "mint" => q.proof.parent = Nil /\ Settled(q.draft)
  /\ q.pc = "insertCode" => Guarded(q.row)

LEMMA BlankProof ==
  ASSUME TypeOK, NEW basic \in BOOLEAN
  PROVE  NoProof(basic) \in Proof /\ NoProof(basic).parent = Nil
BY DEF NoProof, Proof, TypeOK

LEMMA DraftRequest ==
  ASSUME TypeOK, NEW d \in Draft, NEW basic \in BOOLEAN, Settled(d)
  PROVE  LET q == [pc |-> "mint", draft |-> d, proof |-> NoProof(basic)]
         IN  q \in Request /\ Fresh(q)
BY BlankProof DEF Request, MintRequest, Fresh

LEMMA RowRequest ==
  ASSUME NEW row \in Code, Guarded(row)
  PROVE  LET q == [pc |-> "insertCode", row |-> row] IN q \in Request /\ Fresh(q)
BY DEF Request, InsertRequest, Fresh

LEMMA AuthorizeBegins ==
  ASSUME TypeOK, NEW r \in Requests, Authorize(r)
  PROVE  Frame /\ \E q \in Request : Begin(r, q) /\ Fresh(q)
<1>1. ASSUME NEW c \in Clients, NEW scope \in Scopes, NEW s \in BrowserSessions,
             StartImplicit(r, s, c, scope)
      PROVE  Frame /\ \E q \in Request : Begin(r, q) /\ Fresh(q)
  <2> DEFINE d == [client |-> c, user |-> session[s], grant |-> "implicit",
                   secretUsed |-> FALSE, scope |-> scope, session |-> s]
  <2>1. d \in Draft
    BY <1>1 DEF StartImplicit, ImplicitDraft, TypeOK, Draft, ClientIds, Principals, TokenGrants
  <2>2. Settled(d)
    BY DEF Settled, StoredSecretUsed
  <2> QED BY <1>1, <2>1, <2>2, DraftRequest DEF StartImplicit, ImplicitDraft, Frame
<1>2. ASSUME NEW c \in Clients, NEW scope \in Scopes, NEW s \in BrowserSessions,
             NEW uri \in RedirectUris, NEW challenge \in Challenges \cup {Nil},
             NEW method \in Methods, StartAuthorize(r, s, c, scope, uri, challenge, method)
      PROVE  Frame /\ \E q \in Request : Begin(r, q) /\ Fresh(q)
  <2> DEFINE row == [id |-> 0, client |-> c, user |-> session[s], scope |-> scope,
                     redirect |-> uri, challenge |-> challenge, method |-> method,
                     session |-> s, created |-> now]
  <2>1. row \in Code
    BY <1>2 DEF StartAuthorize, TypeOK, Code
  <2>2. Guarded(row)
    BY <1>2 DEF StartAuthorize, Guarded
  <2> QED BY <1>2, <2>1, <2>2, RowRequest DEF StartAuthorize, Frame
<1>3. ASSUME NEW c \in Clients, NEW scope \in Scopes, NEW u \in Users,
             StartChallengeCode(r, c, u, scope)
      PROVE  Frame /\ \E q \in Request : Begin(r, q) /\ Fresh(q)
  <2> DEFINE row == [id |-> 0, client |-> c, user |-> u, scope |-> scope,
                     redirect |-> Nil, challenge |-> Nil, method |-> "S256",
                     session |-> Nil, created |-> now]
  <2>1. row \in Code
    BY <1>3 DEF StartChallengeCode, TypeOK, Code, Methods
  <2>2. Guarded(row)
    BY DEF Guarded
  <2> QED BY <1>3, <2>1, <2>2, RowRequest DEF StartChallengeCode, Frame
<1> QED BY <1>1, <1>2, <1>3 DEF Authorize

LEMMA DirectBegins ==
  ASSUME TypeOK, NEW r \in Requests, Direct(r)
  PROVE  Frame /\ \E q \in Request : Begin(r, q) /\ Fresh(q)
<1>1. ASSUME NEW c \in ClientIds, NEW u \in Principals, NEW grant \in TokenGrants,
             NEW scope \in Scopes \cup {Nil}, NEW basic \in BOOLEAN,
             StartDirect(r, c, u, grant, scope, basic)
      PROVE  Frame /\ \E q \in Request : Begin(r, q) /\ Fresh(q)
  <2> DEFINE d == [client |-> c, user |-> u, grant |-> grant,
                   secretUsed |-> StoredSecretUsed(grant, basic),
                   scope |-> scope, session |-> Nil]
  <2>1. StoredSecretUsed(grant, basic) \in BOOLEAN
    BY DEF StoredSecretUsed
  <2>2. d \in Draft
    BY <2>1 DEF Draft
  <2>3. Settled(d)
    BY DEF Settled, StoredSecretUsed
  <2> QED BY <1>1, <2>2, <2>3, DraftRequest DEF StartDirect, Frame
<1>2. PICK c \in Clients, u \in Users, scope \in Scopes :
        \/ StartClientCredentials(r, c, scope)
        \/ StartPassword(r, c, u, scope)
        \/ StartDeveloperToken(r, c, u, scope)
        \/ StartDeveloperToken(r, Nil, u, scope)
        \/ StartOneTimeToken(r, c, u)
  BY DEF Direct
<1>3. c \in ClientIds /\ Nil \in ClientIds /\ c \in Principals /\ u \in Principals
  BY DEF ClientIds, Principals
<1> QED BY <1>1, <1>2, <1>3 DEF StartClientCredentials, StartPassword, StartDeveloperToken,
                             StartOneTimeToken, TokenGrants

LEMMA TokenEndpointBegins ==
  ASSUME TypeOK, NEW r \in Requests, TokenEndpoint(r)
  PROVE  Frame /\ \E q \in Request : Begin(r, q) /\ Fresh(q)
<1>1. ASSUME NEW c \in Clients, NEW basic \in BOOLEAN, NEW k \in codes,
             NEW verifier \in Verifiers \cup {Nil}, NEW uri \in RedirectUris \cup {Nil},
             StartExchange(r, k, c, basic, verifier, uri)
      PROVE  Frame /\ \E q \in Request : Begin(r, q) /\ Fresh(q)
  <2> DEFINE p == [parent |-> k.id, basic |-> basic, verifier |-> verifier,
                   redirect |-> uri, at |-> now]
             q == [pc |-> "deleteCode", code |-> k, client |-> c, proof |-> p]
  <2>1. k \in Code /\ k.id \in Nat /\ now \in Nat
    BY DEF TypeOK, Code
  <2>2. p \in Proof
    BY <2>1 DEF Proof
  <2>3. q \in Request /\ Fresh(q)
    BY <2>1, <2>2 DEF Request, ExchangeRequest, Fresh
  <2> QED BY <1>1, <2>3 DEF StartExchange, Frame
<1>2. ASSUME NEW c \in Clients, NEW basic \in BOOLEAN, NEW t \in tokens,
             StartRefresh(r, t, c, basic)
      PROVE  Frame /\ \E q \in Request : Begin(r, q) /\ Fresh(q)
  <2> DEFINE p == [NoProof(basic) EXCEPT !.parent = t.id]
             q == [pc |-> "revokeOld", old |-> t, client |-> c, proof |-> p]
  <2>1. t \in Token /\ t.id \in Nat
    BY DEF TypeOK, Token
  <2>2. p \in Proof /\ p.parent = t.id
    BY <2>1 DEF Proof, NoProof, TypeOK
  <2>3. q \in Request /\ Fresh(q)
    BY <1>2, <2>1, <2>2 DEF Request, RefreshRequest, Fresh, StartRefresh
  <2> QED BY <1>2, <2>3 DEF StartRefresh, Frame
<1>3. ASSUME NEW c \in Clients, NEW t \in tokens, StartRevoke(r, t, c)
      PROVE  Frame /\ \E q \in Request : Begin(r, q) /\ Fresh(q)
  <2> DEFINE q == [pc |-> "removeToken", old |-> t]
  <2>1. q \in Request /\ Fresh(q)
    BY DEF TypeOK, Request, RemoveRequest, Fresh
  <2> QED BY <1>3, <2>1 DEF StartRevoke, Frame
<1> QED BY <1>1, <1>2, <1>3 DEF TokenEndpoint

LEMMA LogoutBegins ==
  ASSUME TypeOK, NEW r \in Requests, NEW s \in BrowserSessions, StartLogout(r, s)
  PROVE  Frame /\ \E q \in Request : Begin(r, q) /\ Fresh(q)
<1> DEFINE q == [pc |-> "logoutCodes", session |-> s]
<1>1. q \in Request /\ Fresh(q)
  BY DEF Request, LogoutRequest, Fresh
<1> QED BY <1>1 DEF StartLogout, Frame
LEMMA RequestBegins ==
  ASSUME TypeOK, NEW r \in Requests,
         \/ Authorize(r) \/ Direct(r) \/ TokenEndpoint(r)
         \/ \E s \in BrowserSessions : StartLogout(r, s)
  PROVE  Frame /\ \E q \in Request : Begin(r, q) /\ Fresh(q)
BY AuthorizeBegins, DirectBegins, TokenEndpointBegins, LogoutBegins
-----------------------------------------------------------------------------
(* Type correctness                                                        *)

LEMMA FinishType ==
  ASSUME req \in [Requests -> Request], NEW r \in Requests, Finish(r)
  PROVE  req' \in [Requests -> Request]
BY IdleType DEF Finish

LEMMA WithoutType ==
  ASSUME NEW S, NEW rows, rows \subseteq S, NEW row
  PROVE  Without(rows, row) \subseteq S /\ Without(rows, row) \subseteq rows
BY DEF Without

\* The row generateTokenInternal() inserts for draft d
MintedRow(d) ==
  [id |-> lastSecret + 1, client |-> d.client, user |-> d.user,
   grant |-> d.grant, secretUsed |-> d.secretUsed, scope |-> d.scope,
   session |-> d.session, accessExpires |-> now + AccessExpiry,
   refreshExpires |-> now + RefreshExpiry]

LEMMA MintTypes ==
  ASSUME TypeOK, NEW r \in Requests, req[r].pc = "mint"
  PROVE  LET row == MintedRow(req[r].draft) IN
           /\ row \in Token /\ row.id = lastSecret + 1
           /\ [token |-> row, proof |-> req[r].proof, by |-> r] \in Mint
<1>1. req[r] \in MintRequest
  BY RequestKinds DEF TypeOK
<1>2. req[r].draft \in Draft /\ req[r].proof \in Proof
  BY <1>1 DEF MintRequest
<1>3. lastSecret + 1 \in Nat /\ now + AccessExpiry \in Nat /\ now + RefreshExpiry \in Nat
  BY SettingsAssumption DEF TypeOK
<1>4. MintedRow(req[r].draft) \in Token
  BY <1>2, <1>3 DEF MintedRow, Draft, Token
<1> QED BY <1>2, <1>4 DEF Mint, MintedRow

LEMMA StepType ==
  ASSUME TypeOK, NEW r \in Requests, Step(r)
  PROVE  TypeOK'
<1> USE DEF TypeOK, tables, world, history
<1>1. CASE InsertCode(r)
  <2> DEFINE row == [req[r].row EXCEPT !.id = lastSecret + 1, !.created = now]
  <2>1. req[r].row \in Code
    BY <1>1, RequestKinds DEF InsertCode, InsertRequest
  <2>2. lastSecret + 1 \in Nat /\ now \in Nat
    OBVIOUS
  <2>3. \A id, at \in Nat, k \in Code : [k EXCEPT !.id = id, !.created = at] \in Code
    BY DEF Code
  <2>4. row \in Code
    BY <2>1, <2>2, <2>3
  <2> QED BY <1>1, <2>2, <2>4, FinishType DEF InsertCode
<1>2. CASE DeleteCode(r)
  <2>1. req[r] \in ExchangeRequest
    BY <1>2, RequestKinds DEF DeleteCode
  <2>2. [req[r] EXCEPT !.pc = "checkCode"] \in Request
    BY <2>1 DEF Request, ExchangeRequest
  <2>3. codes' \subseteq Code
    BY <1>2, WithoutType DEF DeleteCode
  <2> QED BY <1>2, <2>2, <2>3, ReqType DEF DeleteCode
<1>3. CASE CheckCode(r)
  <2> DEFINE q == req[r]
             next == [pc |-> "mint", proof |-> [q.proof EXCEPT !.at = now],
                      draft |-> ExchangeDraft(q.client, q.code, q.proof.basic)]
  <2>1. q.code \in Code /\ q.client \in Clients /\ q.proof \in Proof
    BY <1>3, RequestKinds DEF CheckCode, ExchangeRequest
  <2>2. ExchangeDraft(q.client, q.code, q.proof.basic) \in Draft
    BY <2>1 DEF ExchangeDraft, Draft, StoredSecretUsed, Code, Proof, TokenGrants,
                ClientIds, Principals
  <2>3. next \in Request
    BY <2>1, <2>2 DEF Request, MintRequest, Proof
  <2>4. req' \in [Requests -> Request]
    BY <1>3, <2>3, ReqType, FinishType DEF CheckCode
  <2> QED BY <1>3, <2>4 DEF CheckCode
<1>4. CASE RevokeOld(r)
  <2> DEFINE q == req[r]
             next == [pc |-> "mint", proof |-> q.proof, draft |-> RefreshDraft(q.client, q.old)]
  <2>1. q.old \in Token /\ q.client \in Clients /\ q.proof \in Proof
    BY <1>4, RequestKinds DEF RevokeOld, RefreshRequest
  <2>2. StoredSecretUsed(q.old.grant, q.old.secretUsed) \in BOOLEAN
    BY <2>1 DEF StoredSecretUsed, Token
  <2>3. RefreshDraft(q.client, q.old) \in Draft
    BY <2>1, <2>2 DEF RefreshDraft, Draft, Token, ClientIds
  <2>4. next \in Request
    BY <2>1, <2>3 DEF Request, MintRequest
  <2>5. tokens' \subseteq Token
    BY <1>4, WithoutType DEF RevokeOld
  <2> QED BY <1>4, <2>4, <2>5, ReqType DEF RevokeOld
<1>5. CASE MintToken(r)
  <2> DEFINE row == MintedRow(req[r].draft)
  <2>1. row \in Token /\ [token |-> row, proof |-> req[r].proof, by |-> r] \in Mint
    BY <1>5, MintTypes DEF MintToken
  <2>2. tokens' = tokens \cup {row}
        /\ minted' = minted \cup {[token |-> row, proof |-> req[r].proof, by |-> r]}
    BY <1>5 DEF MintToken, MintedRow
  <2> QED BY <1>5, <2>1, <2>2, FinishType DEF MintToken
<1>6. CASE RemoveToken(r)
  <2>1. tokens' \subseteq Token
    BY <1>6, WithoutType DEF RemoveToken
  <2> QED BY <1>6, <2>1, FinishType DEF RemoveToken
<1>7. CASE LogoutCodes(r)
  <2>1. [req[r] EXCEPT !.pc = "logoutTokens"] \in Request
    BY <1>7, RequestKinds DEF LogoutCodes, Request, LogoutRequest
  <2> QED BY <1>7, <2>1, ReqType DEF LogoutCodes
<1>8. CASE LogoutTokens(r)
  <2>1. [req[r] EXCEPT !.pc = "clearSession"] \in Request
    BY <1>8, RequestKinds DEF LogoutTokens, Request, LogoutRequest
  <2> QED BY <1>8, <2>1, ReqType DEF LogoutTokens
<1>9. CASE ClearSession(r)
  BY <1>9, FinishType DEF ClearSession
<1> QED BY <1>1, <1>2, <1>3, <1>4, <1>5, <1>6, <1>7, <1>8, <1>9 DEF Step

LEMMA TypeStep ==
  ASSUME TypeOK, [Next]_vars
  PROVE  TypeOK'
<1> USE DEF TypeOK, tables, world, history
<1>1. CASE UNCHANGED vars
  BY <1>1 DEF vars
<1>2. ASSUME NEW r \in Requests, Frame, NEW q \in Request, Begin(r, q)
      PROVE  TypeOK'
  BY <1>2, ReqType DEF Frame, Begin
<1>3. ASSUME NEW r \in Requests, Fail(r)
      PROVE  TypeOK'
  BY <1>3, FinishType DEF Fail
<1>4. ASSUME NEW s \in BrowserSessions, NEW u \in Users, Login(s, u)
      PROVE  TypeOK'
  BY <1>4 DEF Login
<1>5. ASSUME NEW p \in Editable, SetActive(p)
      PROVE  TypeOK'
  <2>1. p \in Principals
    BY ClientsAssumption
  <2> QED BY <1>5, <2>1 DEF SetActive
<1>6. CASE Tick
  BY <1>6 DEF Tick
<1>7. CASE Restart
  BY <1>7, IdleType DEF Restart
<1> QED BY <1>1, <1>2, <1>3, <1>4, <1>5, <1>6, <1>7, RequestBegins, StepType DEF Next

\* Every reachable state of oauth2_codes, oauth2_tokens and the handlers is
\* well-typed: in particular only browser flows bind a row to a session.
THEOREM TypeCorrect == Spec => []TypeOK
<1>1. Init => TypeOK
  BY IdleType DEF Init, TypeOK
<1>2. TypeOK /\ [Next]_vars => TypeOK'
  BY TypeStep
<1> QED BY <1>1, <1>2, PTL DEF Spec
-----------------------------------------------------------------------------
(* A spent secret stays dead                                               *)

\* Everything of IInv but the types survives a step that deletes rows at most
\* and leaves each handler with something it may hold.
LEMMA OnlyDeletes ==
  ASSUME IInv, TypeOK', codes' \subseteq codes, tokens' \subseteq tokens,
         UNCHANGED <<history, lastSecret>>, Held'
  PROVE  IInv'
<1>1. Live' \subseteq Live
  BY DEF Live
<1>2. Known' /\ Numbered' /\ Distinct' /\ SpentSecretsAreGone' /\ OneChildPerHandler'
  BY <1>1 DEF IInv, Known, Numbered, Distinct, SpentSecretsAreGone, OneChildPerHandler, history
<1> QED BY <1>2 DEF IInv

\* What a handler holds stays valid while others delete rows.
LEMMA HoldsOn ==
  ASSUME IInv, codes' \subseteq codes, tokens' \subseteq tokens,
         UNCHANGED <<history, lastSecret>>, NEW r \in Requests, req'[r] = req[r]
  PROVE  Holds(r, req[r])'
<1>1. Holds(r, req[r])
  BY DEF IInv, Held
<1> QED BY <1>1 DEF Holds, HasProof, Live, history

LEMMA IdleHolds ==
  ASSUME NEW r \in Requests, req'[r] = Idle
  PROVE  Holds(r, req[r])'
BY DEF Holds, HasProof, Idle

\* The common shape of the steps of a handler: the others go on, it deletes rows
\* at most, and what it holds afterwards is in order.
LEMMA HandlerStep ==
  ASSUME IInv, TypeOK', codes' \subseteq codes, tokens' \subseteq tokens,
         UNCHANGED <<history, lastSecret>>,
         NEW r \in Requests, \A x \in Requests \ {r} : req'[x] = req[x],
         Holds(r, req[r])'
  PROVE  IInv'
<1>1. ASSUME NEW x \in Requests
      PROVE  Holds(x, req[x])'
  BY <1>1, HoldsOn
<1> QED BY <1>1, OnlyDeletes DEF Held

LEMMA FreshHolds ==
  ASSUME IInv, NEW r \in Requests, NEW q \in Request, Fresh(q)
  PROVE  Holds(r, q)
<1> USE DEF IInv
<1>1. q.pc \in {"deleteCode", "checkCode"} => q.code \in issued /\ q.proof.parent = q.code.id
  BY DEF Fresh, Known
<1>2. q.pc = "revokeOld" => q.proof.parent = q.old.id /\ \E m \in minted : m.token = q.old
  BY DEF Fresh, Known
<1>3. Nil \notin Live
  BY NilAssumption DEF Live, TypeOK, Code, Token
<1>4. q.pc \in {"checkCode", "mint"} => q.proof.parent \notin Live
  BY <1>3 DEF Fresh
<1>5. ASSUME q.pc = "deleteCode"
      PROVE  q.proof.parent <= lastSecret
             /\ \A m \in minted : m.proof.parent # q.proof.parent
  BY <1>1, <1>5 DEF Fresh, Numbered, SpentSecretsAreGone, Live
<1>6. ASSUME q.pc = "revokeOld"
      PROVE  q.proof.parent <= lastSecret
             /\ \A m \in minted : m.proof.parent # q.proof.parent
  BY <1>2, <1>6 DEF Fresh, Numbered, SpentSecretsAreGone, Live
<1> QED BY <1>1, <1>2, <1>4, <1>5, <1>6 DEF Holds, HasProof, Fresh

LEMMA BeginStep ==
  ASSUME IInv, TypeOK', NEW r \in Requests, Frame, NEW q \in Request, Begin(r, q), Fresh(q)
  PROVE  IInv'
<1>1. req'[r] = q /\ \A x \in Requests \ {r} : req'[x] = req[x]
  BY DEF Begin, IInv, TypeOK
<1>2. UNCHANGED <<codes, tokens, history, lastSecret>>
  BY DEF Frame, tables
<1>3. Holds(r, q)
  BY FreshHolds
<1>4. Holds(r, req[r])'
  BY <1>1, <1>2, <1>3 DEF Holds, HasProof, Live, history
<1> QED BY <1>1, <1>2, <1>4, HandlerStep

LEMMA FinishStep ==
  ASSUME IInv, TypeOK', NEW r \in Requests, Finish(r),
         codes' \subseteq codes, tokens' \subseteq tokens, UNCHANGED <<history, lastSecret>>
  PROVE  IInv'
<1>1. req'[r] = Idle /\ \A x \in Requests \ {r} : req'[x] = req[x]
  BY DEF Finish, IInv, TypeOK
<1> QED BY <1>1, IdleHolds, HandlerStep

LEMMA InsertCodeStep ==
  ASSUME IInv, TypeOK', NEW r \in Requests, InsertCode(r)
  PROVE  IInv'
<1>1. req[r].row \in Code /\ lastSecret \in Nat
  BY RequestKinds DEF InsertCode, InsertRequest, IInv, TypeOK
<1>2. [req[r].row EXCEPT !.id = lastSecret + 1, !.created = now].id = lastSecret + 1
  BY <1>1 DEF Code
<1>3. PICK row : /\ row.id = lastSecret + 1
                 /\ codes' = codes \cup {row} /\ issued' = issued \cup {row}
                 /\ lastSecret' = lastSecret + 1 /\ UNCHANGED <<tokens, minted>>
  BY <1>2 DEF InsertCode
<1>4. Live' = Live \cup {lastSecret + 1}
  BY <1>2, <1>3 DEF Live
<1>5. /\ \A k \in issued : k.id \in Nat /\ k.id <= lastSecret
      /\ \A m \in minted : m.token.id \in Nat /\ m.token.id <= lastSecret
      /\ \A m \in minted : m.proof.parent \in Nat \cup {Nil}
      /\ \A m \in minted : m.proof.parent # Nil => m.proof.parent <= lastSecret
  BY DEF IInv, TypeOK, Numbered, Code, Mint, Token, Proof
<1>6. Known'
  BY <1>3 DEF IInv, Known
<1>7. Numbered'
  <2>1. lastSecret \in Nat /\ lastSecret' = lastSecret + 1
    BY <1>1, <1>3
  <2>2. \A k \in issued' : k.id <= lastSecret'
    BY <2>1, <1>3, <1>5
  <2>3. \A m \in minted' : m.token.id <= lastSecret'
    BY <2>1, <1>3, <1>5
  <2>4. \A m \in minted' : m.proof.parent # Nil => m.proof.parent <= lastSecret'
    BY <2>1, <1>3, <1>5
  <2> QED BY <2>2, <2>3, <2>4 DEF Numbered
<1>8. Distinct'
  <2>1. \A k \in issued : k.id # row.id
    BY <1>1, <1>3, <1>5
  <2>2. \A m \in minted : m.token.id # row.id
    BY <1>1, <1>3, <1>5
  <2> QED BY <1>3, <2>1, <2>2 DEF IInv, Distinct
<1>10. SpentSecretsAreGone' /\ OneChildPerHandler'
  <2>1. \A m \in minted : m.proof.parent # lastSecret + 1
    BY <1>1, <1>5, NilAssumption
  <2> QED BY <1>3, <1>4, <2>1 DEF IInv, SpentSecretsAreGone, OneChildPerHandler
<1>9. ASSUME NEW x \in Requests
      PROVE  Holds(x, req[x])'
  <2>1. CASE x = r
    BY <2>1, IdleHolds DEF InsertCode, Finish, IInv, TypeOK
  <2>2. CASE x # r
    <3>1. req'[x] = req[x] /\ Holds(x, req[x])
      BY <2>2 DEF InsertCode, Finish, IInv, TypeOK, Held
    <3>2. req[x].pc \in HasProof => req[x].proof.parent \in Nat \cup {Nil}
      BY RequestKinds DEF HasProof, ExchangeRequest, RefreshRequest, MintRequest, Proof,
                          IInv, TypeOK
    <3> QED BY <1>1, <1>3, <1>4, <3>1, <3>2, NilAssumption DEF Holds, HasProof
  <2> QED BY <2>1, <2>2
<1> QED BY <1>6, <1>7, <1>8, <1>9, <1>10 DEF IInv, Held

\* Both inserts: the other handlers keep what they hold, because the new secret
\* is none of theirs and its parent is none of theirs for this handler.
LEMMA MintTokenStep ==
  ASSUME IInv, TypeOK', NEW r \in Requests, MintToken(r)
  PROVE  IInv'
<1>1. /\ req[r].pc = "mint" /\ req[r] \in MintRequest
      /\ lastSecret \in Nat /\ req[r].proof.parent \in Nat \cup {Nil}
  BY RequestKinds DEF MintToken, MintRequest, Proof, IInv, TypeOK
<1>2. MintedRow(req[r].draft).id = lastSecret + 1
  BY DEF MintedRow
<1>3. PICK row, m0 :
        /\ row.id = lastSecret + 1
        /\ m0.token = row /\ m0.proof = req[r].proof /\ m0.by = r
        /\ tokens' = tokens \cup {row} /\ minted' = minted \cup {m0}
        /\ lastSecret' = lastSecret + 1 /\ UNCHANGED <<codes, issued>>
  <2> DEFINE w == MintedRow(req[r].draft)
             v == [token |-> w, proof |-> req[r].proof, by |-> r]
  <2>1. v.token = w /\ v.proof = req[r].proof /\ v.by = r
    OBVIOUS
  <2>2. /\ tokens' = tokens \cup {w} /\ minted' = minted \cup {v}
        /\ lastSecret' = lastSecret + 1 /\ UNCHANGED <<codes, issued>>
    BY DEF MintToken, MintedRow
  <2> HIDE DEF w, v
  <2> QED BY <1>2, <2>1, <2>2 DEF w
<1>4. Live' = Live \cup {lastSecret + 1}
  BY <1>3 DEF Live
<1>5. /\ \A k \in issued : k.id \in Nat /\ k.id <= lastSecret
      /\ \A m \in minted : m.token.id \in Nat /\ m.token.id <= lastSecret
      /\ \A m \in minted : m.proof.parent \in Nat \cup {Nil}
      /\ \A m \in minted : m.proof.parent # Nil => m.proof.parent <= lastSecret
  BY DEF IInv, TypeOK, Numbered, Code, Mint, Token, Proof
<1>6. /\ m0.proof.parent \notin Live
      /\ m0.proof.parent # Nil =>
           /\ m0.proof.parent <= lastSecret
           /\ \A m \in minted : m.proof.parent = m0.proof.parent => m.by # r
  BY <1>1, <1>3 DEF IInv, Held, Holds, HasProof
<1>7. m0.proof.parent # lastSecret + 1
  BY <1>1, <1>3, <1>6, NilAssumption
<1>8. Known'
  BY <1>3 DEF IInv, Known
<1>9. Numbered'
  <2>1. \A k \in issued' : k.id <= lastSecret'
    BY <1>1, <1>3, <1>5
  <2>2. \A m \in minted' : m.token.id <= lastSecret'
    BY <1>1, <1>3, <1>5
  <2>3. \A m \in minted' : m.proof.parent # Nil => m.proof.parent <= lastSecret'
    BY <1>1, <1>3, <1>5, <1>6
  <2> QED BY <2>1, <2>2, <2>3 DEF Numbered
<1>10. Distinct'
  <2>1. \A k \in issued : k.id # row.id
    BY <1>1, <1>3, <1>5
  <2>2. \A m \in minted : m.token.id # row.id
    BY <1>1, <1>3, <1>5
  <2> QED BY <1>3, <2>1, <2>2 DEF IInv, Distinct
<1>11. SpentSecretsAreGone'
  <2>1. \A m \in minted : m.proof.parent # lastSecret + 1
    BY <1>1, <1>5, NilAssumption
  <2> QED BY <1>3, <1>4, <1>6, <1>7, <2>1 DEF IInv, SpentSecretsAreGone
<1>12. OneChildPerHandler'
  BY <1>3, <1>6 DEF IInv, OneChildPerHandler
<1>13. ASSUME NEW x \in Requests
       PROVE  Holds(x, req[x])'
  <2>1. CASE x = r
    BY <2>1, IdleHolds DEF MintToken, Finish, IInv, TypeOK
  <2>2. CASE x # r
    <3>1. req'[x] = req[x] /\ Holds(x, req[x])
      BY <2>2 DEF MintToken, Finish, IInv, TypeOK, Held
    <3>2. req[x].pc \in HasProof => req[x].proof.parent \in Nat \cup {Nil}
      BY RequestKinds DEF HasProof, ExchangeRequest, RefreshRequest, MintRequest, Proof,
                          IInv, TypeOK
    <3>3. req[x].pc \in {"checkCode", "mint"} => req[x].proof.parent # lastSecret + 1
      BY <1>1, <3>1, <3>2, NilAssumption DEF Holds, HasProof
    <3>4. req[x].pc \in HasProof /\ req[x].proof.parent # Nil =>
            /\ req[x].proof.parent <= lastSecret'
            /\ \A m \in minted' : m.proof.parent = req[x].proof.parent => m.by # x
      BY <1>1, <1>3, <2>2, <3>1, <3>2 DEF Holds
    <3> QED BY <1>3, <1>4, <3>1, <3>3, <3>4 DEF Holds
  <2> QED BY <2>1, <2>2
<1> QED BY <1>8, <1>9, <1>10, <1>11, <1>12, <1>13 DEF IInv, Held

\* The DELETE is what makes the secret dead, before anything is minted from it.
LEMMA DeleteCodeStep ==
  ASSUME IInv, TypeOK', NEW r \in Requests, DeleteCode(r)
  PROVE  IInv'
<1>1. req[r] \in ExchangeRequest /\ req[r].pc = "deleteCode" /\ Holds(r, req[r])
  BY RequestKinds DEF DeleteCode, IInv, TypeOK, Held
<1>2. PICK q : /\ q.pc = "checkCode" /\ q.code = req[r].code /\ q.proof = req[r].proof
               /\ req'[r] = q /\ \A x \in Requests \ {r} : req'[x] = req[x]
  BY <1>1 DEF DeleteCode, ExchangeRequest, IInv, TypeOK
<1>3. codes' = Without(codes, q.code) /\ UNCHANGED <<tokens, history, lastSecret>>
  BY <1>2 DEF DeleteCode
<1>4. q.code.id \notin Live'
  <2>1. \A t \in tokens : t.id # q.code.id
    BY <1>1, <1>2 DEF IInv, Known, Distinct, Holds
  <2> QED BY <1>3, <2>1 DEF Live, Without
<1>5. Holds(r, req[r])'
  BY <1>1, <1>2, <1>3, <1>4 DEF Holds, HasProof, history
<1> QED BY <1>2, <1>3, <1>5, HandlerStep DEF Without

LEMMA CheckCodeStep ==
  ASSUME IInv, TypeOK', NEW r \in Requests, CheckCode(r)
  PROVE  IInv'
<1>1. req[r] \in ExchangeRequest /\ req[r].pc = "checkCode" /\ Holds(r, req[r])
  BY RequestKinds DEF CheckCode, IInv, TypeOK, Held
<1>2. UNCHANGED <<codes, tokens, history, lastSecret>>
  BY DEF CheckCode, tables
<1>3. CASE Finish(r)
  BY <1>2, <1>3, FinishStep
<1>4. CASE ~ Finish(r)
  <2>1. PICK q : /\ q.pc = "mint" /\ q.proof.parent = req[r].proof.parent
                 /\ req'[r] = q /\ \A x \in Requests \ {r} : req'[x] = req[x]
    BY <1>1, <1>4 DEF CheckCode, ExchangeRequest, Proof, IInv, TypeOK
  <2>2. Holds(r, req[r])'
    BY <1>1, <1>2, <2>1 DEF Holds, HasProof, Live, history
  <2> QED BY <1>2, <2>1, <2>2, HandlerStep
<1> QED BY <1>3, <1>4

LEMMA RevokeOldStep ==
  ASSUME IInv, TypeOK', NEW r \in Requests, RevokeOld(r)
  PROVE  IInv'
<1>1. req[r] \in RefreshRequest /\ req[r].pc = "revokeOld" /\ Holds(r, req[r])
  BY RequestKinds DEF RevokeOld, IInv, TypeOK, Held
<1>2. PICK q : /\ q.pc = "mint" /\ q.proof = req[r].proof
               /\ req'[r] = q /\ \A x \in Requests \ {r} : req'[x] = req[x]
  BY <1>1 DEF RevokeOld, IInv, TypeOK
<1>3. tokens' = Without(tokens, req[r].old) /\ UNCHANGED <<codes, history, lastSecret>>
  BY DEF RevokeOld
<1>4. q.proof.parent \notin Live'
  <2>1. \A k \in codes : k.id # req[r].old.id
    BY <1>1 DEF IInv, Known, Distinct, Holds
  <2> QED BY <1>1, <1>2, <1>3, <2>1 DEF Live, Without, Holds
<1>5. Holds(r, req[r])'
  BY <1>1, <1>2, <1>3, <1>4 DEF Holds, HasProof, history
<1> QED BY <1>2, <1>3, <1>5, HandlerStep DEF Without

\* /logout: the two DELETEs and the end of the session
LEMMA LogoutStep ==
  ASSUME IInv, TypeOK', NEW r \in Requests,
         LogoutCodes(r) \/ LogoutTokens(r) \/ ClearSession(r)
  PROVE  IInv'
<1>1. CASE ClearSession(r)
  BY <1>1, FinishStep DEF ClearSession, tables
<1>2. ASSUME LogoutCodes(r) \/ LogoutTokens(r)
      PROVE  IInv'
  <2>1. req[r] \in LogoutRequest
    BY <1>2, RequestKinds DEF LogoutCodes, LogoutTokens, IInv, TypeOK
  <2>2. PICK q : /\ q.pc \in {"logoutTokens", "clearSession"}
                 /\ req'[r] = q /\ \A x \in Requests \ {r} : req'[x] = req[x]
    BY <1>2, <2>1 DEF LogoutCodes, LogoutTokens, LogoutRequest, IInv, TypeOK
  <2>3. Holds(r, req[r])'
    BY <2>2 DEF Holds, HasProof
  <2> QED BY <1>2, <2>2, <2>3, HandlerStep DEF LogoutCodes, LogoutTokens
<1> QED BY <1>1, <1>2

LEMMA InvariantStep == IInv /\ [Next]_vars => IInv'
<1> SUFFICES ASSUME IInv, [Next]_vars
             PROVE  IInv'
  OBVIOUS
<1>1. TypeOK'
  BY TypeStep DEF IInv
<1>2. CASE UNCHANGED vars
  BY <1>1, <1>2, OnlyDeletes, HoldsOn DEF vars, history, Held
<1>3. ASSUME NEW r \in Requests,
             \/ Authorize(r) \/ Direct(r) \/ TokenEndpoint(r)
             \/ \E s \in BrowserSessions : StartLogout(r, s)
      PROVE  IInv'
  <2>1. Frame /\ \E q \in Request : Begin(r, q) /\ Fresh(q)
    BY <1>3, RequestBegins DEF IInv
  <2> QED BY <1>1, <2>1, BeginStep
<1>4. ASSUME NEW r \in Requests, Step(r)
      PROVE  IInv'
  <2>1. CASE RemoveToken(r)
    BY <1>1, <2>1, FinishStep DEF RemoveToken, Without
  <2> QED BY <1>1, <1>4, <2>1, InsertCodeStep, MintTokenStep, DeleteCodeStep, CheckCodeStep,
             RevokeOldStep, LogoutStep DEF Step
<1>5. ASSUME NEW r \in Requests, Fail(r)
      PROVE  IInv'
  BY <1>1, <1>5, FinishStep DEF Fail, tables
<1>6. CASE Restart
  <2>1. Held'
    BY <1>6, IdleHolds DEF Restart, Held
  <2> QED BY <1>1, <1>6, <2>1, OnlyDeletes DEF Restart, tables
<1>7. ASSUME UNCHANGED <<tables, req, history, lastSecret>>
      PROVE  IInv'
  BY <1>1, <1>7, OnlyDeletes, HoldsOn DEF tables, Held
<1>8. ASSUME Tick \/ (\E s \in BrowserSessions, u \in Users : Login(s, u))
                  \/ (\E p \in Editable : SetActive(p))
      PROVE  IInv'
  BY <1>7, <1>8 DEF Tick, Login, SetActive
<1> QED BY <1>2, <1>3, <1>4, <1>5, <1>6, <1>8 DEF Next

LEMMA InvariantInit == Init => IInv
<1> SUFFICES ASSUME Init
             PROVE  IInv
  OBVIOUS
<1>1. TypeOK
  BY IdleType DEF Init, TypeOK
<1>2. Held
  BY DEF Init, Held, Holds, HasProof, Idle
<1>3. Known /\ Numbered /\ Distinct /\ SpentSecretsAreGone /\ OneChildPerHandler
  BY DEF Init, Known, Numbered, Distinct, SpentSecretsAreGone, OneChildPerHandler
<1> QED BY <1>1, <1>2, <1>3 DEF IInv

\* However many requests race, fail or are cut off by a restart, a code or
\* refresh token that was exchanged for a token is never accepted again.
THEOREM SpentSecretsStayDead == Spec => []SpentSecretsAreGone
<1>1. IInv => SpentSecretsAreGone
  BY DEF IInv
<1> QED BY <1>1, InvariantInit, InvariantStep, PTL DEF Spec

\* A handler that holds a code or refresh token mints at most once from it;
\* two tokens from one secret take two requests that both read it in time.
THEOREM OneMintPerHandler == Spec => []OneChildPerHandler
<1>1. IInv => OneChildPerHandler
  BY DEF IInv
<1> QED BY <1>1, InvariantInit, InvariantStep, PTL DEF Spec
-----------------------------------------------------------------------------
(* What a token stands for                                                 *)

\* d, a draft or a token, stands for what code k was issued for, and the request
\* showed what k asks for.
FollowsCode(d, p, k) ==
  p.parent = k.id =>
    /\ d.user = k.user /\ d.client = k.client /\ d.scope = k.scope
    /\ d.grant = "authorization_code"
    /\ PkceMatches(p.verifier, k.challenge, k.method)
    /\ k.redirect # Nil => p.redirect = k.redirect
    /\ k.created + CodeExpiry >= p.at

FollowsToken(d, p, t) ==
  p.parent = t.id =>
    /\ d.user = t.user /\ d.client = t.client /\ d.scope = t.scope
    /\ d.grant = t.grant /\ d.secretUsed = t.secretUsed

\* d, with proof p, continues a grant that is on record, or begins one.
Follows(d, p) ==
  /\ Settled(d)
  /\ \A k \in issued : FollowsCode(d, p, k)
  /\ \A m \in minted : FollowsToken(d, p, m.token)
  /\ p.parent # Nil => \/ \E k \in issued : k.id = p.parent
                       \/ \E m \in minted : m.token.id = p.parent

\* What a handler carries towards its insert
Carries(q) ==
  /\ q.pc = "insertCode" => Guarded(q.row)
  /\ q.pc = "revokeOld" => q.client = q.old.client
  /\ q.pc = "mint" => Follows(q.draft, q.proof)

Terms ==
  /\ \A r \in Requests : Carries(req[r])
  /\ \A k \in issued : Guarded(k)
  /\ \A m \in minted : Follows(m.token, m.proof)

\* The histories only grow, by rows with the next number.
Grows ==
  /\ issued \subseteq issued' /\ minted \subseteq minted'
  /\ \A k \in issued' \ issued : k.id = lastSecret + 1
  /\ \A m \in minted' \ minted : m.token.id = lastSecret + 1

\* No secret to come is the parent of what is there.
LEMMA FollowsOn ==
  ASSUME IInv, Grows, NEW d, NEW p, p.parent \in Nat \cup {Nil},
         p.parent # Nil => p.parent <= lastSecret, Follows(d, p)
  PROVE  Follows(d, p)'
<1>1. p.parent # lastSecret + 1
  BY NilAssumption DEF IInv, TypeOK
<1>2. \A k \in issued' : FollowsCode(d, p, k)
  BY <1>1 DEF Follows, FollowsCode, Grows
<1>3. \A m \in minted' : FollowsToken(d, p, m.token)
  BY <1>1 DEF Follows, FollowsToken, Grows
<1>4. p.parent # Nil => \/ \E k \in issued' : k.id = p.parent
                        \/ \E m \in minted' : m.token.id = p.parent
  BY DEF Follows, Grows
<1> QED BY <1>2, <1>3, <1>4 DEF Follows, FollowsCode, FollowsToken, Settled

LEMMA CarriesOn ==
  ASSUME IInv, Terms, Grows, NEW x \in Requests, req'[x] = req[x]
  PROVE  Carries(req[x])'
<1>1. PICK q : q = req[x]
  OBVIOUS
<1>2. Carries(q) /\ q \in Request
  BY <1>1 DEF Terms, IInv, TypeOK
<1>3. q.pc = "mint" => /\ q.proof.parent \in Nat \cup {Nil}
                       /\ q.proof.parent # Nil => q.proof.parent <= lastSecret
  BY <1>1, <1>2, RequestKinds DEF MintRequest, Proof, IInv, Held, Holds, HasProof
<1>4. q.pc = "mint" => Follows(q.draft, q.proof)'
  BY <1>2, <1>3, FollowsOn DEF Carries
<1> QED BY <1>1, <1>2, <1>4 DEF Carries, Guarded

\* One handler moves, and inserts at most.
LEMMA TermsMove ==
  ASSUME IInv, Terms, Grows, NEW r \in Requests,
         \A x \in Requests \ {r} : req'[x] = req[x], Carries(req[r])',
         \A k \in issued' \ issued : Guarded(k),
         \A m \in minted' \ minted : Follows(m.token, m.proof)'
  PROVE  Terms'
<1>1. ASSUME NEW x \in Requests
      PROVE  Carries(req[x])'
  BY <1>1, CarriesOn
<1>2. \A k \in issued' : Guarded(k)
  BY DEF Terms
<1>3. ASSUME NEW m \in minted'
      PROVE  Follows(m.token, m.proof)'
  <2>1. CASE m \in minted
    <3>1. m.proof.parent \in Nat \cup {Nil}
      BY <2>1 DEF IInv, TypeOK, Mint, Proof
    <3>2. m.proof.parent # Nil => m.proof.parent <= lastSecret
      BY <2>1 DEF IInv, Numbered
    <3> QED BY <2>1, <3>1, <3>2, FollowsOn DEF Terms
  <2> QED BY <2>1
<1> QED BY <1>1, <1>2, <1>3 DEF Terms, Guarded

\* A step that inserts nothing
LEMMA TermsStay ==
  ASSUME IInv, Terms, UNCHANGED history, NEW r \in Requests,
         \A x \in Requests \ {r} : req'[x] = req[x], Carries(req[r])'
  PROVE  Terms'
<1>1. Grows /\ issued' \ issued = {} /\ minted' \ minted = {}
  BY DEF Grows, history
<1> QED BY <1>1, TermsMove

LEMMA TermsFinish ==
  ASSUME IInv, Terms, UNCHANGED history, NEW r \in Requests, Finish(r)
  PROVE  Terms'
<1>1. req'[r] = Idle /\ \A x \in Requests \ {r} : req'[x] = req[x]
  BY DEF Finish, IInv, TypeOK
<1>2. Carries(req[r])'
  BY <1>1 DEF Carries, Idle
<1> QED BY <1>1, <1>2, TermsStay

LEMMA TermsBegin ==
  ASSUME IInv, Terms, NEW r \in Requests, Frame, NEW q \in Request, Begin(r, q), Fresh(q)
  PROVE  Terms'
<1>1. req'[r] = q /\ \A x \in Requests \ {r} : req'[x] = req[x]
  BY DEF Begin, IInv, TypeOK
<1>2. UNCHANGED history
  BY DEF Frame
<1>3. \A k \in issued : k.id # Nil
  BY NilAssumption DEF IInv, TypeOK, Code
<1>4. \A m \in minted : m.token.id # Nil
  BY NilAssumption DEF IInv, TypeOK, Mint, Token
<1>5. q.pc = "mint" => Follows(q.draft, q.proof)'
  BY <1>2, <1>3, <1>4 DEF Fresh, Follows, FollowsCode, FollowsToken, Settled, history
<1>6. Carries(req[r])'
  BY <1>1, <1>5 DEF Carries, Fresh, Guarded
<1> QED BY <1>1, <1>2, <1>6, TermsStay

LEMMA TermsInsertCode ==
  ASSUME IInv, Terms, NEW r \in Requests, InsertCode(r)
  PROVE  Terms'
<1>1. req[r].row \in Code /\ Guarded(req[r].row)
  BY RequestKinds DEF InsertCode, InsertRequest, IInv, TypeOK, Terms, Carries
<1>2. PICK row : /\ row.id = lastSecret + 1 /\ row.redirect = req[r].row.redirect
                 /\ row.client = req[r].row.client /\ row.challenge = req[r].row.challenge
                 /\ issued' = issued \cup {row} /\ minted' = minted
  BY <1>1 DEF InsertCode, Code
<1>3. Grows
  BY <1>2 DEF Grows
<1>4. \A k \in issued' \ issued : Guarded(k)
  BY <1>1, <1>2 DEF Guarded
<1>5. req'[r] = Idle /\ \A x \in Requests \ {r} : req'[x] = req[x]
  BY DEF InsertCode, Finish, IInv, TypeOK
<1>6. Carries(req[r])'
  BY <1>5 DEF Carries, Idle
<1> QED BY <1>2, <1>3, <1>4, <1>5, <1>6, TermsMove

\* A code that passed the checks: its draft stands for it and for no other row.
LEMMA TermsCheckCode ==
  ASSUME IInv, Terms, NEW r \in Requests, CheckCode(r)
  PROVE  Terms'
<1>1. UNCHANGED history
  BY DEF CheckCode
<1>2. CASE Finish(r)
  BY <1>1, <1>2, TermsFinish
<1>3. CASE ~ Finish(r)
  <2>1. PICK q : q = req[r]
    OBVIOUS
  <2>2. q \in ExchangeRequest /\ q.pc = "checkCode" /\ Holds(r, q)
    BY <2>1, RequestKinds DEF CheckCode, IInv, TypeOK, Held
  <2>3. q.proof \in Proof /\ q.code \in issued /\ q.proof.parent = q.code.id
    BY <2>2 DEF ExchangeRequest, Holds
  <2>4. ExchangeAccepted(q.code, q.client, q.proof)
    BY <1>3, <2>1 DEF CheckCode
  <2>5. PICK p : /\ p.parent = q.proof.parent /\ p.verifier = q.proof.verifier
                 /\ p.redirect = q.proof.redirect /\ p.at = now
                 /\ req'[r] = [pc |-> "mint", proof |-> p,
                               draft |-> ExchangeDraft(q.client, q.code, q.proof.basic)]
    BY <1>3, <2>1, <2>3 DEF CheckCode, Proof, IInv, TypeOK
  <2>6. PICK d : /\ d = ExchangeDraft(q.client, q.code, q.proof.basic)
                 /\ d.user = q.code.user /\ d.client = q.client /\ d.scope = q.code.scope
                 /\ d.grant = "authorization_code" /\ Settled(d)
    <3> DEFINE w == ExchangeDraft(q.client, q.code, q.proof.basic)
    <3>1. /\ w.user = q.code.user /\ w.client = q.client /\ w.scope = q.code.scope
          /\ w.grant = "authorization_code"
      BY DEF ExchangeDraft
    <3>2. Settled(w)
      BY DEF ExchangeDraft, Settled, StoredSecretUsed
    <3> HIDE DEF w
    <3> QED BY <3>1, <3>2 DEF w
  <2>7. FollowsCode(d, p, q.code)
    BY <2>4, <2>5, <2>6 DEF FollowsCode, ExchangeAccepted
  <2>8. \A k \in issued : FollowsCode(d, p, k)
    BY <2>3, <2>5, <2>7 DEF FollowsCode, IInv, Distinct
  <2>9. \A m \in minted : FollowsToken(d, p, m.token)
    BY <2>3, <2>5 DEF FollowsToken, IInv, Distinct
  <2>10. Follows(d, p)
    BY <2>3, <2>5, <2>6, <2>8, <2>9 DEF Follows
  <2>11. Follows(d, p)'
    BY <1>1, <2>10 DEF Follows, FollowsCode, FollowsToken, Settled, history
  <2>12. Carries(req[r])'
    BY <2>5, <2>6, <2>11 DEF Carries
  <2>13. \A x \in Requests \ {r} : req'[x] = req[x]
    BY <1>3 DEF CheckCode, IInv, TypeOK
  <2> QED BY <1>1, <2>12, <2>13, TermsStay
<1> QED BY <1>2, <1>3

\* A refresh: the draft is the old token's, whose flag is settled.
LEMMA TermsRevokeOld ==
  ASSUME IInv, Terms, NEW r \in Requests, RevokeOld(r)
  PROVE  Terms'
<1>1. UNCHANGED history
  BY DEF RevokeOld
<1>2. PICK q : q = req[r]
  OBVIOUS
<1>3. q.pc = "revokeOld" /\ Holds(r, q) /\ q.client = q.old.client
  BY <1>2 DEF RevokeOld, IInv, Held, Terms, Carries
<1>4. PICK o \in minted : o.token = q.old /\ q.proof.parent = o.token.id
  BY <1>3 DEF Holds
<1>5. o.token \in Token /\ Settled(o.token)
  BY DEF IInv, TypeOK, Mint, Terms, Follows
<1>6. req'[r] = [pc |-> "mint", proof |-> q.proof, draft |-> RefreshDraft(q.client, q.old)]
      /\ \A x \in Requests \ {r} : req'[x] = req[x]
  BY <1>2 DEF RevokeOld, IInv, TypeOK
<1>7. PICK d : /\ d = RefreshDraft(q.client, q.old)
               /\ d.user = o.token.user /\ d.client = o.token.client
               /\ d.scope = o.token.scope /\ d.grant = o.token.grant
               /\ d.secretUsed = o.token.secretUsed
  <2> DEFINE w == RefreshDraft(q.client, q.old)
  <2>1. /\ w.user = o.token.user /\ w.client = o.token.client
        /\ w.scope = o.token.scope /\ w.grant = o.token.grant
    BY <1>3, <1>4 DEF RefreshDraft
  <2>2. w.secretUsed = o.token.secretUsed
    BY <1>4, <1>5 DEF RefreshDraft, Settled
  <2> HIDE DEF w
  <2> QED BY <2>1, <2>2 DEF w
<1>8. Settled(d)
  BY <1>5, <1>7 DEF Settled
<1>9. \A m \in minted : FollowsToken(d, q.proof, m.token)
  BY <1>4, <1>7 DEF FollowsToken, IInv, Distinct
<1>10. \A k \in issued : FollowsCode(d, q.proof, k)
  BY <1>4 DEF FollowsCode, IInv, Distinct
<1>11. Follows(d, q.proof)
  BY <1>4, <1>8, <1>9, <1>10 DEF Follows
<1>12. Follows(d, q.proof)'
  BY <1>1, <1>11 DEF Follows, FollowsCode, FollowsToken, Settled, history
<1>13. Carries(req[r])'
  BY <1>6, <1>7, <1>12 DEF Carries
<1> QED BY <1>1, <1>6, <1>13, TermsStay

\* The row that is inserted is the draft, as far as Follows can tell.
LEMMA TermsMintToken ==
  ASSUME IInv, Terms, NEW r \in Requests, MintToken(r)
  PROVE  Terms'
<1>1. PICK q : q = req[r]
  OBVIOUS
<1>2. q.pc = "mint" /\ q \in MintRequest /\ Follows(q.draft, q.proof)
  BY <1>1, RequestKinds DEF MintToken, IInv, TypeOK, Terms, Carries
<1>3. /\ q.proof.parent \in Nat \cup {Nil}
      /\ q.proof.parent # Nil => q.proof.parent <= lastSecret
  BY <1>1, <1>2 DEF MintRequest, Proof, IInv, Held, Holds, HasProof
<1>4. PICK row : row = MintedRow(q.draft)
  OBVIOUS
<1>5. /\ row.id = lastSecret + 1
      /\ row.user = q.draft.user /\ row.client = q.draft.client /\ row.scope = q.draft.scope
      /\ row.grant = q.draft.grant /\ row.secretUsed = q.draft.secretUsed
  BY <1>4 DEF MintedRow
<1>6. Follows(row, q.proof)
  BY <1>2, <1>5 DEF Follows, FollowsCode, FollowsToken, Settled
<1>7. PICK m0 : m0.token = row /\ m0.proof = q.proof /\ minted' = minted \cup {m0}
  <2> DEFINE v == [token |-> row, proof |-> q.proof, by |-> r]
  <2>1. v.token = row /\ v.proof = q.proof
    OBVIOUS
  <2>2. minted' = minted \cup {v}
    BY <1>1, <1>4 DEF MintToken, MintedRow
  <2> HIDE DEF v
  <2> QED BY <2>1, <2>2
<1>8. issued' = issued
  BY DEF MintToken
<1>9. Grows
  BY <1>5, <1>7, <1>8 DEF Grows
<1>10. Follows(row, q.proof)'
  BY <1>3, <1>6, <1>9, FollowsOn
<1>11. \A m \in minted' \ minted : Follows(m.token, m.proof)'
  BY <1>7, <1>10
<1>12. req'[r] = Idle /\ \A x \in Requests \ {r} : req'[x] = req[x]
  BY DEF MintToken, Finish, IInv, TypeOK
<1>13. Carries(req[r])'
  BY <1>12 DEF Carries, Idle
<1> QED BY <1>8, <1>9, <1>11, <1>12, <1>13, TermsMove

\* The deletes, which carry nothing on.
LEMMA TermsDelete ==
  ASSUME IInv, Terms, NEW r \in Requests, DeleteCode(r) \/ LogoutCodes(r) \/ LogoutTokens(r)
  PROVE  Terms'
<1>1. req[r] \in ExchangeRequest \cup LogoutRequest
  BY RequestKinds DEF DeleteCode, LogoutCodes, LogoutTokens, IInv, TypeOK
<1>2. PICK q : /\ q.pc \in {"checkCode", "logoutTokens", "clearSession"}
               /\ req'[r] = q /\ \A x \in Requests \ {r} : req'[x] = req[x]
  BY <1>1 DEF DeleteCode, LogoutCodes, LogoutTokens, ExchangeRequest, LogoutRequest, IInv, TypeOK
<1>3. Carries(req[r])'
  BY <1>2 DEF Carries
<1> QED BY <1>2, <1>3, TermsStay DEF DeleteCode, LogoutCodes, LogoutTokens

LEMMA TermsStep == IInv /\ Terms /\ [Next]_vars => Terms'
<1> SUFFICES ASSUME IInv, Terms, [Next]_vars
             PROVE  Terms'
  OBVIOUS
<1>1. ASSUME UNCHANGED <<issued, minted>>, NEW x \in Requests, req'[x] = req[x]
      PROVE  Carries(req[x])'
  <2>1. Grows
    BY <1>1 DEF Grows
  <2> QED BY <1>1, <2>1, CarriesOn
<1>2. ASSUME UNCHANGED <<issued, minted, req>>
      PROVE  Terms'
  <2>1. \A x \in Requests : Carries(req[x])'
    BY <1>1, <1>2
  <2>2. \A m \in minted : Follows(m.token, m.proof)'
    BY <1>2 DEF Terms, Follows, FollowsCode, FollowsToken, Settled
  <2> QED BY <1>2, <2>1, <2>2 DEF Terms, Guarded
<1>3. CASE UNCHANGED vars
  BY <1>2, <1>3 DEF vars
<1>4. ASSUME NEW r \in Requests,
             \/ Authorize(r) \/ Direct(r) \/ TokenEndpoint(r)
             \/ \E s \in BrowserSessions : StartLogout(r, s)
      PROVE  Terms'
  <2>1. Frame /\ \E q \in Request : Begin(r, q) /\ Fresh(q)
    BY <1>4, RequestBegins DEF IInv
  <2> QED BY <2>1, TermsBegin
<1>5. ASSUME NEW r \in Requests, Step(r)
      PROVE  Terms'
  <2>1. CASE RemoveToken(r)
    BY <2>1, TermsFinish DEF RemoveToken
  <2>2. CASE ClearSession(r)
    BY <2>2, TermsFinish DEF ClearSession
  <2> QED BY <1>5, <2>1, <2>2, TermsInsertCode, TermsMintToken, TermsDelete, TermsCheckCode,
             TermsRevokeOld DEF Step
<1>6. ASSUME NEW r \in Requests, Fail(r)
      PROVE  Terms'
  BY <1>6, TermsFinish DEF Fail
<1>7. CASE Restart
  <2>1. \A x \in Requests : Carries(req[x])'
    BY <1>7 DEF Restart, Carries, Idle
  <2>2. UNCHANGED <<issued, minted>>
    BY <1>7 DEF Restart, history
  <2>3. \A m \in minted : Follows(m.token, m.proof)'
    BY <2>2 DEF Terms, Follows, FollowsCode, FollowsToken, Settled
  <2> QED BY <2>1, <2>2, <2>3 DEF Terms, Guarded
<1>8. ASSUME Tick \/ (\E s \in BrowserSessions, u \in Users : Login(s, u))
                  \/ (\E p \in Editable : SetActive(p))
      PROVE  Terms'
  BY <1>2, <1>8 DEF Tick, Login, SetActive, history
<1> QED BY <1>3, <1>4, <1>5, <1>6, <1>7, <1>8 DEF Next

LEMMA TermsHold == Spec => [](IInv /\ Terms)
<1>1. Init => Terms
  BY DEF Init, Terms, Carries, Idle
<1> QED BY <1>1, InvariantInit, InvariantStep, TermsStep, PTL DEF Spec

\* A token minted from a code is for the user, client and scope of the code.
THEOREM CodesGrantWhatWasAuthorized == Spec => []CodeGrantsWhatWasAuthorized
<1>1. IInv /\ Terms => CodeGrantsWhatWasAuthorized
  BY DEF Terms, Follows, FollowsCode, CodeGrantsWhatWasAuthorized
<1> QED BY <1>1, TermsHold, PTL

\* It was minted in time, against the code's PKCE challenge and redirect_uri.
THEOREM CodesTermsAreMet == Spec => []CodeTermsWereMet
<1>1. ASSUME IInv, Terms, NEW m \in minted, NEW k \in issued, m.proof.parent = k.id
      PROVE  /\ k.challenge # Nil => /\ m.proof.verifier \in Verifiers
                                     /\ k.challenge \in {m.proof.verifier, Digest[m.proof.verifier]}
             /\ k.redirect # Nil => m.proof.redirect = k.redirect
             /\ m.proof.at - k.created <= CodeExpiry
  <2>1. FollowsCode(m.token, m.proof, k)
    BY <1>1 DEF Terms, Follows
  <2>2. m.proof.at \in Nat /\ k.created \in Nat
    BY <1>1 DEF IInv, TypeOK, Mint, Proof, Code
  <2> QED BY <1>1, <2>1, <2>2, SettingsAssumption DEF FollowsCode, PkceMatches, Derived
<1>2. IInv /\ Terms => CodeTermsWereMet
  BY <1>1 DEF CodeTermsWereMet
<1> QED BY <1>2, TermsHold, PTL

\* A client that must use PKCE gets no token from the browser flow without it.
THEOREM PkceIsProven == Spec => []RequiredPkceIsProven
<1>1. IInv /\ Terms => RequiredPkceIsProven
  BY DEF Terms, Guarded, Follows, FollowsCode, PkceMatches, RequiredPkceIsProven
<1> QED BY <1>1, TermsHold, PTL

\* However long a chain of refreshes is, it hands on the same grant.
THEOREM RefreshesKeepTheGrant == Spec => []RefreshKeepsTheGrant
<1>1. IInv /\ Terms => RefreshKeepsTheGrant
  BY DEF Terms, Follows, FollowsToken, RefreshKeepsTheGrant
<1> QED BY <1>1, TermsHold, PTL
-----------------------------------------------------------------------------
(* The tables implement GrantLedger                                        *)

\* Whatever inserts nothing deletes at most.
LEMMA InsertsOrDeletes ==
  ASSUME [Next]_vars
  PROVE  \/ UNCHANGED history /\ codes' \subseteq codes /\ tokens' \subseteq tokens
         \/ \E r \in Requests : InsertCode(r) \/ MintToken(r)
<1> DEFINE Quiet == UNCHANGED history /\ codes' \subseteq codes /\ tokens' \subseteq tokens
<1>1. CASE UNCHANGED vars
  BY <1>1 DEF vars, history
<1>2. ASSUME NEW r \in Requests, Authorize(r)
      PROVE  Quiet
  BY <1>2 DEF Authorize, StartImplicit, StartAuthorize, StartChallengeCode, tables
<1>3. ASSUME NEW r \in Requests, Direct(r)
      PROVE  Quiet
  BY <1>3 DEF Direct, StartClientCredentials, StartPassword, StartDeveloperToken,
              StartOneTimeToken, StartDirect, tables
<1>4. ASSUME NEW r \in Requests,
             TokenEndpoint(r) \/ \E s \in BrowserSessions : StartLogout(r, s)
      PROVE  Quiet
  BY <1>4 DEF TokenEndpoint, StartExchange, StartRefresh, StartRevoke, StartLogout, tables
<1>5. ASSUME NEW r \in Requests, Step(r)
      PROVE  InsertCode(r) \/ MintToken(r) \/ Quiet
  BY <1>5 DEF Step, DeleteCode, CheckCode, RevokeOld, RemoveToken, LogoutCodes, LogoutTokens,
              ClearSession, Without, tables
<1>6. ASSUME \/ \E r \in Requests : Fail(r)
             \/ \E s \in BrowserSessions, u \in Users : Login(s, u)
             \/ \E p \in Editable : SetActive(p)
             \/ Tick \/ Restart
      PROVE  Quiet
  BY <1>6 DEF Fail, Login, SetActive, Tick, Restart, tables
<1> QED BY <1>1, <1>2, <1>3, <1>4, <1>5, <1>6 DEF Next

\* The next number is one the ledger has not recorded.
LEMMA NextIsNew ==
  ASSUME IInv, lastSecret < MaxSecrets
  PROVE  lastSecret + 1 \in Ledger!Secret \ Ledger!Recorded
<1>1. lastSecret + 1 \in 1..MaxSecrets
  BY SettingsAssumption DEF IInv, TypeOK
<1>2. ASSUME NEW e \in IssuedLedger
      PROVE  e.secret # lastSecret + 1
  <2>1. \A k \in issued : k.id \in Nat /\ k.id <= lastSecret
    BY DEF IInv, TypeOK, Code, Numbered
  <2>2. \A m \in minted : m.token.id \in Nat /\ m.token.id <= lastSecret
    BY DEF IInv, TypeOK, Mint, Token, Numbered
  <2>3. lastSecret \in Nat
    BY DEF IInv, TypeOK
  <2>4. \/ \E k \in issued : e.secret = k.id
        \/ \E m \in minted : e.secret = m.token.id
    BY DEF IssuedLedger, Entry
  <2> QED BY <2>1, <2>2, <2>3, <2>4
<1> QED BY <1>1, <1>2 DEF Ledger!Secret, Ledger!Recorded

LEMMA DeleteKills ==
  ASSUME UNCHANGED history, codes' \subseteq codes, tokens' \subseteq tokens
  PROVE  Ledger!Kill
<1>1. Live' \subseteq Live
  BY DEF Live
<1>2. IssuedLedger' = IssuedLedger
  BY DEF IssuedLedger, Entry, history
<1> QED BY <1>1, <1>2 DEF Ledger!Kill

LEMMA InsertCodeIssues ==
  ASSUME IInv, NEW r \in Requests, InsertCode(r)
  PROVE  Ledger!Issue
<1>1. req[r].row \in Code
  BY RequestKinds DEF InsertCode, InsertRequest, IInv, TypeOK
<1>2. PICK row : /\ row.id = lastSecret + 1
                 /\ row.user \in Principals /\ row.client \in ClientIds
                 /\ row.scope \in Scopes \cup {Nil}
                 /\ codes' = codes \cup {row} /\ issued' = issued \cup {row}
                 /\ UNCHANGED <<tokens, minted>>
  BY <1>1 DEF InsertCode, Code, Principals, ClientIds
<1>3. Live' = Live \cup {lastSecret + 1}
  BY <1>2 DEF Live
<1>4. IssuedLedger' = IssuedLedger \cup {Entry(lastSecret + 1, Nil, row)}
  BY <1>2 DEF IssuedLedger, Entry
<1>5. Ledger!IssueRoot(lastSecret + 1)
  BY <1>2, <1>4 DEF Ledger!IssueRoot, Entry
<1>6. lastSecret + 1 \in Ledger!Secret \ Ledger!Recorded
  BY NextIsNew DEF InsertCode
<1> QED BY <1>3, <1>5, <1>6 DEF Ledger!Issue

\* What IssueChild adds for parent e
Child(e, s) == [e EXCEPT !.secret = s, !.parent = e.secret]

LEMMA ChildEntry ==
  ASSUME NEW id, NEW parent, NEW x, NEW y, NEW s,
         y.user = x.user, y.client = x.client, y.scope = x.scope
  PROVE  Child(Entry(id, parent, x), s) = Entry(s, id, y)
<1> DEFINE child == Child(Entry(id, parent, x), s)
<1>1. /\ child.secret = s /\ child.parent = id
      /\ child.user = x.user /\ child.client = x.client /\ child.scope = x.scope
  BY DEF Entry, Child
<1>2. child = [f \in {"secret", "parent", "user", "client", "scope"} |-> child[f]]
  BY DEF Entry, Child
<1> HIDE DEF child
<1>3. child = Entry(s, id, y)
  BY <1>1, <1>2 DEF Entry
<1> QED BY <1>3 DEF child

\* A token without parent is a root; any other is the child of a dead secret,
\* whose entry has the user, client and scope the token has.
LEMMA MintTokenIssues ==
  ASSUME IInv, Terms, NEW r \in Requests, MintToken(r)
  PROVE  Ledger!Issue
<1>1. PICK q : q = req[r]
  OBVIOUS
<1>2. q.pc = "mint" /\ q \in MintRequest /\ Follows(q.draft, q.proof) /\ q.proof.parent \notin Live
  BY <1>1, RequestKinds DEF MintToken, IInv, TypeOK, Terms, Carries, Held, Holds
<1>3. q.draft \in Draft
  BY <1>2 DEF MintRequest
<1>4. PICK row : row = MintedRow(q.draft)
  OBVIOUS
<1>5. /\ row.id = lastSecret + 1
      /\ row.user = q.draft.user /\ row.client = q.draft.client /\ row.scope = q.draft.scope
  BY <1>4 DEF MintedRow
<1>6. PICK m0 : /\ m0.token = row /\ m0.proof = q.proof
                /\ minted' = minted \cup {m0} /\ tokens' = tokens \cup {row}
                /\ UNCHANGED <<codes, issued>>
  <2> DEFINE v == [token |-> row, proof |-> q.proof, by |-> r]
  <2>1. v.token = row /\ v.proof = q.proof
    OBVIOUS
  <2>2. minted' = minted \cup {v} /\ tokens' = tokens \cup {row} /\ UNCHANGED <<codes, issued>>
    BY <1>1, <1>4 DEF MintToken, MintedRow
  <2> HIDE DEF v
  <2> QED BY <2>1, <2>2
<1>7. Live' = Live \cup {lastSecret + 1}
  BY <1>5, <1>6 DEF Live
<1>8. IssuedLedger' = IssuedLedger \cup {Entry(lastSecret + 1, q.proof.parent, row)}
  BY <1>5, <1>6 DEF IssuedLedger, Entry
<1>9. lastSecret + 1 \in Ledger!Secret \ Ledger!Recorded
  BY NextIsNew DEF MintToken
<1>10. CASE q.proof.parent = Nil
  <2>1. row.user \in Principals /\ row.client \in ClientIds /\ row.scope \in Scopes \cup {Nil}
    BY <1>3, <1>5 DEF Draft
  <2>2. Ledger!IssueRoot(lastSecret + 1)
    BY <1>8, <1>10, <2>1 DEF Ledger!IssueRoot, Entry
  <2> QED BY <1>7, <1>9, <2>2 DEF Ledger!Issue
<1>11. CASE q.proof.parent # Nil
  <2>1. ASSUME NEW id, NEW parent, NEW x, Entry(id, parent, x) \in IssuedLedger,
               q.proof.parent = id,
               row.user = x.user, row.client = x.client, row.scope = x.scope
        PROVE  Ledger!IssueChild(lastSecret + 1)
    <3>1. PICK s, p : s = lastSecret + 1 /\ p = Entry(id, parent, x)
      OBVIOUS
    <3>2. p \in IssuedLedger /\ p.secret = id /\ p.secret \notin Live
      BY <1>2, <2>1, <3>1 DEF Entry
    <3>3. Child(p, s) = Entry(s, q.proof.parent, row)
      BY <2>1, <3>1, ChildEntry
    <3>4. IssuedLedger' = IssuedLedger \cup {Child(p, s)}
      BY <1>8, <3>1, <3>3
    <3> QED BY <3>1, <3>2, <3>4 DEF Ledger!IssueChild, Child
  <2>2. ASSUME NEW k \in issued, k.id = q.proof.parent
        PROVE  Ledger!IssueChild(lastSecret + 1)
    <3>1. Entry(k.id, Nil, k) \in IssuedLedger
      BY DEF IssuedLedger
    <3>2. row.user = k.user /\ row.client = k.client /\ row.scope = k.scope
      BY <1>2, <1>5, <2>2 DEF Follows, FollowsCode
    <3> QED BY <2>1, <2>2, <3>1, <3>2
  <2>3. ASSUME NEW m \in minted, m.token.id = q.proof.parent
        PROVE  Ledger!IssueChild(lastSecret + 1)
    <3>1. Entry(m.token.id, m.proof.parent, m.token) \in IssuedLedger
      BY DEF IssuedLedger
    <3>2. row.user = m.token.user /\ row.client = m.token.client /\ row.scope = m.token.scope
      BY <1>2, <1>5, <2>3 DEF Follows, FollowsToken
    <3> QED BY <2>1, <2>3, <3>1, <3>2
  <2>4. Ledger!IssueChild(lastSecret + 1)
    BY <1>2, <1>11, <2>2, <2>3 DEF Follows
  <2> QED BY <1>7, <1>9, <2>4 DEF Ledger!Issue
<1> QED BY <1>10, <1>11

\* The two tables implement GrantLedger: every INSERT issues a secret, as a root
\* or as the child of a dead one whose grant it continues, and every DELETE kills.
THEOREM TablesImplementTheLedger == Spec => ImplementsLedger
<1>1. Init => Ledger!Init
  BY DEF Init, Ledger!Init, IssuedLedger, Live
<1>2. IInv /\ Terms /\ [Next]_vars => [Ledger!Next]_(Ledger!ledgerVars)
  BY InsertsOrDeletes, DeleteKills, InsertCodeIssues, MintTokenIssues DEF Ledger!Next
<1> QED BY <1>1, <1>2, TermsHold, PTL DEF Spec, Ledger!Spec, ImplementsLedger
-----------------------------------------------------------------------------
(* What the ledger is good for: chains of exchanges and refreshes          *)

SameGrant(a, e) == a.user = e.user /\ a.client = e.client /\ a.scope = e.scope

\* A secret has one entry, and the entry it was issued for has the same grant and is
\* dead.
Lineage ==
  /\ IssuedLedger \subseteq [secret : Ledger!Secret, parent : Ledger!Secret \cup {Nil},
                             user : Principals, client : ClientIds, scope : Scopes \cup {Nil}]
  /\ Live \subseteq Ledger!Recorded
  /\ \A e, f \in IssuedLedger : e.secret = f.secret => e = f
  /\ \A e \in IssuedLedger : e.parent # Nil =>
       \E p \in IssuedLedger : p.secret = e.parent /\ p.secret \notin Live /\ SameGrant(p, e)

\* The entries a chain of exchanges and refreshes leads from to e: those in every set
\* that has e and the parents of its members
ClosedUnderParents(S) == \A e \in S, p \in IssuedLedger : p.secret = e.parent => p \in S
Ancestors(e) == {a \in IssuedLedger :
  \A S \in SUBSET IssuedLedger : e \in S /\ ClosedUnderParents(S) => a \in S}

ChainsKeepOneGrant == \A e \in IssuedLedger : \A a \in Ancestors(e) :
  SameGrant(a, e) /\ (a = e \/ a.secret \notin Live)

LEMMA IssueKeepsLineage ==
  ASSUME Lineage, Ledger!Issue
  PROVE  Lineage'
<1>1. PICK s \in Ledger!Secret \ Ledger!Recorded :
        Live' = Live \cup {s} /\ (Ledger!IssueRoot(s) \/ Ledger!IssueChild(s))
  BY DEF Ledger!Issue
<1>2. \A e \in IssuedLedger : e.secret # s
  BY <1>1 DEF Ledger!Recorded
<1>3. Nil \notin Ledger!Secret
  BY NilAssumption DEF Ledger!Secret
<1>4. PICK c : /\ IssuedLedger' = IssuedLedger \cup {c} /\ c.secret = s
               /\ c \in [secret : Ledger!Secret, parent : Ledger!Secret \cup {Nil},
                         user : Principals, client : ClientIds, scope : Scopes \cup {Nil}]
               /\ c.parent # Nil => \E p \in IssuedLedger :
                    p.secret = c.parent /\ p.secret \notin Live /\ SameGrant(p, c)
  <2>1. CASE Ledger!IssueRoot(s)
    <3>1. PICK u \in Principals, k \in ClientIds, sc \in Scopes \cup {Nil} :
            IssuedLedger' = IssuedLedger \cup
              {[secret |-> s, parent |-> Nil, user |-> u, client |-> k, scope |-> sc]}
      BY <2>1 DEF Ledger!IssueRoot
    <3>2. [secret |-> s, parent |-> Nil, user |-> u, client |-> k, scope |-> sc].parent = Nil
      OBVIOUS
    <3> QED BY <3>1, <3>2
  <2>2. CASE Ledger!IssueChild(s)
    <3>1. PICK p \in IssuedLedger :
            p.secret \notin Live /\ IssuedLedger' = IssuedLedger \cup {Child(p, s)}
      BY <2>2 DEF Ledger!IssueChild, Child
    <3>2. /\ Child(p, s).secret = s /\ Child(p, s).parent = p.secret
          /\ SameGrant(p, Child(p, s))
          /\ Child(p, s) \in [secret : Ledger!Secret, parent : Ledger!Secret \cup {Nil},
                              user : Principals, client : ClientIds, scope : Scopes \cup {Nil}]
      BY <1>1, <3>1 DEF Lineage, Child, SameGrant
    <3> QED BY <3>1, <3>2
  <2> QED BY <1>1, <2>1, <2>2
<1>5. Live' \subseteq Ledger!Recorded'
  BY <1>1, <1>4 DEF Lineage, Ledger!Recorded
<1>6. \A e, f \in IssuedLedger' : e.secret = f.secret => e = f
  BY <1>2, <1>4 DEF Lineage
<1>7. ASSUME NEW e \in IssuedLedger', e.parent # Nil
      PROVE  \E p \in IssuedLedger' :
               p.secret = e.parent /\ p.secret \notin Live' /\ SameGrant(p, e)
  <2>1. PICK p \in IssuedLedger :
          p.secret = e.parent /\ p.secret \notin Live /\ SameGrant(p, e)
    BY <1>4, <1>7 DEF Lineage
  <2>2. p.secret \notin Live'
    BY <1>1, <1>2, <2>1
  <2> QED BY <1>4, <2>1, <2>2
<1>8. IssuedLedger' \subseteq [secret : Ledger!Secret, parent : Ledger!Secret \cup {Nil},
                               user : Principals, client : ClientIds, scope : Scopes \cup {Nil}]
  BY <1>4 DEF Lineage
<1> QED BY <1>5, <1>6, <1>7, <1>8 DEF Lineage, SameGrant, Ledger!Secret

LEMMA LineageLasts ==
  ASSUME Lineage, [Ledger!Next]_(Ledger!ledgerVars)
  PROVE  Lineage'
<1>1. CASE UNCHANGED Ledger!ledgerVars
  BY <1>1 DEF Ledger!ledgerVars, Lineage, Ledger!Recorded
<1>2. CASE Ledger!Kill
  BY <1>2 DEF Ledger!Kill, Lineage, Ledger!Recorded
<1> QED BY <1>1, <1>2, IssueKeepsLineage DEF Ledger!Next

\* The set of entries with the grant of e, and that of e and the dead ones, are closed
\* under parents, so that all ancestors are in both.
LEMMA ChainsFromLineage ==
  ASSUME Lineage
  PROVE  ChainsKeepOneGrant
<1> SUFFICES ASSUME NEW e \in IssuedLedger, NEW a \in Ancestors(e)
             PROVE  SameGrant(a, e) /\ (a = e \/ a.secret \notin Live)
  BY DEF ChainsKeepOneGrant
<1> DEFINE S == {x \in IssuedLedger : SameGrant(x, e) /\ (x = e \/ x.secret \notin Live)}
<1>1. ASSUME NEW x \in S, NEW p \in IssuedLedger, p.secret = x.parent
      PROVE  p \in S
  <2>1. x.parent # Nil
    BY <1>1, NilAssumption DEF Lineage, Ledger!Secret
  <2>2. PICK y \in IssuedLedger : y.secret = x.parent /\ y.secret \notin Live /\ SameGrant(y, x)
    BY <1>1, <2>1 DEF Lineage
  <2>3. p = y
    BY <1>1, <2>2 DEF Lineage
  <2> QED BY <1>1, <2>2, <2>3 DEF SameGrant
<1>2. e \in S /\ ClosedUnderParents(S) /\ S \in SUBSET IssuedLedger
  BY <1>1 DEF SameGrant, ClosedUnderParents
<1> QED BY <1>2 DEF Ancestors

\* Whatever codes and tokens a token came from, over any number of exchanges and
\* refreshes, they stood for the user, client and scope it stands for, and all of them
\* are dead.  This holds of everything that implements GrantLedger.
THEOREM ChainsStandForOneGrant == Spec => []ChainsKeepOneGrant
<1>1. Ledger!Init => Lineage
  BY DEF Ledger!Init, Lineage
<1>2. Lineage /\ [Ledger!Next]_(Ledger!ledgerVars) => Lineage'
  BY LineageLasts
<1>3. Lineage => ChainsKeepOneGrant
  BY ChainsFromLineage
<1> QED BY <1>1, <1>2, <1>3, TablesImplementTheLedger, PTL
        DEF ImplementsLedger, Ledger!Spec
=============================================================================
