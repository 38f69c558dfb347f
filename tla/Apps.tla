-------------------------------- MODULE Apps --------------------------------
(***************************************************************************)
(* Apps: the clients they log in with (app-client), what users permit them *)
(* (user-app-permissions), and the views on what was given out: the apps   *)
(* of a user, the sessions of a user, and introspection.                   *)
(*                                                                         *)
(* Of the tokens only what these views show is here: OAuth2Tokens models   *)
(* how codes and tokens are spent, Privileges who may administer clients.  *)
(* A step is one statement of one handler, or one transaction.             *)
(***************************************************************************)
EXTENDS Naturals

CONSTANTS
  Requests,    \* handler slots: requests the server works on at once
  Users, Apps,
  ClientIds,   \* values of client_id, chosen by the administrator or generated
  None,        \* no row; as a client the id 0 of the system
  Uris,
  Forms,       \* what administrators post about a client
  Scopes,
  ScopeLists,  \* what is asked for: lists, of which the order is left out
  Editable,    \* bound of the model: principals switched on and off
  AccessExpiry, RefreshExpiry,
  MaxToken, MaxTime  \* bounds of the model: tokens issued, seconds elapsed

Principals == Users \cup Apps
Pairs == Users \X Apps
Grants == {"client_credentials", "authorization_code", "implicit", "refresh_token",
           "password", "authorization_challenge"}

\* The boxes an administrator ticks have the names of the grants.
Form == [boxes : SUBSET Grants, pkce : BOOLEAN, uris : SUBSET Uris]

ASSUME PrincipalsAssumption == Users \cap Apps = {} /\ Editable \subseteq Users \cup Apps
ASSUME FormsAssumption == Forms \subseteq Form
ASSUME ScopesAssumption == ScopeLists \subseteq SUBSET Scopes
ASSUME TimesAssumption == /\ AccessExpiry \in Nat /\ RefreshExpiry \in Nat
                          /\ MaxToken \in Nat /\ MaxTime \in Nat
\* The settings: 600 seconds and 6 hours when nobody changes them
ASSUME ExpiryAssumption == AccessExpiry <= RefreshExpiry

VARIABLES
  active,   \* principals.active
  clients,  \* client_id -> row of app_clients
  uris,     \* rows of oauth2_redirect_uris: <<client_id, uri>>
  perms,    \* <<user, app>> -> row of user_app_permissions
  tokens,   \* rows of oauth2_tokens
  now,      \* seconds
  req,      \* what each slot holds between two statements
  last,     \* the last token's number
  codes,    \* history: <<client, user>> of the codes a browser was given
  issued,   \* history: <<client, user>> of all tokens
  form,     \* history: client_id -> the form that was stored last
  torn      \* history: clients whose making failed or met an edit

access == <<perms, tokens, last, issued>>
setup  == <<clients, uris, form, torn>>
world  == <<active, now, codes>>
vars   == <<access, setup, world, req>>
-----------------------------------------------------------------------------
(* Rows and requests                                                       *)

Client == [app : Apps, grants : SUBSET Grants, pkce : BOOLEAN]

\* scope is kept as a text; none is NULL.  'used': last_used_at is set.
Permission == [scope : SUBSET Scopes, used : BOOLEAN]

ASSUME NoneAssumption ==
  None \notin ClientIds \cup Apps /\ None \notin Client /\ None \notin Permission

\* The two tables, with at most one row for a client_id and for a user and an app
ClientRows == [ClientIds -> Client \cup {None}]
PermissionRows == [Pairs -> Permission \cup {None}]

\* 'asked': the user saw the app's name, or gave it the password.
Token == [id : 1..MaxToken, client : ClientIds \cup {None}, user : Principals,
          asked : BOOLEAN, access : Nat, refresh : Nat]

Idle == [pc |-> "idle"]
Making == [pc : {"insert", "uris"}, client : ClientIds, app : Apps, form : Forms,
           left : SUBSET Uris]
Editing == [pc : {"edit"}, client : ClientIds, form : Forms]
Asking == [pc : {"redirect", "consent", "code"}, client : ClientIds, app : Apps, user : Users,
           pkce : BOOLEAN, uri : Uris \cup {None}, scope : ScopeLists,
           wants : {"code", "token", "password"}, challenge : BOOLEAN]
Issuing == [pc : {"mint", "use"}, client : ClientIds \cup {None}, user : Principals,
            asked : BOOLEAN]
Request == {Idle} \cup Making \cup Editing \cup Asking \cup Issuing

Begin(r, work) == req[r] = Idle /\ req' = [req EXCEPT ![r] = work]
Goes(r, pc) == req' = [req EXCEPT ![r].pc = pc]
Done(r) == req' = [req EXCEPT ![r] = Idle]

\* findByClientId(): the client of an app that is switched off is an error.
Found(k) == k \in ClientIds /\ clients[k] # None /\ active[clients[k].app]
May(k, grant) == Found(k) /\ grant \in clients[k].grants

\* getRedirectUris()
UrisOf(k) == {u \in Uris : <<k, u>> \in uris}

\* The app of a client; the system has one that is in no table.
AppOf(k) == IF k = None THEN None ELSE clients[k].app
-----------------------------------------------------------------------------
(* Clients                                                                 *)

\* Mutant of GrantsOf: the response type is stored where a grant type belongs.
GrantsOfResponse(boxes) ==
  boxes \cup (IF "authorization_challenge" \in boxes THEN {"code"} ELSE {})

\* The challenge endpoint gives out codes, so its box allows these too.
GrantsOf(boxes) ==
  boxes \cup (IF "authorization_challenge" \in boxes THEN {"authorization_code"} ELSE {})

\* POST /app/:id/client
PostClient(r, a, k, f) ==
  /\ Begin(r, [pc |-> "insert", client |-> k, app |-> a, form |-> f, left |-> f.uris])
  /\ UNCHANGED <<access, setup, world>>

\* The last statement of create() was made.
MakingGoes(r, left) ==
  IF left = {} THEN Done(r) ELSE req' = [req EXCEPT ![r].pc = "uris", ![r].left = left]

\* create(): the row; a client_id that exists is a conflict.
InsertClient(r) ==
  /\ req[r].pc = "insert"
  /\ LET k == req[r].client
         f == req[r].form
     IN IF clients[k] # None
          THEN Done(r) /\ UNCHANGED setup
          ELSE /\ clients' = [clients EXCEPT ![k] =
                    [app |-> req[r].app, grants |-> GrantsOf(f.boxes), pkce |-> f.pkce]]
               /\ form' = [form EXCEPT ![k] = f]
               /\ MakingGoes(r, f.uris)
               /\ UNCHANGED <<uris, torn>>
  /\ UNCHANGED <<access, world>>

\* create(): the redirect URIs, one statement each
InsertUri(r) ==
  /\ req[r].pc = "uris"
  /\ \E u \in req[r].left :
       /\ uris' = uris \cup {<<req[r].client, u>>}
       /\ MakingGoes(r, req[r].left \ {u})
  /\ UNCHANGED <<access, world, clients, form, torn>>

\* POST /app/:id/client/:clientId/edit
StartEdit(r, a, k, f) ==
  /\ Found(k) /\ clients[k].app = a
  /\ Begin(r, [pc |-> "edit", client |-> k, form |-> f])
  /\ UNCHANGED <<access, setup, world>>

\* Mutant of Replaced: the old ones stay.
ReplacedNever(k, new) == uris \cup {<<k, u>> : u \in new}

Replaced(k, new) == {row \in uris : row[1] # k} \cup {<<k, u>> : u \in new}

\* Somebody is making this client: its first row is there and others are not.
BeingMade(k) == \E r \in Requests : req[r].pc = "uris" /\ req[r].client = k

\* edit(), a transaction
EditClient(r) ==
  /\ req[r].pc = "edit"
  /\ LET k == req[r].client
         f == req[r].form
     IN /\ clients' = [clients EXCEPT ![k].grants = GrantsOf(f.boxes), ![k].pkce = f.pkce]
        /\ uris' = Replaced(k, f.uris)
        /\ form' = [form EXCEPT ![k] = f]
        /\ torn' = IF BeingMade(k) THEN torn \cup {k} ELSE torn
  /\ Done(r)
  /\ UNCHANGED <<access, world>>
-----------------------------------------------------------------------------
(* What users permit                                                       *)

\* GET /authorize by a user who is logged in
StartAuthorize(r, u, k, uri, scope, wants, challenge) ==
  /\ May(k, IF wants = "token" THEN "implicit" ELSE "authorization_code")
  /\ wants = "token" => ~challenge  \* which is not read then
  /\ Begin(r, [pc |-> "redirect", client |-> k, app |-> clients[k].app, user |-> u,
               pkce |-> clients[k].pkce, uri |-> uri, scope |-> scope, wants |-> wants,
               challenge |-> challenge])
  /\ UNCHANGED <<access, setup, world>>

\* requireRedirectUri(): a client without any is refused too.
RedirectAllowed(k, uri) == UrisOf(k) # {} /\ uri \in UrisOf(k)

\* In a statement after the one that read the client
CheckRedirect(r) ==
  /\ req[r].pc = "redirect"
  /\ IF RedirectAllowed(req[r].client, req[r].uri) THEN Goes(r, "consent") ELSE Done(r)
  /\ UNCHANGED <<access, setup, world>>

\* POST /token with a user's password, which was right
StartPassword(r, u, k, scope) ==
  /\ May(k, "password") /\ active[u]
  /\ Begin(r, [pc |-> "consent", client |-> k, app |-> clients[k].app, user |-> u,
               pkce |-> FALSE, uri |-> None, scope |-> scope, wants |-> "password",
               challenge |-> FALSE])
  /\ UNCHANGED <<access, setup, world>>

\* Mutant of SetPermissions: who asks for nothing gets no row.
SetPermissionsIfAny(u, a, scope) ==
  IF perms[u, a] = None
    THEN perms' = IF scope = {} THEN perms
                  ELSE [perms EXCEPT ![<<u, a>>] = [scope |-> scope, used |-> FALSE]]
    ELSE perms' = [p \in Pairs |-> IF perms[p] = None THEN None ELSE
                     [perms[p] EXCEPT !.scope = scope \cup perms[u, a].scope]]

\* setPermissions(): the row of this user and app is locked and read; the UPDATE
\* names no row and changes all of them.  It is left out when the merged list, sorted,
\* is the text that is there: when nothing is new, the order and the repetitions in that
\* text decide whether it is written again.  NULL always is.
SetPermissions(u, a, scope) ==
  IF perms[u, a] = None
    THEN perms' = [perms EXCEPT ![<<u, a>>] = [scope |-> scope, used |-> FALSE]]
    ELSE LET old == perms[u, a].scope
             new == scope \cup old
         IN \/ perms' = [p \in Pairs |-> IF perms[p] = None THEN None
                                         ELSE [perms[p] EXCEPT !.scope = new]]
            \/ new = old /\ old # {} /\ UNCHANGED perms

\* A client that has to use PKCE and does not is refused after the permission.
Consent(r) ==
  /\ req[r].pc = "consent"
  /\ LET q == req[r] IN
       /\ SetPermissions(q.user, q.app, q.scope)
       /\ \/ /\ q.wants = "code" /\ q.pkce /\ ~q.challenge
             /\ Done(r)
          \/ /\ q.wants = "code" /\ (q.pkce => q.challenge)
             /\ Goes(r, "code")
          \/ /\ q.wants # "code"
             /\ req' = [req EXCEPT ![r] =
                  [pc |-> "mint", client |-> q.client, user |-> q.user, asked |-> TRUE]]
  /\ UNCHANGED <<setup, world, tokens, last, issued>>

InsertCode(r) ==
  /\ req[r].pc = "code"
  /\ codes' = codes \cup {<<req[r].client, req[r].user>>}
  /\ Done(r)
  /\ UNCHANGED <<access, setup, active, now>>
-----------------------------------------------------------------------------
(* Tokens                                                                  *)

\* A code comes back.  (How often it may: OAuth2Tokens.)
Exchange(r, k, u) ==
  /\ May(k, "authorization_code") /\ <<k, u>> \in codes /\ active[u]
  /\ Begin(r, [pc |-> "mint", client |-> k, user |-> u, asked |-> TRUE])
  /\ UNCHANGED <<access, setup, world>>

\* getTokenByAccessToken(): an expired row is not found, and a principal who is off
\* is an error that says so.
ByAccess(t) ==
  IF t.access <= now THEN "not_found" ELSE IF active[t.user] THEN "found" ELSE "error"

\* getTokenByRefreshToken()
ByRefresh(t) ==
  IF t.refresh <= now THEN "not_found" ELSE IF active[t.user] THEN "found" ELSE "error"

Refresh(r, t) ==
  /\ t \in tokens /\ May(t.client, "refresh_token") /\ ByRefresh(t) = "found"
  /\ Begin(r, [pc |-> "mint", client |-> t.client, user |-> t.user, asked |-> t.asked])
  /\ tokens' = tokens \ {t}
  /\ UNCHANGED <<setup, world, perms, last, issued>>

\* Tokens for which no user is asked: those of an app for itself, developer tokens
\* (of the system or a client), one-time tokens, and codes of the login challenge
Unasked(r, k, u) ==
  /\ k # None => Found(k)
  /\ u \in Apps => k # None /\ May(k, "client_credentials") /\ clients[k].app = u
  /\ active[u]
  /\ Begin(r, [pc |-> "mint", client |-> k, user |-> u, asked |-> FALSE])
  /\ UNCHANGED <<access, setup, world>>

Revoke(t) ==
  /\ t \in tokens /\ Found(t.client)
  /\ tokens' = tokens \ {t}
  /\ UNCHANGED <<setup, world, req, perms, last, issued>>

\* generateTokenInternal()
Mint(r) ==
  /\ req[r].pc = "mint" /\ last < MaxToken
  /\ LET q == req[r] IN
       /\ tokens' = tokens \cup
            {[id |-> last + 1, client |-> q.client, user |-> q.user, asked |-> q.asked,
              access |-> now + AccessExpiry, refresh |-> now + RefreshExpiry]}
       /\ issued' = issued \cup {<<q.client, q.user>>}
       /\ last' = last + 1
       /\ IF q.user \in Users THEN Goes(r, "use") ELSE Done(r)
  /\ UNCHANGED <<setup, world, perms>>

\* The rows updateLastUse() changes
Touches(p, u, k) == p[1] = u /\ p[2] = AppOf(k)

Use(r) ==
  /\ req[r].pc = "use"
  /\ perms' = [p \in Pairs |-> IF perms[p] # None /\ Touches(p, req[r].user, req[r].client)
                                 THEN [perms[p] EXCEPT !.used = TRUE] ELSE perms[p]]
  /\ Done(r)
  /\ UNCHANGED <<setup, world, tokens, last, issued>>
-----------------------------------------------------------------------------
(* Views                                                                   *)

\* GET /user/:id/app-permission
AppsOf(u) == {a \in Apps : perms[u, a] # None}

\* GET /user/:id/app-permission/:id, for a row that is there
PermissionOf(u, a) == perms[u, a]

\* Mutant of ActiveTokens: the other of the two times is compared.
ActiveTokensOfNow(p) == {t \in tokens : t.user = p /\ t.access > now}

\* getActiveTokens(), the rows of GET /user/:id/sessions
ActiveTokens(p) == {t \in tokens : t.user = p /\ t.refresh > now}

\* The page itself fails when one of the rows belongs to an app that is off.
Sessions(p) ==
  IF \E t \in ActiveTokens(p) : t.client # None /\ ~Found(t.client) THEN "error" ELSE "list"

\* The hint chooses the queries; a secret is in one column only.
Recognized(t, secret, hint) ==
  IF hint \notin {"none", secret} THEN "not_found"
  ELSE IF secret = "access" THEN ByAccess(t) ELSE ByRefresh(t)

\* POST /introspect with one of the two secrets of a row, and its token_type_hint
Introspect(t, secret, hint) ==
  CASE Recognized(t, secret, hint) = "not_found" -> "inactive"
    [] Recognized(t, secret, hint) = "found" /\ (t.client # None => Found(t.client)) -> "active"
    [] OTHER -> "error"

\* "exp" of an active answer
Expires(t, secret) == IF secret = "refresh" THEN t.refresh ELSE t.access
-----------------------------------------------------------------------------
\* The handler stops; what it has written stays.
Fail(r) ==
  /\ req[r] # Idle
  /\ torn' = IF req[r].pc = "uris" THEN torn \cup {req[r].client} ELSE torn
  /\ Done(r)
  /\ UNCHANGED <<access, world, clients, uris, form>>

SetActive(p) ==
  /\ active' = [active EXCEPT ![p] = ~active[p]]
  /\ UNCHANGED <<access, setup, now, codes, req>>

\* Time stands still while nothing can expire.
Tick ==
  /\ now < MaxTime /\ tokens # {}
  /\ now' = now + 1
  /\ UNCHANGED <<access, setup, active, codes, req>>

Init ==
  /\ active = [p \in Principals |-> TRUE]
  /\ clients = [k \in ClientIds |-> None] /\ uris = {}
  /\ perms = [p \in Pairs |-> None]
  /\ tokens = {} /\ now = 0 /\ last = 0
  /\ req = [r \in Requests |-> Idle]
  /\ codes = {} /\ issued = {} /\ torn = {}
  /\ form = [k \in ClientIds |-> None]

Administer(r) ==
  \/ \E a \in Apps, k \in ClientIds, f \in Forms : PostClient(r, a, k, f) \/ StartEdit(r, a, k, f)
  \/ InsertClient(r) \/ InsertUri(r) \/ EditClient(r)

Ask(r) == \E u \in Users, k \in ClientIds, scope \in ScopeLists :
  \/ StartPassword(r, u, k, scope)
  \/ \E uri \in Uris, wants \in {"code", "token"}, challenge \in BOOLEAN :
       StartAuthorize(r, u, k, uri, scope, wants, challenge)

Issue(r) ==
  \/ \E k \in ClientIds, u \in Users : Exchange(r, k, u)
  \/ \E t \in tokens : Refresh(r, t)
  \/ \E k \in ClientIds \cup {None}, u \in Principals : Unasked(r, k, u)

Next ==
  \/ \E r \in Requests :
       \/ Administer(r) \/ Ask(r) \/ Issue(r)
       \/ CheckRedirect(r) \/ Consent(r) \/ InsertCode(r) \/ Mint(r) \/ Use(r)
       \/ Fail(r)
  \/ \E t \in tokens : Revoke(t)
  \/ \E p \in Editable : SetActive(p)
  \/ Tick

Spec == Init /\ [][Next]_vars
-----------------------------------------------------------------------------
(* Properties                                                              *)

TypeOK ==
  /\ active \in [Principals -> BOOLEAN]
  /\ clients \in ClientRows /\ uris \subseteq ClientIds \X Uris
  /\ perms \in PermissionRows
  /\ tokens \subseteq Token /\ now \in Nat /\ last \in 0..MaxToken
  /\ req \in [Requests -> Request]
  /\ codes \subseteq ClientIds \X Users
  /\ issued \subseteq (ClientIds \cup {None}) \X Principals
  /\ form \in [ClientIds -> Forms \cup {None}] /\ torn \subseteq ClientIds

\* A user finds in the list of apps every app that holds a token the user was asked
\* for; and an app that is said to be used did get a token of that user.
PermissionsMatchTokens ==
  /\ \A t \in tokens : t.asked => AppOf(t.client) \in AppsOf(t.user)
  /\ \A u \in Users : \A a \in AppsOf(u) : PermissionOf(u, a).used =>
       \E k \in ClientIds : AppOf(k) = a /\ <<k, u>> \in issued

\* Whatever introspection says is active, by either secret and with any hint, is
\* among the sessions of its user, and expires later than now.
ActiveIsListed ==
  \A t \in tokens, secret \in {"access", "refresh"}, hint \in {"none", "access", "refresh"} :
    Introspect(t, secret, hint) = "active" =>
      t \in ActiveTokens(t.user) /\ Expires(t, secret) > now

\* A client allows what one form says and redirects where the same form says, the
\* form stored last; unless its making stopped half way or met an edit.
ClientMatchesForm ==
  \A k \in ClientIds : clients[k] # None /\ k \notin torn /\ ~BeingMade(k) =>
    /\ clients[k].grants = GrantsOf(form[k].boxes) /\ clients[k].pkce = form[k].pkce
    /\ UrisOf(k) = form[k].uris

\* "This function will set the permissions an app has on behalf of a user. If
\* permissions already existed, the new list of permissions will be merged with the
\* old ones": it changes those of this app and this user.
ConsentIsOnesOwn ==
  [][\A u \in Users, a \in Apps :
       perms[u, a] # None /\ perms'[u, a] # perms[u, a] =>
         \E r \in Requests : /\ req[r].pc \in {"consent", "use"} /\ req[r].user = u
                             /\ req'[r] # req[r]]_vars
=============================================================================
