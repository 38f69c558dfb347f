----------------------------- MODULE AppsProofs -----------------------------
(***************************************************************************)
(* Theorems about Apps: the rows of clients, permissions and tokens, which *)
(* different statements write, agree with each other, for any number of    *)
(* requests, users, apps, clients and forms.                               *)
(***************************************************************************)
EXTENDS Apps, TLAPS

USE DEF Principals, Pairs, Form, ClientRows, PermissionRows, Begin, Done

\* A user was asked, and said yes, to what client k may do, by the tables c and p.
Consented(k, u, c, p) ==
  /\ k \in ClientIds /\ c[k] # None
  /\ u \in Users /\ p[u, c[k].app] # None

\* What a request q may rely on at each step
Good(q, c, p, i) ==
  /\ q.pc \in {"edit", "uris", "redirect", "consent", "code"} => c[q.client] # None
  /\ q.pc \in {"redirect", "consent", "code"} => c[q.client].app = q.app
  /\ q.pc = "code" => Consented(q.client, q.user, c, p)
  /\ q.pc = "mint" /\ q.asked => Consented(q.client, q.user, c, p)
  /\ q.pc = "mint" /\ q.client # None => c[q.client] # None
  /\ q.pc = "use" => q.user \in Users /\ <<q.client, q.user>> \in i

\* What the rows that were written later say of those they were written after
CodesAgree == \A s \in codes : Consented(s[1], s[2], clients, perms)
TokensAgree == \A t \in tokens : /\ t.asked => Consented(t.client, t.user, clients, perms)
                                 /\ t.access <= t.refresh
IssuedAgree == \A s \in issued : s[1] # None => clients[s[1]] # None
UsesAgree == \A u \in Users, a \in Apps : perms[u, a] # None /\ perms[u, a].used =>
  \E k \in ClientIds : clients[k] # None /\ clients[k].app = a /\ <<k, u>> \in issued

Agree == CodesAgree /\ TokensAgree /\ IssuedAgree /\ UsesAgree
AllGood == \A r \in Requests : Good(req[r], clients, perms, issued)

Makes(r, k) == req[r].pc = "uris" /\ req[r].client = k

\* The client k, as far as it is made, says what the form says that was stored last;
\* what is missing are the redirect URIs that the one request which makes it holds.
Following(k) ==
  /\ clients[k] = None => UrisOf(k) = {}
  /\ clients[k] # None => form[k] \in Forms
  /\ \A r1, r2 \in Requests : Makes(r1, k) /\ Makes(r2, k) => r1 = r2
  /\ clients[k] # None /\ k \notin torn =>
       /\ clients[k].grants = GrantsOf(form[k].boxes) /\ clients[k].pkce = form[k].pkce
       /\ \A r \in Requests : Makes(r, k) => UrisOf(k) \cup req[r].left = form[k].uris
       /\ (\A r \in Requests : ~Makes(r, k)) => UrisOf(k) = form[k].uris

AllFollow == \A k \in ClientIds : Following(k)

IInv == TypeOK /\ AllGood /\ Agree /\ AllFollow
-----------------------------------------------------------------------------
(* A step of one request                                                   *)

LEMMA Kinds ==
  ASSUME NEW q \in Request
  PROVE  /\ q.pc \in {"idle", "insert", "uris", "edit", "redirect", "consent", "code", "mint",
                      "use"}
         /\ q.pc = "idle" <=> q = Idle
         /\ q.pc \in {"insert", "uris"} => q \in Making
         /\ q.pc = "edit" => q \in Editing
         /\ q.pc \in {"redirect", "consent", "code"} => q \in Asking
         /\ q.pc \in {"mint", "use"} => q \in Issuing
BY DEF Request, Idle, Making, Editing, Asking, Issuing

\* Rows of clients and permissions stay, clients with their apps, and what was issued
\* was issued.
Grows ==
  /\ \A k \in ClientIds : clients[k] # None => clients'[k] # None
                                               /\ clients'[k].app = clients[k].app
  /\ \A u \in Users, a \in Apps : perms[u, a] # None => perms'[u, a] # None
  /\ issued \subseteq issued'

LEMMA AppOfRow ==
  ASSUME TypeOK, NEW k \in ClientIds, clients[k] # None
  PROVE  clients[k] \in Client /\ clients[k].app \in Apps
BY DEF TypeOK, Client

\* What a user has permitted stays permitted.
LEMMA ConsentLasts ==
  ASSUME TypeOK, Grows, NEW k, NEW u, Consented(k, u, clients, perms)
  PROVE  Consented(k, u, clients', perms')
BY AppOfRow DEF Consented, Grows

LEMMA StillGood ==
  ASSUME TypeOK, Grows, NEW q \in Request, Good(q, clients, perms, issued)
  PROVE  Good(q, clients', perms', issued')
<1>1. /\ q.pc \in {"edit", "uris", "redirect", "consent", "code"} => q.client \in ClientIds
      /\ q.pc = "mint" => q.client \in ClientIds \cup {None}
  BY Kinds DEF Making, Editing, Asking, Issuing
<1> QED BY <1>1, ConsentLasts DEF Good, Grows

\* Request r goes on, alone, to a step it may take.
Moves(r) ==
  /\ req' = [req EXCEPT ![r] = req'[r]]
  /\ req'[r] \in Request
  /\ Good(req'[r], clients', perms', issued')

\* The rest of the type invariant, after a step
TablesTyped ==
  /\ active \in [Principals -> BOOLEAN]
  /\ clients \in ClientRows /\ uris \subseteq ClientIds \X Uris
  /\ perms \in PermissionRows
  /\ tokens \subseteq Token /\ now \in Nat /\ last \in 0..MaxToken
  /\ codes \subseteq ClientIds \X Users
  /\ issued \subseteq (ClientIds \cup {None}) \X Principals
  /\ form \in [ClientIds -> Forms \cup {None}] /\ torn \subseteq ClientIds

LEMMA OneMoves ==
  ASSUME TypeOK, AllGood, Grows, NEW r \in Requests, Moves(r)
  PROVE  req' \in [Requests -> Request] /\ AllGood'
<1>1. req' \in [Requests -> Request]
  BY DEF TypeOK, Moves
<1>2. ASSUME NEW x \in Requests
      PROVE  Good(req'[x], clients', perms', issued')
  <2>1. CASE x = r
    BY <2>1 DEF Moves
  <2>2. CASE x # r
    <3>1. req'[x] = req[x] /\ req[x] \in Request
      BY <2>2 DEF Moves, TypeOK
    <3> QED BY <3>1, StillGood DEF AllGood
  <2> QED BY <2>1, <2>2
<1> QED BY <1>1, <1>2 DEF AllGood

LEMMA IdleIsGood ==
  ASSUME TypeOK, NEW r \in Requests, Done(r)
  PROVE  Moves(r)
<1>1. req'[r] = Idle /\ req' = [req EXCEPT ![r] = Idle]
  BY DEF TypeOK
<1>2. Idle \in Request /\ Good(Idle, clients', perms', issued')
  BY DEF Idle, Request, Good
<1> QED BY <1>1, <1>2 DEF Moves

\* What agrees goes on to, unless a code, a token or a use is new.
LEMMA AgreeLasts ==
  ASSUME TypeOK, Agree, Grows, codes' = codes, issued' = issued, tokens' \subseteq tokens,
         \A u \in Users, a \in Apps : perms'[u, a] # None /\ perms'[u, a].used =>
           perms[u, a] # None /\ perms[u, a].used
  PROVE  Agree'
<1>1. CodesAgree' /\ TokensAgree'
  BY ConsentLasts DEF Agree, CodesAgree, TokensAgree
<1>2. IssuedAgree'
  <2>1. \A s \in issued : s[1] \in ClientIds \cup {None}
    BY DEF TypeOK
  <2> QED BY <2>1 DEF Agree, IssuedAgree, Grows
<1>3. ASSUME NEW u \in Users, NEW a \in Apps, perms'[u, a] # None, perms'[u, a].used
      PROVE  \E k \in ClientIds : /\ clients'[k] # None /\ clients'[k].app = a
                                  /\ <<k, u>> \in issued'
  <2>1. PICK k \in ClientIds : clients[k] # None /\ clients[k].app = a /\ <<k, u>> \in issued
    BY <1>3 DEF Agree, UsesAgree
  <2>2. clients'[k] # None /\ clients'[k].app = a /\ <<k, u>> \in issued'
    BY <2>1 DEF Grows
  <2> QED BY <2>2
<1> QED BY <1>1, <1>2, <1>3 DEF Agree, UsesAgree

LEMMA NothingNew ==
  ASSUME TypeOK, Agree, UNCHANGED <<perms, clients, issued>>, codes' = codes,
         tokens' \subseteq tokens
  PROVE  Grows /\ Agree'
<1>1. Grows
  BY DEF Grows
<1> QED BY <1>1, AgreeLasts

-----------------------------------------------------------------------------
(* Types, and agreement of the tables                                      *)

\* What a step of request r leaves
Leaves(r) == Grows /\ Moves(r) /\ TablesTyped' /\ Agree'

LEMMA FoundRow ==
  ASSUME TypeOK, NEW k, Found(k)
  PROVE  k \in ClientIds /\ clients[k] # None /\ clients[k] \in Client
BY DEF Found, TypeOK

LEMMA StartsLeave ==
  ASSUME TypeOK, Agree, NEW r \in Requests, NEW q \in Request,
         Good(q, clients, perms, issued), Begin(r, q),
         UNCHANGED <<access, setup, world>>
  PROVE  Leaves(r)
<1>1. Grows /\ Agree'
  BY NothingNew DEF access, setup, world
<1>2. req'[r] = q /\ req' = [req EXCEPT ![r] = q]
  BY DEF TypeOK
<1>3. Moves(r)
  BY <1>2 DEF Moves, access, setup
<1> QED BY <1>1, <1>3 DEF Leaves, TablesTyped, TypeOK, access, setup, world

\* create() goes on with the redirect URIs that are left.
LEMMA MakingMoves ==
  ASSUME TypeOK, NEW r \in Requests, req[r] \in Making, NEW left \in SUBSET Uris,
         MakingGoes(r, left), clients'[req[r].client] # None
  PROVE  Moves(r)
<1>1. CASE left = {}
  BY <1>1, IdleIsGood DEF MakingGoes
<1>2. CASE left # {}
  <2>1. /\ req'[r] = [req[r] EXCEPT !.pc = "uris", !.left = left]
        /\ req' = [req EXCEPT ![r] = req'[r]]
    BY <1>2 DEF MakingGoes, TypeOK
  <2>2. /\ req'[r] \in Making /\ req'[r].pc = "uris"
        /\ req'[r].client = req[r].client
    BY <2>1 DEF Making
  <2>3. req'[r] \in Request /\ Good(req'[r], clients', perms', issued')
    BY <2>2 DEF Request, Good
  <2> QED BY <2>1, <2>3 DEF Moves
<1> QED BY <1>1, <1>2

LEMMA AdministerLeaves ==
  ASSUME TypeOK, Agree, AllGood, NEW r \in Requests, Administer(r)
  PROVE  Leaves(r)
<1>1. ASSUME NEW a \in Apps, NEW k \in ClientIds, NEW f \in Forms, PostClient(r, a, k, f)
      PROVE  Leaves(r)
  <2> DEFINE q == [pc |-> "insert", client |-> k, app |-> a, form |-> f, left |-> f.uris]
  <2>1. q \in Request /\ Good(q, clients, perms, issued)
    BY FormsAssumption DEF Request, Making, Good
  <2> HIDE DEF q
  <2>2. Begin(r, q) /\ UNCHANGED <<access, setup, world>>
    BY <1>1 DEF PostClient, q
  <2> QED BY <2>1, <2>2, StartsLeave
<1>2. ASSUME NEW a \in Apps, NEW k \in ClientIds, NEW f \in Forms, StartEdit(r, a, k, f)
      PROVE  Leaves(r)
  <2> DEFINE q == [pc |-> "edit", client |-> k, form |-> f]
  <2>1. q \in Request /\ Good(q, clients, perms, issued)
    BY <1>2 DEF Request, Editing, Good, StartEdit, Found
  <2> HIDE DEF q
  <2>2. Begin(r, q) /\ UNCHANGED <<access, setup, world>>
    BY <1>2 DEF StartEdit, q
  <2> QED BY <2>1, <2>2, StartsLeave
<1>3. CASE InsertClient(r)
  <2> DEFINE k == req[r].client
             f == req[r].form
             row == [app |-> req[r].app, grants |-> GrantsOf(f.boxes), pkce |-> f.pkce]
  <2>1. /\ req[r] \in Making /\ k \in ClientIds /\ f \in Forms /\ f.uris \subseteq Uris
        /\ row \in Client
    <3>1. req[r] \in Making
      BY <1>3, Kinds DEF InsertClient, TypeOK
    <3>2. f \in Form /\ k \in ClientIds /\ f \in Forms /\ req[r].app \in Apps
      BY <3>1, FormsAssumption DEF Making
    <3>3. GrantsOf(f.boxes) \subseteq Grants
      BY <3>2 DEF GrantsOf, Grants
    <3> QED BY <3>1, <3>2, <3>3 DEF Client
  <2>2. CASE clients[k] # None
    <3>1. Done(r) /\ UNCHANGED <<access, setup, world>>
      BY <1>3, <2>2 DEF InsertClient
    <3>2. Grows /\ Agree'
      BY <3>1, NothingNew DEF access, setup, world
    <3>3. Moves(r)
      BY <3>1, IdleIsGood
    <3> QED BY <3>1, <3>2, <3>3 DEF Leaves, TablesTyped, TypeOK, access, setup, world
  <2>3. CASE clients[k] = None
    <3>1. /\ clients' = [clients EXCEPT ![k] = row] /\ form' = [form EXCEPT ![k] = f]
          /\ MakingGoes(r, f.uris)
          /\ UNCHANGED <<uris, torn>> /\ UNCHANGED <<access, world>>
      BY <1>3, <2>3 DEF InsertClient
    <3> HIDE DEF row
    <3>2. Grows
      BY <2>1, <2>3, <3>1 DEF Grows, TypeOK, access
    <3>3. Agree'
      BY <3>1, <3>2, AgreeLasts DEF access, world
    <3>4. clients'[k] # None
      BY <2>1, <3>1, NoneAssumption DEF TypeOK
    <3>5. Moves(r)
      BY <2>1, <3>1, <3>4, MakingMoves
    <3> QED BY <2>1, <3>1, <3>2, <3>3, <3>5 DEF Leaves, TablesTyped, TypeOK, access, world
  <2> QED BY <2>2, <2>3
<1>4. CASE InsertUri(r)
  <2>1. req[r] \in Making
    BY <1>4, Kinds DEF InsertUri, TypeOK
  <2>2. PICK u \in req[r].left : /\ uris' = uris \cup {<<req[r].client, u>>}
                                 /\ MakingGoes(r, req[r].left \ {u})
    BY <1>4 DEF InsertUri
  <2>3. req[r].client \in ClientIds /\ u \in Uris /\ req[r].left \ {u} \subseteq Uris
    BY <2>1 DEF Making
  <2>4. UNCHANGED <<access, world, clients, form, torn>>
    BY <1>4 DEF InsertUri
  <2>5. Grows /\ Agree'
    BY <2>4, NothingNew DEF access, world
  <2>6. clients'[req[r].client] # None
    BY <1>4, <2>4 DEF InsertUri, AllGood, Good
  <2>7. Moves(r)
    BY <2>1, <2>2, <2>3, <2>6, MakingMoves
  <2> QED BY <2>2, <2>3, <2>4, <2>5, <2>7 DEF Leaves, TablesTyped, TypeOK, access, world
<1>5. CASE EditClient(r)
  <2> DEFINE k == req[r].client
             f == req[r].form
  <2>1. k \in ClientIds /\ f \in Forms /\ f \in Form /\ clients[k] \in Client
    <3>1. req[r] \in Editing
      BY <1>5, Kinds DEF EditClient, TypeOK
    <3>2. clients[k] # None
      BY <1>5 DEF EditClient, AllGood, Good
    <3> QED BY <3>1, <3>2, FormsAssumption DEF Editing, TypeOK
  <2>2. /\ clients' = [clients EXCEPT ![k].grants = GrantsOf(f.boxes), ![k].pkce = f.pkce]
        /\ uris' = Replaced(k, f.uris)
        /\ form' = [form EXCEPT ![k] = f]
        /\ torn' = IF BeingMade(k) THEN torn \cup {k} ELSE torn
        /\ Done(r) /\ UNCHANGED <<access, world>>
    BY <1>5 DEF EditClient
  <2>3. GrantsOf(f.boxes) \subseteq Grants
    BY <2>1 DEF GrantsOf, Grants
  <2> HIDE DEF k, f
  <2>4. /\ clients'[k] = [clients[k] EXCEPT !.grants = GrantsOf(f.boxes), !.pkce = f.pkce]
        /\ \A x \in ClientIds \ {k} : clients'[x] = clients[x]
        /\ clients' = [clients EXCEPT ![k] = clients'[k]]
    BY <2>1, <2>2 DEF TypeOK
  <2>5. clients'[k] \in Client /\ clients'[k].app = clients[k].app /\ clients'[k] # None
    BY <2>1, <2>3, <2>4, NoneAssumption DEF Client
  <2>6. Grows
    BY <2>2, <2>4, <2>5 DEF Grows, access
  <2>7. Agree'
    BY <2>2, <2>6, AgreeLasts DEF access, world
  <2>8. uris' \subseteq ClientIds \X Uris
    BY <2>1, <2>2 DEF Replaced, TypeOK
  <2>9. Moves(r)
    BY <2>2, IdleIsGood
  <2>10. clients' \in ClientRows
    BY <2>4, <2>5 DEF TypeOK
  <2> QED BY <2>1, <2>2, <2>6, <2>7, <2>8, <2>9, <2>10
          DEF Leaves, TablesTyped, TypeOK, access, world
<1> QED BY <1>1, <1>2, <1>3, <1>4, <1>5 DEF Administer

LEMMA AskLeaves ==
  ASSUME TypeOK, Agree, NEW r \in Requests, Ask(r)
  PROVE  Leaves(r)
<1>1. ASSUME NEW u \in Users, NEW k \in ClientIds, NEW scope \in ScopeLists,
             StartPassword(r, u, k, scope)
      PROVE  Leaves(r)
  <2> DEFINE q == [pc |-> "consent", client |-> k, app |-> clients[k].app, user |-> u,
                   pkce |-> FALSE, uri |-> None, scope |-> scope, wants |-> "password",
                   challenge |-> FALSE]
  <2>1. clients[k] # None /\ clients[k].app \in Apps
    BY <1>1, FoundRow, AppOfRow DEF StartPassword, May
  <2>2. q \in Asking
    BY <2>1 DEF Asking
  <2>3. q \in Request /\ Good(q, clients, perms, issued)
    BY <2>1, <2>2 DEF Request, Good
  <2> HIDE DEF q
  <2>4. Begin(r, q) /\ UNCHANGED <<access, setup, world>>
    BY <1>1 DEF StartPassword, q
  <2> QED BY <2>3, <2>4, StartsLeave
<1>2. ASSUME NEW u \in Users, NEW k \in ClientIds, NEW scope \in ScopeLists, NEW uri \in Uris,
             NEW wants \in {"code", "token"}, NEW challenge \in BOOLEAN,
             StartAuthorize(r, u, k, uri, scope, wants, challenge)
      PROVE  Leaves(r)
  <2> DEFINE q == [pc |-> "redirect", client |-> k, app |-> clients[k].app, user |-> u,
                   pkce |-> clients[k].pkce, uri |-> uri, scope |-> scope, wants |-> wants,
                   challenge |-> challenge]
  <2>1. clients[k] # None /\ clients[k].app \in Apps /\ clients[k].pkce \in BOOLEAN
    BY <1>2, FoundRow, AppOfRow DEF StartAuthorize, May, Client
  <2>2. q \in Asking
    BY <2>1 DEF Asking
  <2>3. q \in Request /\ Good(q, clients, perms, issued)
    BY <2>1, <2>2 DEF Request, Good
  <2> HIDE DEF q
  <2>4. Begin(r, q) /\ UNCHANGED <<access, setup, world>>
    BY <1>2 DEF StartAuthorize, q
  <2> QED BY <2>3, <2>4, StartsLeave
<1> QED BY <1>1, <1>2 DEF Ask

LEMMA IssueLeaves ==
  ASSUME TypeOK, Agree, NEW r \in Requests, Issue(r)
  PROVE  Leaves(r)
<1>1. ASSUME NEW k \in ClientIds, NEW u \in Users, Exchange(r, k, u)
      PROVE  Leaves(r)
  <2> DEFINE q == [pc |-> "mint", client |-> k, user |-> u, asked |-> TRUE]
  <2>1. Consented(k, u, clients, perms)
    BY <1>1 DEF Exchange, Agree, CodesAgree
  <2>2. q \in Request /\ Good(q, clients, perms, issued)
    BY <2>1 DEF Request, Issuing, Good, Consented
  <2> HIDE DEF q
  <2>3. Begin(r, q) /\ UNCHANGED <<access, setup, world>>
    BY <1>1 DEF Exchange, q
  <2> QED BY <2>2, <2>3, StartsLeave
<1>2. ASSUME NEW k \in ClientIds \cup {None}, NEW u \in Principals, Unasked(r, k, u)
      PROVE  Leaves(r)
  <2> DEFINE q == [pc |-> "mint", client |-> k, user |-> u, asked |-> FALSE]
  <2>1. q \in Request /\ Good(q, clients, perms, issued)
    BY <1>2 DEF Request, Issuing, Good, Unasked, Found
  <2> HIDE DEF q
  <2>2. Begin(r, q) /\ UNCHANGED <<access, setup, world>>
    BY <1>2 DEF Unasked, q
  <2> QED BY <2>1, <2>2, StartsLeave
<1>3. ASSUME NEW t \in tokens, Refresh(r, t)
      PROVE  Leaves(r)
  <2> DEFINE q == [pc |-> "mint", client |-> t.client, user |-> t.user, asked |-> t.asked]
  <2>1. t \in Token
    BY DEF TypeOK
  <2>2. q \in Request
    BY <2>1 DEF Request, Issuing, Token
  <2>3. UNCHANGED <<setup, world, perms, last, issued>> /\ tokens' \subseteq tokens
    BY <1>3 DEF Refresh
  <2>4. Good(q, clients', perms', issued')
    BY <1>3, <2>3 DEF Good, Agree, TokensAgree, setup, Refresh, May, Found
  <2>5. req' = [req EXCEPT ![r] = q]
    BY <1>3 DEF Refresh
  <2> HIDE DEF q
  <2>6. Moves(r)
    BY <2>2, <2>4, <2>5 DEF Moves, TypeOK
  <2>7. Grows /\ Agree'
    BY <2>3, NothingNew DEF setup, world
  <2> QED BY <2>3, <2>6, <2>7 DEF Leaves, TablesTyped, TypeOK, setup, world
<1> QED BY <1>1, <1>2, <1>3 DEF Issue

LEMMA CheckLeaves ==
  ASSUME TypeOK, Agree, AllGood, NEW r \in Requests, CheckRedirect(r)
  PROVE  Leaves(r)
<1>1. Grows /\ Agree'
  BY NothingNew DEF CheckRedirect, access, setup, world
<1>2. CASE Done(r)
  BY <1>1, <1>2, IdleIsGood DEF CheckRedirect, Leaves, TablesTyped, TypeOK, access, setup, world
<1>3. CASE Goes(r, "consent")
  <2>1. req[r] \in Asking /\ Good(req[r], clients, perms, issued) /\ req[r].pc = "redirect"
    BY Kinds DEF CheckRedirect, TypeOK, AllGood
  <2>2. /\ req'[r] = [req[r] EXCEPT !.pc = "consent"]
        /\ req' = [req EXCEPT ![r] = req'[r]]
    BY <1>3 DEF Goes, TypeOK
  <2>3. /\ req'[r] \in Asking /\ req'[r].pc = "consent"
        /\ req'[r].client = req[r].client /\ req'[r].app = req[r].app
    BY <2>1, <2>2 DEF Asking
  <2>4. Good(req'[r], clients, perms, issued)
    BY <2>1, <2>3 DEF Good
  <2>5. Moves(r)
    BY <2>2, <2>3, <2>4 DEF Moves, Request, CheckRedirect, access, setup
  <2> QED BY <1>1, <2>5 DEF CheckRedirect, Leaves, TablesTyped, TypeOK, access, setup, world
<1> QED BY <1>2, <1>3 DEF CheckRedirect

\* setPermissions() leaves a row for the user and the app, and one for whoever had one.
LEMMA Permits ==
  ASSUME TypeOK, NEW u \in Users, NEW a \in Apps, NEW scope \in ScopeLists,
         SetPermissions(u, a, scope)
  PROVE  /\ perms' \in PermissionRows /\ perms'[u, a] # None
         /\ \A v \in Users, b \in Apps :
              /\ perms[v, b] # None => perms'[v, b] # None
              /\ perms'[v, b] # None /\ perms'[v, b].used =>
                   perms[v, b] # None /\ perms[v, b].used
<1> scope \in SUBSET Scopes /\ <<u, a>> \in Pairs
  BY ScopesAssumption
<1>1. CASE perms[u, a] = None
  <2> DEFINE row == [scope |-> scope, used |-> FALSE]
  <2>1. row \in Permission /\ row # None /\ ~row.used
    <3>1. row \in Permission
      BY DEF Permission
    <3> QED BY <3>1, NoneAssumption
  <2>2. perms' = [perms EXCEPT ![<<u, a>>] = row]
    BY <1>1 DEF SetPermissions
  <2> HIDE DEF row
  <2> QED BY <2>1, <2>2 DEF TypeOK
<1>2. CASE perms[u, a] # None
  <2> DEFINE new == scope \cup perms[u, a].scope
  <2>1. perms[u, a] \in Permission
    BY <1>2 DEF TypeOK
  <2>2. new \in SUBSET Scopes
    BY <2>1 DEF Permission
  <2>3. CASE UNCHANGED perms
    BY <1>2, <2>3 DEF TypeOK
  <2>4. CASE perms' = [p \in Pairs |-> IF perms[p] = None THEN None
                                      ELSE [perms[p] EXCEPT !.scope = new]]
    <3> HIDE DEF new
    <3>1. ASSUME NEW p \in Pairs, perms[p] # None
          PROVE  /\ perms'[p] \in Permission /\ perms'[p] # None
                 /\ perms'[p].used = perms[p].used
      <4>1. perms[p] \in Permission
        BY <3>1 DEF TypeOK
      <4>2. perms'[p] = [perms[p] EXCEPT !.scope = new]
        BY <2>4, <3>1
      <4>3. perms'[p] \in Permission /\ perms'[p].used = perms[p].used
        BY <2>2, <4>1, <4>2 DEF Permission
      <4> QED BY <4>3, NoneAssumption
    <3>2. \A p \in Pairs : perms[p] = None => perms'[p] = None
      BY <2>4
    <3>3. perms' \in PermissionRows
      BY <2>4, <3>1, <3>2
    <3> QED BY <1>2, <3>1, <3>2, <3>3
  <2> QED BY <1>2, <2>3, <2>4 DEF SetPermissions
<1> QED BY <1>1, <1>2

LEMMA ConsentLeaves ==
  ASSUME TypeOK, Agree, AllGood, NEW r \in Requests, Consent(r)
  PROVE  Leaves(r)
<1> DEFINE q == req[r]
<1>1. /\ q \in Asking /\ q.user \in Users /\ q.app \in Apps /\ q.scope \in ScopeLists
      /\ q.client \in ClientIds /\ clients[q.client] # None /\ clients[q.client].app = q.app
      /\ q.pc = "consent"
  <2>1. q \in Asking /\ Good(q, clients, perms, issued) /\ q.pc = "consent"
    BY Kinds DEF Consent, TypeOK, AllGood
  <2> QED BY <2>1 DEF Asking, Good
<1>2. SetPermissions(q.user, q.app, q.scope) /\ UNCHANGED <<setup, world, tokens, last, issued>>
  BY DEF Consent
<1>3. /\ perms' \in PermissionRows /\ perms'[q.user, q.app] # None
      /\ \A v \in Users, b \in Apps :
           /\ perms[v, b] # None => perms'[v, b] # None
           /\ perms'[v, b] # None /\ perms'[v, b].used => perms[v, b] # None /\ perms[v, b].used
  BY <1>1, <1>2, Permits
<1>4. Grows
  BY <1>2, <1>3 DEF Grows, setup
<1>5. Agree'
  BY <1>2, <1>3, <1>4, AgreeLasts DEF world
<1>6. Consented(q.client, q.user, clients', perms')
  BY <1>1, <1>2, <1>3 DEF Consented, setup
<1>7. Moves(r)
  <2>1. CASE Done(r)
    BY <2>1, IdleIsGood
  <2>2. CASE Goes(r, "code")
    <3>1. /\ req'[r] = [q EXCEPT !.pc = "code"] /\ req' = [req EXCEPT ![r] = req'[r]]
      BY <2>2 DEF Goes, TypeOK
    <3>2. /\ req'[r] \in Asking /\ req'[r].pc = "code" /\ req'[r].client = q.client
          /\ req'[r].app = q.app /\ req'[r].user = q.user
      BY <1>1, <3>1 DEF Asking
    <3>3. Good(req'[r], clients', perms', issued')
      BY <1>1, <1>2, <1>6, <3>2 DEF Good, setup
    <3> QED BY <3>1, <3>2, <3>3 DEF Moves, Request
  <2>3. CASE req' = [req EXCEPT ![r] =
               [pc |-> "mint", client |-> q.client, user |-> q.user, asked |-> TRUE]]
    <3> DEFINE m == [pc |-> "mint", client |-> q.client, user |-> q.user, asked |-> TRUE]
    <3>1. m \in Request /\ Good(m, clients', perms', issued')
      BY <1>1, <1>6 DEF Request, Issuing, Good, Consented
    <3> HIDE DEF m, q
    <3>2. req'[r] = m /\ req' = [req EXCEPT ![r] = m]
      BY <2>3 DEF TypeOK, m
    <3> QED BY <3>1, <3>2 DEF Moves
  <2> QED BY <2>1, <2>2, <2>3 DEF Consent
<1> QED BY <1>2, <1>3, <1>4, <1>5, <1>7 DEF Leaves, TablesTyped, TypeOK, setup, world

LEMMA InsertCodeLeaves ==
  ASSUME TypeOK, Agree, AllGood, NEW r \in Requests, InsertCode(r)
  PROVE  Leaves(r)
<1>1. /\ codes' = codes \cup {<<req[r].client, req[r].user>>}
      /\ Done(r) /\ UNCHANGED <<access, setup, active, now>>
  BY DEF InsertCode
<1>2. Consented(req[r].client, req[r].user, clients, perms)
  BY DEF InsertCode, AllGood, Good
<1>3. Agree'
  <2>1. CodesAgree'
    BY <1>1, <1>2 DEF Agree, CodesAgree, access, setup
  <2>2. TokensAgree' /\ IssuedAgree' /\ UsesAgree'
    BY <1>1 DEF Agree, TokensAgree, IssuedAgree, UsesAgree, access, setup
  <2> QED BY <2>1, <2>2 DEF Agree
<1>4. Grows /\ Moves(r)
  BY <1>1, IdleIsGood DEF Grows, access, setup
<1>5. codes' \subseteq ClientIds \X Users
  <2>1. req[r].client \in ClientIds /\ req[r].user \in Users
    BY <1>2 DEF Consented
  <2> QED BY <1>1, <2>1 DEF TypeOK
<1> QED BY <1>1, <1>3, <1>4, <1>5 DEF Leaves, TablesTyped, TypeOK, access, setup

LEMMA MintLeaves ==
  ASSUME TypeOK, Agree, AllGood, NEW r \in Requests, Mint(r)
  PROVE  Leaves(r)
<1> DEFINE q == req[r]
           t == [id |-> last + 1, client |-> q.client, user |-> q.user, asked |-> q.asked,
                 access |-> now + AccessExpiry, refresh |-> now + RefreshExpiry]
<1>1. /\ q \in Issuing /\ q.pc = "mint" /\ q.client \in ClientIds \cup {None}
      /\ q.user \in Principals /\ q.asked \in BOOLEAN
      /\ q.asked => Consented(q.client, q.user, clients, perms)
      /\ q.client # None => clients[q.client] # None
  <2>1. q \in Issuing /\ q.pc = "mint"
    BY Kinds DEF Mint, TypeOK
  <2>2. /\ q.asked => Consented(q.client, q.user, clients, perms)
        /\ q.client # None => clients[q.client] # None
    BY <2>1 DEF AllGood, Good
  <2> QED BY <2>1, <2>2 DEF Issuing
<1>2. /\ last < MaxToken /\ tokens' = tokens \cup {t}
      /\ issued' = issued \cup {<<q.client, q.user>>} /\ last' = last + 1
      /\ IF q.user \in Users THEN Goes(r, "use") ELSE Done(r)
      /\ UNCHANGED <<setup, world, perms>>
  BY DEF Mint
<1>3. last + 1 \in 1..MaxToken
  BY <1>2, TimesAssumption DEF TypeOK
<1>4. now + AccessExpiry \in Nat /\ now + RefreshExpiry \in Nat
  BY TimesAssumption DEF TypeOK
<1>5. now + AccessExpiry <= now + RefreshExpiry
  BY TimesAssumption, ExpiryAssumption DEF TypeOK
<1>6. /\ t \in Token /\ t.access <= t.refresh
      /\ t.client = q.client /\ t.user = q.user /\ t.asked = q.asked
  BY <1>1, <1>3, <1>4, <1>5 DEF Token
<1> HIDE DEF t
<1>7. Grows
  BY <1>2 DEF Grows, setup
<1>8. Agree'
  <2>1. CodesAgree'
    BY <1>2 DEF Agree, CodesAgree, setup, world
  <2>2. TokensAgree'
    BY <1>1, <1>2, <1>6 DEF Agree, TokensAgree, setup
  <2>3. IssuedAgree' /\ UsesAgree'
    <3>1. IssuedAgree'
      BY <1>1, <1>2 DEF Agree, IssuedAgree, setup
    <3>2. issued \subseteq issued' /\ UNCHANGED <<clients, perms>>
      BY <1>2 DEF setup
    <3>3. UsesAgree'
      BY <3>2 DEF Agree, UsesAgree
    <3> QED BY <3>1, <3>3
  <2> QED BY <2>1, <2>2, <2>3 DEF Agree
<1>9. Moves(r)
  <2>1. CASE q.user \notin Users
    BY <1>2, <2>1, IdleIsGood
  <2>2. CASE q.user \in Users
    <3>1. /\ req'[r] = [q EXCEPT !.pc = "use"] /\ req' = [req EXCEPT ![r] = req'[r]]
      BY <1>2, <2>2 DEF Goes, TypeOK
    <3>2. /\ req'[r] \in Issuing /\ req'[r].pc = "use" /\ req'[r].client = q.client
          /\ req'[r].user = q.user
      BY <1>1, <3>1 DEF Issuing
    <3>3. Good(req'[r], clients', perms', issued')
      BY <1>2, <2>2, <3>2 DEF Good
    <3> QED BY <3>1, <3>2, <3>3 DEF Moves, Request
  <2> QED BY <2>1, <2>2
<1>10. /\ tokens' \subseteq Token /\ last' \in 0..MaxToken
       /\ issued' \subseteq (ClientIds \cup {None}) \X Principals
  BY <1>1, <1>2, <1>3, <1>6 DEF TypeOK
<1> QED BY <1>2, <1>7, <1>8, <1>9, <1>10 DEF Leaves, TablesTyped, TypeOK, setup, world

LEMMA UseLeaves ==
  ASSUME TypeOK, Agree, AllGood, NEW r \in Requests, Use(r)
  PROVE  Leaves(r)
<1> DEFINE q == req[r]
<1>1. /\ q.user \in Users /\ <<q.client, q.user>> \in issued
      /\ UNCHANGED <<setup, world, tokens, last, issued>> /\ Done(r)
  BY DEF Use, AllGood, Good
<1>2. perms' = [p \in Pairs |-> IF perms[p] # None /\ Touches(p, q.user, q.client)
                                 THEN [perms[p] EXCEPT !.used = TRUE] ELSE perms[p]]
  BY DEF Use
<1>3. ASSUME NEW p \in Pairs
      PROVE  /\ perms'[p] = None <=> perms[p] = None
             /\ perms'[p] \in Permission \cup {None}
             /\ Touches(p, q.user, q.client) \/ perms'[p] = perms[p]
  <2>1. CASE perms[p] # None /\ Touches(p, q.user, q.client)
    <3>1. perms[p] \in Permission /\ perms'[p] = [perms[p] EXCEPT !.used = TRUE]
      BY <1>2, <2>1 DEF TypeOK
    <3>2. perms'[p] \in Permission
      BY <3>1 DEF Permission
    <3> QED BY <2>1, <3>2, NoneAssumption
  <2>2. CASE ~(perms[p] # None /\ Touches(p, q.user, q.client))
    BY <1>2, <2>2 DEF TypeOK
  <2> QED BY <2>1, <2>2
<1>4. perms' \in PermissionRows
  BY <1>2, <1>3
<1>5. Grows
  BY <1>1, <1>3 DEF Grows, setup
<1>6. CodesAgree' /\ TokensAgree' /\ IssuedAgree'
  BY <1>1, <1>5, ConsentLasts DEF Agree, CodesAgree, TokensAgree, IssuedAgree, setup, world
<1>7. ASSUME NEW u \in Users, NEW a \in Apps, perms'[u, a] # None, perms'[u, a].used
      PROVE  \E k \in ClientIds : clients[k] # None /\ clients[k].app = a /\ <<k, u>> \in issued
  <2>1. CASE perms'[u, a] = perms[u, a]
    BY <1>7, <2>1 DEF Agree, UsesAgree
  <2>2. CASE perms'[u, a] # perms[u, a]
    <3>1. u = q.user /\ a = AppOf(q.client)
      <4>1. Touches(<<u, a>>, q.user, q.client)
        BY <1>3, <2>2
      <4> QED BY <4>1 DEF Touches
    <3>2. q.client # None
      BY <3>1, NoneAssumption DEF AppOf
    <3>3. /\ q.client \in ClientIds /\ <<q.client, u>> \in issued
          /\ clients[q.client] # None /\ clients[q.client].app = a
      BY <1>1, <3>1, <3>2 DEF AppOf, TypeOK, Agree, IssuedAgree
    <3> QED BY <3>3
  <2> QED BY <2>1, <2>2
<1>8. UsesAgree'
  BY <1>1, <1>7 DEF UsesAgree, setup
<1>9. Moves(r)
  BY <1>1, IdleIsGood
<1> QED BY <1>1, <1>4, <1>5, <1>6, <1>8, <1>9 DEF Leaves, TablesTyped, TypeOK, Agree, setup, world

LEMMA FailLeaves ==
  ASSUME TypeOK, Agree, NEW r \in Requests, Fail(r)
  PROVE  Leaves(r)
<1>1. Grows /\ Agree'
  BY NothingNew DEF Fail, access, world
<1>2. Moves(r)
  BY IdleIsGood DEF Fail
<1>3. torn' \subseteq ClientIds
  BY Kinds DEF Fail, TypeOK, Making
<1> QED BY <1>1, <1>2, <1>3 DEF Fail, Leaves, TablesTyped, TypeOK, access, world

\* What a step of a request does
RequestStep(r) ==
  \/ Administer(r) \/ Ask(r) \/ Issue(r)
  \/ CheckRedirect(r) \/ Consent(r) \/ InsertCode(r) \/ Mint(r) \/ Use(r) \/ Fail(r)

\* What happens without one
OtherStep ==
  \/ \E t \in tokens : Revoke(t)
  \/ \E p \in Editable : SetActive(p)
  \/ Tick \/ UNCHANGED vars

LEMMA StepIs ==
  ASSUME [Next]_vars
  PROVE  (\E r \in Requests : RequestStep(r)) \/ OtherStep
BY DEF Next, RequestStep, OtherStep

LEMMA RequestLeaves ==
  ASSUME TypeOK, Agree, AllGood, NEW r \in Requests, RequestStep(r)
  PROVE  Leaves(r)
BY AdministerLeaves, AskLeaves, IssueLeaves, CheckLeaves, ConsentLeaves, InsertCodeLeaves,
   MintLeaves, UseLeaves, FailLeaves DEF RequestStep

LEMMA OthersLeave ==
  ASSUME TypeOK, Agree, AllGood, OtherStep
  PROVE  /\ UNCHANGED <<perms, clients, issued, codes, req, uris, form, torn, last>>
         /\ tokens' \subseteq tokens /\ TablesTyped'
<1>1. CASE \E t \in tokens : Revoke(t)
  BY <1>1 DEF Revoke, TablesTyped, TypeOK, setup, world
<1>2. CASE \E p \in Editable : SetActive(p)
  <2>1. PICK p \in Editable : SetActive(p)
    BY <1>2
  <2>2. active' \in [Principals -> BOOLEAN]
    BY <2>1, PrincipalsAssumption DEF SetActive, TypeOK
  <2> QED BY <2>1, <2>2 DEF SetActive, TablesTyped, TypeOK, access, setup
<1>3. CASE Tick \/ UNCHANGED vars
  BY <1>3 DEF Tick, TablesTyped, TypeOK, vars, access, setup, world
<1> QED BY <1>1, <1>2, <1>3 DEF OtherStep

LEMMA InitInvariant == Init => IInv
<1> SUFFICES ASSUME Init PROVE IInv
  OBVIOUS
<1>1. TypeOK
  <2>1. req \in [Requests -> Request]
    BY DEF Init, Request
  <2> QED BY <2>1, TimesAssumption DEF Init, TypeOK
<1>2. AllGood /\ Agree
  BY DEF Init, AllGood, Good, Idle, Agree, CodesAgree, TokensAgree, IssuedAgree, UsesAgree
<1>3. AllFollow
  BY DEF Init, AllFollow, Following, Makes, Idle, UrisOf
<1> QED BY <1>1, <1>2, <1>3 DEF IInv

\* Everything but the forms
LEMMA StepAgrees ==
  ASSUME TypeOK, Agree, AllGood, [Next]_vars
  PROVE  TypeOK' /\ Agree' /\ AllGood'
<1>1. ASSUME NEW r \in Requests, RequestStep(r)
      PROVE  TypeOK' /\ Agree' /\ AllGood'
  <2>1. Leaves(r)
    BY <1>1, RequestLeaves
  <2>2. req' \in [Requests -> Request] /\ AllGood'
    BY <2>1, OneMoves DEF Leaves
  <2> QED BY <2>1, <2>2 DEF Leaves, TablesTyped, TypeOK
<1>2. CASE OtherStep
  <2>1. /\ UNCHANGED <<perms, clients, issued, codes, req, uris, form, torn, last>>
        /\ tokens' \subseteq tokens /\ TablesTyped'
    BY <1>2, OthersLeave
  <2>2. Agree'
    BY <2>1, NothingNew
  <2> QED BY <2>1, <2>2 DEF AllGood, TablesTyped, TypeOK
<1> QED BY <1>1, <1>2, StepIs
-----------------------------------------------------------------------------
(* Clients follow their forms                                              *)

\* Nothing happens to client k, and whoever makes it goes on doing so, or client k
\* is torn.
LEMMA FollowsOn ==
  ASSUME NEW k \in ClientIds, Following(k),
         clients'[k] = clients[k], form'[k] = form[k], UrisOf(k)' = UrisOf(k),
         torn \subseteq torn',
         \A x \in Requests : Makes(x, k)' => Makes(x, k) /\ req'[x].left = req[x].left,
         k \notin torn' => \A x \in Requests : Makes(x, k) => Makes(x, k)'
  PROVE  Following(k)'
<1>1. /\ clients'[k] = None => UrisOf(k)' = {}
      /\ clients'[k] # None => form'[k] \in Forms
      /\ \A r1, r2 \in Requests : Makes(r1, k)' /\ Makes(r2, k)' => r1 = r2
  BY DEF Following
<1>2. ASSUME clients'[k] # None, k \notin torn'
      PROVE  /\ clients'[k].grants = GrantsOf(form'[k].boxes)
             /\ clients'[k].pkce = form'[k].pkce
             /\ \A r \in Requests : Makes(r, k)' => UrisOf(k)' \cup req'[r].left = form'[k].uris
             /\ (\A r \in Requests : ~Makes(r, k)') => UrisOf(k)' = form'[k].uris
  BY <1>2 DEF Following
<1> QED BY <1>1, <1>2 DEF Following

\* A step of a request that makes no client, before or after
LEMMA OtherwiseFollows ==
  ASSUME AllFollow, NEW r \in Requests, UNCHANGED setup,
         \A x \in Requests \ {r} : req'[x] = req[x],
         req[r].pc # "uris", req'[r].pc # "uris"
  PROVE  AllFollow'
<1>1. ASSUME NEW k \in ClientIds
      PROVE  Following(k)'
  <2>1. /\ clients'[k] = clients[k] /\ form'[k] = form[k] /\ UrisOf(k)' = UrisOf(k)
        /\ torn' = torn
    BY DEF setup, UrisOf
  <2>2. ASSUME NEW x \in Requests
        PROVE  /\ Makes(x, k)' <=> Makes(x, k)
               /\ Makes(x, k)' => req'[x].left = req[x].left
    BY DEF Makes
  <2> QED BY <2>1, <2>2, FollowsOn DEF AllFollow
<1> QED BY <1>1 DEF AllFollow

LEMMA InsertClientFollows ==
  ASSUME TypeOK, AllGood, AllFollow, NEW r \in Requests, InsertClient(r), req' \in [Requests -> Request],
         \A x \in Requests \ {r} : req'[x] = req[x]
  PROVE  AllFollow'
<1>1. req[r].pc = "insert" /\ req[r] \in Making
  BY Kinds DEF InsertClient, TypeOK
<1>c. PICK c \in ClientIds, f \in Forms : c = req[r].client /\ f = req[r].form
  BY <1>1 DEF Making
<1>2. CASE clients[c] # None
  <2>1. req'[r] = Idle /\ UNCHANGED setup
    BY <1>c, <1>2 DEF InsertClient, TypeOK
  <2> QED BY <1>1, <1>c, <2>1, OtherwiseFollows DEF Idle
<1>3. CASE clients[c] = None
  <2>1. /\ clients' = [clients EXCEPT ![c] =
              [app |-> req[r].app, grants |-> GrantsOf(f.boxes), pkce |-> f.pkce]]
        /\ form' = [form EXCEPT ![c] = f] /\ MakingGoes(r, f.uris)
        /\ uris' = uris /\ torn' = torn
    BY <1>c, <1>3 DEF InsertClient
  <2>2. /\ f.uris = {} => req'[r] = Idle
        /\ f.uris # {} => /\ req'[r].pc = "uris" /\ req'[r].client = c
                          /\ req'[r].left = f.uris
    BY <1>1, <1>c, <2>1 DEF MakingGoes, TypeOK, Making
  <2>3. ASSUME NEW k \in ClientIds \ {c}
        PROVE  Following(k)'
    <3>1. clients'[k] = clients[k] /\ form'[k] = form[k] /\ UrisOf(k)' = UrisOf(k)
      BY <2>1 DEF TypeOK, UrisOf
    <3>2. ASSUME NEW x \in Requests
          PROVE  /\ Makes(x, k)' <=> Makes(x, k)
                 /\ Makes(x, k)' => req'[x].left = req[x].left
      <4>1. x = r => ~Makes(x, k) /\ ~Makes(x, k)'
        BY <1>1, <1>c, <2>2 DEF Makes, Idle
      <4> QED BY <4>1 DEF Makes
    <3> QED BY <2>1, <3>1, <3>2, FollowsOn DEF AllFollow
  <2>4. Following(c)'
    <3>1. /\ clients'[c] # None /\ clients'[c].grants = GrantsOf(f.boxes)
          /\ clients'[c].pkce = f.pkce /\ form'[c] = f
      <4>1. clients'[c] = [app |-> req[r].app, grants |-> GrantsOf(f.boxes), pkce |-> f.pkce]
        BY <1>1, <1>c, <2>1 DEF TypeOK
      <4>2. clients'[c] \in Client
        <5>1. GrantsOf(f.boxes) \subseteq Grants /\ f.pkce \in BOOLEAN /\ req[r].app \in Apps
          BY <1>1, <1>c, FormsAssumption DEF GrantsOf, Grants, Making
        <5> QED BY <4>1, <5>1 DEF Client
      <4> QED BY <1>1, <1>c, <2>1, <4>1, <4>2, NoneAssumption DEF TypeOK
    <3>2. UrisOf(c)' = {}
      BY <1>1, <1>c, <1>3, <2>1 DEF AllFollow, Following, UrisOf
    <3>3. ASSUME NEW x \in Requests, Makes(x, c)'
          PROVE  x = r
      <4>1. ASSUME x # r PROVE FALSE
        BY <1>3, <3>3, <4>1 DEF Makes, AllGood, Good
      <4> QED BY <4>1
    <3>4. CASE f.uris = {}
      <4>1. \A x \in Requests : ~Makes(x, c)'
        BY <2>2, <3>3, <3>4 DEF Makes, Idle
      <4> QED BY <1>1, <1>c, <3>1, <3>2, <3>4, <4>1 DEF Following
    <3>5. CASE f.uris # {}
      <4>1. Makes(r, c)' /\ req'[r].left = f.uris
        BY <2>2, <3>5 DEF Makes
      <4> QED BY <1>1, <1>c, <3>1, <3>2, <3>3, <4>1 DEF Following
    <3> QED BY <3>4, <3>5
  <2> QED BY <2>3, <2>4 DEF AllFollow
<1> QED BY <1>2, <1>3

LEMMA InsertUriFollows ==
  ASSUME TypeOK, AllGood, AllFollow, NEW r \in Requests, InsertUri(r),
         \A x \in Requests \ {r} : req'[x] = req[x]
  PROVE  AllFollow'
<1>c. req[r] \in Making /\ req[r].pc = "uris"
  BY Kinds DEF InsertUri, TypeOK
<1>d. PICK c \in ClientIds : c = req[r].client
  BY <1>c DEF Making
<1>1. req[r] \in Making /\ req[r].pc = "uris" /\ req[r].client = c /\ Makes(r, c)
  BY <1>c, <1>d DEF Makes
<1>2. PICK u \in req[r].left : /\ uris' = uris \cup {<<c, u>>}
                               /\ MakingGoes(r, req[r].left \ {u})
  BY <1>d DEF InsertUri
<1>3. clients' = clients /\ form' = form /\ torn' = torn
  BY DEF InsertUri
<1>4. /\ req[r].left = {u} => req'[r] = Idle
      /\ req[r].left # {u} => /\ req'[r].pc = "uris" /\ req'[r].client = c
                              /\ req'[r].left = req[r].left \ {u}
  BY <1>1, <1>2 DEF MakingGoes, TypeOK, Making
<1>5. u \in Uris
  BY <1>1 DEF Making
<1>6. ASSUME NEW k \in ClientIds \ {c}
      PROVE  Following(k)'
  <2>1. UrisOf(k)' = UrisOf(k)
    BY <1>2 DEF UrisOf
  <2>2. ASSUME NEW x \in Requests
        PROVE  /\ Makes(x, k)' <=> Makes(x, k)
               /\ Makes(x, k)' => req'[x].left = req[x].left
    <3>1. x = r => ~Makes(x, k) /\ ~Makes(x, k)'
      BY <1>1, <1>4 DEF Makes, Idle
    <3> QED BY <3>1 DEF Makes
  <2> QED BY <1>3, <2>1, <2>2, FollowsOn DEF AllFollow
<1>7. Following(c)'
  <2>1. UrisOf(c)' = UrisOf(c) \cup {u}
    BY <1>2, <1>5 DEF UrisOf
  <2>2. \A x \in Requests : Makes(x, c)' => x = r
    BY <1>1 DEF AllFollow, Following, Makes
  <2>3. Following(c) /\ form[c] \in Forms /\ clients[c] # None
    <3>1. Following(c) /\ clients[c] # None
      BY <1>1 DEF AllFollow, AllGood, Good
    <3> QED BY <3>1 DEF Following
  <2>4. ASSUME c \notin torn
        PROVE  /\ clients[c].grants = GrantsOf(form[c].boxes) /\ clients[c].pkce = form[c].pkce
               /\ UrisOf(c) \cup req[r].left = form[c].uris
    BY <1>1, <2>3, <2>4 DEF Following
  <2>5. CASE req[r].left = {u}
    <3>1. \A x \in Requests : ~Makes(x, c)'
      BY <1>4, <2>2, <2>5 DEF Makes, Idle
    <3> QED BY <1>3, <2>1, <2>3, <2>4, <2>5, <3>1 DEF Following
  <2>6. CASE req[r].left # {u}
    <3>1. UrisOf(c)' \cup req'[r].left = UrisOf(c) \cup req[r].left /\ Makes(r, c)'
      BY <1>4, <2>1, <2>6 DEF Makes
    <3> QED BY <1>3, <2>2, <2>3, <2>4, <3>1 DEF Following
  <2> QED BY <2>5, <2>6
<1> QED BY <1>6, <1>7 DEF AllFollow

LEMMA EditClientFollows ==
  ASSUME TypeOK, AllGood, AllFollow, NEW r \in Requests, EditClient(r),
         \A x \in Requests \ {r} : req'[x] = req[x]
  PROVE  AllFollow'
<1>1. req[r].pc = "edit" /\ req[r] \in Editing
  BY Kinds DEF EditClient, TypeOK
<1>2. PICK c \in ClientIds, f \in Forms : c = req[r].client /\ f = req[r].form
  BY <1>1 DEF Editing
<1>3. /\ clients' = [clients EXCEPT ![c].grants = GrantsOf(f.boxes), ![c].pkce = f.pkce]
      /\ uris' = Replaced(c, f.uris) /\ form' = [form EXCEPT ![c] = f]
      /\ torn' = IF BeingMade(c) THEN torn \cup {c} ELSE torn
      /\ req'[r] = Idle
  BY <1>2 DEF EditClient, TypeOK
<1>4. clients[c] \in Client /\ f \in Form
  BY <1>1, <1>2, FormsAssumption DEF AllGood, Good, TypeOK
<1>5. \A x \in Requests : Makes(x, c)' <=> Makes(x, c)
  BY <1>1, <1>3 DEF Makes, Idle
<1>6. ASSUME NEW k \in ClientIds \ {c}
      PROVE  Following(k)'
  <2>1. clients'[k] = clients[k] /\ form'[k] = form[k] /\ (k \in torn' <=> k \in torn)
    BY <1>3 DEF TypeOK
  <2>2. UrisOf(k)' = UrisOf(k)
    BY <1>3 DEF UrisOf, Replaced
  <2>3. ASSUME NEW x \in Requests
        PROVE  /\ Makes(x, k)' <=> Makes(x, k)
               /\ Makes(x, k)' => req'[x].left = req[x].left
    BY <1>1, <1>3 DEF Makes, Idle
  <2> QED BY <1>3, <2>1, <2>2, <2>3, FollowsOn DEF AllFollow
<1>7. Following(c)'
  <2>1. /\ clients'[c] = [clients[c] EXCEPT !.grants = GrantsOf(f.boxes), !.pkce = f.pkce]
        /\ form'[c] = f
    BY <1>3 DEF TypeOK
  <2>2. /\ clients'[c].grants = GrantsOf(f.boxes) /\ clients'[c].pkce = f.pkce
        /\ clients'[c] # None
    <3>1. GrantsOf(f.boxes) \subseteq Grants
      BY <1>4 DEF GrantsOf, Grants
    <3>2. clients'[c] \in Client
      BY <1>4, <2>1, <3>1 DEF Client
    <3> QED BY <1>4, <2>1, <3>2, NoneAssumption DEF Client
  <2>3. UrisOf(c)' = f.uris
    BY <1>3, <1>4 DEF UrisOf, Replaced
  <2>4. \A r1, r2 \in Requests : Makes(r1, c)' /\ Makes(r2, c)' => r1 = r2
    BY <1>5 DEF AllFollow, Following
  <2>5. c \notin torn' => \A x \in Requests : ~Makes(x, c)'
    BY <1>3, <1>5 DEF Makes, BeingMade
  <2> QED BY <2>1, <2>2, <2>3, <2>4, <2>5 DEF Following
<1> QED BY <1>6, <1>7 DEF AllFollow

LEMMA FailFollows ==
  ASSUME TypeOK, AllFollow, NEW r \in Requests, Fail(r),
         \A x \in Requests \ {r} : req'[x] = req[x]
  PROVE  AllFollow'
<1>1. /\ req'[r] = Idle /\ UNCHANGED <<clients, uris, form>>
      /\ torn' = IF req[r].pc = "uris" THEN torn \cup {req[r].client} ELSE torn
  BY DEF Fail, TypeOK
<1>2. ASSUME NEW k \in ClientIds
      PROVE  Following(k)'
  <2>1. UrisOf(k)' = UrisOf(k) /\ torn \subseteq torn'
    BY <1>1 DEF UrisOf
  <2>2. ASSUME NEW x \in Requests
        PROVE  /\ Makes(x, k)' => Makes(x, k) /\ req'[x].left = req[x].left
               /\ k \notin torn' /\ Makes(x, k) => Makes(x, k)'
    BY <1>1 DEF Makes, Idle
  <2> QED BY <1>1, <2>1, <2>2, FollowsOn DEF AllFollow
<1> QED BY <1>2 DEF AllFollow

LEMMA GoesTo ==
  ASSUME TypeOK, NEW r \in Requests, NEW pc, Goes(r, pc),
         req[r].pc \in {"redirect", "consent", "code", "mint", "use"}
  PROVE  req'[r].pc = pc
<1>1. req[r] \in Asking \cup Issuing
  BY Kinds DEF TypeOK
<1> QED BY <1>1 DEF Goes, TypeOK, Asking, Issuing

LEMMA RequestFollows ==
  ASSUME TypeOK, Agree, AllGood, AllFollow, NEW r \in Requests, RequestStep(r)
  PROVE  AllFollow'
<1>1. Moves(r)
  BY RequestLeaves DEF Leaves
<1>2. \A x \in Requests \ {r} : req'[x] = req[x]
  BY <1>1 DEF Moves, TypeOK
<1>3. req' \in [Requests -> Request]
  BY <1>1 DEF Moves, TypeOK
<1>4. CASE InsertClient(r) \/ InsertUri(r) \/ EditClient(r) \/ Fail(r)
  BY <1>2, <1>3, <1>4, InsertClientFollows, InsertUriFollows, EditClientFollows, FailFollows
<1>5. ASSUME ~(InsertClient(r) \/ InsertUri(r) \/ EditClient(r) \/ Fail(r))
      PROVE  UNCHANGED setup /\ req[r].pc # "uris" /\ req'[r].pc # "uris"
  <2>1. ASSUME NEW q, q.pc # "uris", Begin(r, q), UNCHANGED setup
        PROVE  UNCHANGED setup /\ req[r].pc # "uris" /\ req'[r].pc # "uris"
    BY <2>1 DEF TypeOK, Idle
  <2>2. CASE Administer(r) \/ Ask(r) \/ Issue(r)
    BY <1>5, <2>1, <2>2 DEF Administer, PostClient, StartEdit, Ask, StartPassword, StartAuthorize,
       Issue, Exchange, Refresh, Unasked
  <2>3. CASE CheckRedirect(r) \/ InsertCode(r) \/ Mint(r) \/ Use(r)
    <3>1. UNCHANGED setup /\ req[r].pc # "uris"
      BY <2>3 DEF CheckRedirect, InsertCode, Mint, Use
    <3>2. Done(r) \/ \E pc \in {"consent", "use"} : Goes(r, pc)
      BY <2>3 DEF CheckRedirect, InsertCode, Mint, Use
    <3>3. req[r].pc \in {"redirect", "code", "mint", "use"}
      BY <2>3 DEF CheckRedirect, InsertCode, Mint, Use
    <3>4. req'[r].pc # "uris"
      BY <3>2, <3>3, GoesTo DEF TypeOK, Idle
    <3> QED BY <3>1, <3>4
  <2>4. CASE Consent(r)
    <3>1. UNCHANGED setup /\ req[r].pc = "consent"
      BY <2>4 DEF Consent
    <3>2. \/ Done(r) \/ Goes(r, "code")
          \/ req' = [req EXCEPT ![r] = [pc |-> "mint", client |-> req[r].client,
                                        user |-> req[r].user, asked |-> TRUE]]
      BY <2>4 DEF Consent
    <3>3. req'[r].pc # "uris"
      BY <3>1, <3>2, GoesTo DEF TypeOK, Idle
    <3> QED BY <3>1, <3>3
  <2> QED BY <1>5, <2>2, <2>3, <2>4 DEF RequestStep
<1> QED BY <1>2, <1>4, <1>5, OtherwiseFollows

LEMMA NextInvariant == IInv /\ [Next]_vars => IInv'
<1> SUFFICES ASSUME IInv, [Next]_vars
             PROVE  IInv'
  OBVIOUS
<1>1. TypeOK' /\ Agree' /\ AllGood'
  BY StepAgrees DEF IInv
<1>2. CASE \E r \in Requests : RequestStep(r)
  BY <1>1, <1>2, RequestFollows DEF IInv
<1>3. CASE OtherStep
  <2>1. UNCHANGED <<clients, req, uris, form, torn>>
    BY <1>3, OthersLeave DEF IInv
  <2>2. AllFollow'
    BY <2>1 DEF IInv, AllFollow, Following, Makes, UrisOf
  <2> QED BY <1>1, <2>2 DEF IInv
<1> QED BY <1>2, <1>3, StepIs
-----------------------------------------------------------------------------
\* The tables and the requests are well-formed, always: every permission has a list of
\* scopes, every client grants that exist, every token a principal that does.
THEOREM TypeCorrect == Spec => []TypeOK
<1>1. IInv => TypeOK
  BY DEF IInv
<1> QED BY <1>1, InitInvariant, NextInvariant, PTL DEF Spec

LEMMA PermissionsMatch == IInv => PermissionsMatchTokens
<1> SUFFICES ASSUME IInv
             PROVE  PermissionsMatchTokens
  OBVIOUS
<1>1. ASSUME NEW t \in tokens, t.asked
      PROVE  AppOf(t.client) \in AppsOf(t.user)
  <2>1. Consented(t.client, t.user, clients, perms)
    BY <1>1 DEF IInv, Agree, TokensAgree
  <2>2. t.client # None
    BY <2>1, NoneAssumption DEF Consented
  <2> QED BY <2>1, <2>2, AppOfRow DEF Consented, AppOf, AppsOf, IInv
<1>2. ASSUME NEW u \in Users, NEW a \in AppsOf(u), PermissionOf(u, a).used
      PROVE  \E k \in ClientIds : AppOf(k) = a /\ <<k, u>> \in issued
  <2>1. PICK k \in ClientIds : clients[k].app = a /\ <<k, u>> \in issued
    BY <1>2 DEF AppsOf, PermissionOf, IInv, Agree, UsesAgree
  <2> QED BY <2>1, NoneAssumption DEF AppOf
<1> QED BY <1>1, <1>2 DEF PermissionsMatchTokens

\* Whatever request fails between its statements, no token a user was asked for is
\* without its entry in the list of apps, and no app passes for used that is not.
THEOREM PermissionsFollowTokens == Spec => []PermissionsMatchTokens
BY InitInvariant, NextInvariant, PermissionsMatch, PTL DEF Spec

LEMMA ActiveListed == IInv => ActiveIsListed
<1> SUFFICES ASSUME IInv, NEW t \in tokens, NEW secret \in {"access", "refresh"},
                    NEW hint \in {"none", "access", "refresh"},
                    Introspect(t, secret, hint) = "active"
             PROVE  t \in ActiveTokens(t.user) /\ Expires(t, secret) > now
  BY DEF ActiveIsListed
<1>1. Recognized(t, secret, hint) = "found"
  BY DEF Introspect
<1>2. IF secret = "access" THEN ByAccess(t) = "found" ELSE ByRefresh(t) = "found"
  BY <1>1 DEF Recognized
<1>3. t.access \in Nat /\ t.refresh \in Nat /\ now \in Nat /\ t.access <= t.refresh
  BY DEF IInv, TypeOK, Agree, TokensAgree, Token
<1>4. CASE secret = "access"
  BY <1>2, <1>3, <1>4 DEF ByAccess, Expires, ActiveTokens
<1>5. CASE secret = "refresh"
  BY <1>2, <1>3, <1>5 DEF ByRefresh, Expires, ActiveTokens
<1> QED BY <1>4, <1>5

\* The answer of introspection and the list of sessions, which compare different
\* columns with the time, do not contradict each other.
THEOREM ActiveTokensAreListed == Spec => []ActiveIsListed
BY InitInvariant, NextInvariant, ActiveListed, PTL DEF Spec

\* Of two administrators who make and edit a client at once, the later form is what
\* the client does, both in its row and in its redirect URIs.
THEOREM ClientsFollowForms == Spec => []ClientMatchesForm
<1>1. IInv => ClientMatchesForm
  BY DEF IInv, AllFollow, Following, ClientMatchesForm, BeingMade, Makes
<1> QED BY <1>1, InitInvariant, NextInvariant, PTL DEF Spec
=============================================================================
