------------------------------ MODULE Accounts ------------------------------
(***************************************************************************)
(* Principals and what belongs to them: rows of principals, their          *)
(* identities, their passwords, and who is an administrator.  Made by      *)
(* registration (register/controller/user.ts) and by administrators (the   *)
(* controllers of user, app and group), changed with                       *)
(* PrincipalService.save(), listed page by page.                           *)
(*                                                                         *)
(* No handler uses a transaction here: a step of this module is one        *)
(* statement of one handler, and other handlers run in between.            *)
(*                                                                         *)
(* An administrator is a user with the privilege 'admin' on everything;    *)
(* Privileges models how privileges are found.  Nicknames and the profile  *)
(* of a user (user_info) are left out, and so is the password itself.      *)
(***************************************************************************)
EXTENDS Naturals, FiniteSets

CONSTANTS
  Requests,    \* handler slots: requests the server works on at once
  Uris,        \* spellings of identities that are sent to the server
  NoUri,       \* no identity is given
  Canon,       \* spelling -> what validateIdentityUri() makes of it, NoUri: refused
  Open,        \* the setting 'registration.enabled'
  Forms,       \* what administrators post to make a principal
  PageSize,    \* principals on a page of the list (100 in the code)
  MaxId        \* bound of the model: rows of principals

Ids == 1..MaxId
Kinds == {"user", "app", "group"}
AllUsers == 1  \* the group $all, which a migration makes

\* What is posted: with an identity or none, to be marked as verified or not, and a
\* password to be made for a user
Form == [kind : Kinds, uri : Uris \cup {NoUri}, password : {"good", "none"}, mark : BOOLEAN]

ASSUME UrisAssumption == NoUri \notin Uris /\ Canon \in [Uris -> Uris \cup {NoUri}]
ASSUME FormsAssumption ==
  /\ Forms \subseteq Form
  /\ \A f \in Forms : f.kind # "user" => f.password = "none"
ASSUME SizesAssumption == PageSize \in Nat \ {0} /\ MaxId \in Nat \ {0}
ASSUME OpenAssumption == Open \in BOOLEAN

VARIABLES
  last,         \* the greatest id in principals
  kind,         \* type of each row
  active,       \* its flag
  owner,        \* principal_identities: stored uri -> principal, 0: no row
  verified,     \* the uris with verified_at
  hasPassword,  \* the principals in user_passwords
  admins,       \* the users with 'admin' on '*'
  req,          \* what each slot holds between two statements
  broken        \* history: a set-up stopped half way

tables == <<last, kind, active, owner, verified, hasPassword, admins>>
vars == <<tables, req, broken>>

\* The rows of principals by their id, and who has which identity, 0: nobody
PrincipalRows == [Ids -> Kinds \cup {"none"}]
IdentityRows == [Uris -> Ids \cup {0}]

\* A principal is being made.  Everybody may register; administrators make the
\* others.  'first': the handler saw no users when it began.
Made(pcs, ids) ==
  [pc : pcs, how : {"register", "admin"}, kind : Kinds, uri : Uris \cup {NoUri},
   password : {"good", "bad", "none"}, mark : BOOLEAN, first : BOOLEAN, id : ids]
Making == Made({"look", "save"}, {0})
            \cup Made({"grant", "password", "identity", "made"}, Ids)
\* A row was read, to be written back.
Editing == [pc : {"edit"}, id : Ids, was : BOOLEAN, wants : {"on", "off", "as_read"}]
\* A reader follows the pages of the list of users.
Listing == [pc : {"count", "rows", "listed"}, page : Nat, total : Nat,
            want : SUBSET Ids, got : SUBSET Ids, shown : Nat]
Idle == [pc |-> "idle"]
Request == {Idle} \cup Making \cup Editing \cup Listing

MakingNow(r) == req[r].pc \in {"look", "save", "grant", "password", "identity", "made"}
Goes(r, pc) == req' = [req EXCEPT ![r].pc = pc]
Done(r) == req' = [req EXCEPT ![r] = Idle]

\* The handler stops; what it has written stays.
Abandon(r) ==
  /\ Done(r)
  /\ broken' = (broken \/ (MakingNow(r) /\ req[r].first /\ req[r].id # 0))
-----------------------------------------------------------------------------
(* Making principals                                                       *)

Users == {i \in Ids : kind[i] = "user"}

\* Mutant of HasUsers: any principal counts, the group $all too.
HasPrincipals == last > 0

\* Mutant of HasUsers: users who may not log in do not count.
HasActiveUsers == \E i \in Users : active[i]

HasUsers == Users # {}

\* POST /register.  (Two passwords that differ end it here.)
Register(r, uri, password) ==
  /\ req[r] = Idle /\ Open
  /\ req' = [req EXCEPT ![r] =
       [pc |-> "look", how |-> "register", kind |-> "user", uri |-> uri,
        password |-> password, mark |-> ~HasUsers, first |-> ~HasUsers, id |-> 0]]
  /\ UNCHANGED <<tables, broken>>

\* What the forms below have in common: a principal is looked for if there is an
\* identity, and made.  (Whoever may do that has the privilege from an administrator.)
Create(r, f) ==
  /\ req[r] = Idle /\ admins # {}
  /\ req' = [req EXCEPT ![r] =
       [pc |-> IF f.uri = NoUri THEN "save" ELSE "look", how |-> "admin", kind |-> f.kind,
        uri |-> f.uri, password |-> f.password, mark |-> f.mark, first |-> FALSE, id |-> 0]]
  /\ UNCHANGED <<tables, broken>>

\* POST /user: of any kind, with an identity, which may be marked as verified
PostUser(r, f) == f.uri # NoUri /\ f.password = "none" /\ Create(r, f)

\* POST /user/new: a password is made on request.
PostUserForm(r, f) == f.kind = "user" /\ Create(r, f)

\* POST /app
PostApp(r, f) == f.kind = "app" /\ ~f.mark /\ Create(r, f)

\* POST /app/new
PostAppForm(r, f) == f.kind = "app" /\ ~f.mark /\ Create(r, f)

\* POST /group: of any kind, without an identity
PostGroup(r, f) == f.uri = NoUri /\ f.password = "none" /\ Create(r, f)

\* POST /group/new
PostGroupForm(r, f) == f.kind = "group" /\ f.uri = NoUri /\ Create(r, f)

Post(r, f) ==
  \/ PostUser(r, f) \/ PostUserForm(r, f)
  \/ PostApp(r, f) \/ PostAppForm(r, f)
  \/ PostGroup(r, f) \/ PostGroupForm(r, f)

\* findByUri()
ByUri(uri) == owner[uri]

\* findByIdentity(): the uri as it is written
Look(r) ==
  /\ req[r].pc = "look"
  /\ IF ByUri(req[r].uri) # 0 THEN Done(r) ELSE Goes(r, "save")
  /\ UNCHANGED <<tables, broken>>

AfterSave(f) ==
  CASE f.first -> "grant"
    [] f.how = "register" /\ ~f.first -> "password"
    [] f.how = "admin" /\ f.uri # NoUri -> "identity"
    [] f.how = "admin" /\ f.uri = NoUri /\ f.password # "none" -> "password"
    [] OTHER -> "made"

\* save() of a principal without an id
Save(r) ==
  /\ req[r].pc = "save" /\ last < MaxId
  /\ last' = last + 1
  /\ kind' = [kind EXCEPT ![last'] = req[r].kind]
  /\ active' = [active EXCEPT ![last'] = TRUE]
  /\ req' = [req EXCEPT ![r].id = last', ![r].pc = AfterSave(req[r])]
  /\ UNCHANGED <<owner, verified, hasPassword, admins, broken>>

\* addPrivilegeForUser(user, 'admin', '*')
Grant(r) ==
  /\ req[r].pc = "grant"
  /\ admins' = admins \cup {req[r].id}
  /\ Goes(r, "password")
  /\ UNCHANGED <<last, kind, active, owner, verified, hasPassword, broken>>

\* assertValidPassword(): of 8 to 72 characters
Acceptable(password) == password = "good"

\* createPassword(): too short or too long a password throws, and so does the
\* insert when the user has a password by now.
Password(r) ==
  /\ req[r].pc = "password"
  /\ IF ~Acceptable(req[r].password) \/ req[r].id \in hasPassword
       THEN Abandon(r) /\ UNCHANGED tables
       ELSE /\ hasPassword' = hasPassword \cup {req[r].id}
            /\ Goes(r, IF req[r].how = "register" THEN "identity" ELSE "made")
            /\ UNCHANGED <<last, kind, active, owner, verified, admins, broken>>

\* Mutant of Insert: the row of the other principal is taken over.
InsertOver(uri, i, mark) ==
  /\ Canon[uri] # NoUri
  /\ owner' = [owner EXCEPT ![Canon[uri]] = i]
  /\ verified' = IF mark THEN verified \cup {Canon[uri]} ELSE verified

\* Mutant of Insert: a row that exists is left alone, and nobody is told.
InsertOrIgnore(uri, i, mark) ==
  /\ Canon[uri] # NoUri
  /\ owner' = [owner EXCEPT ![Canon[uri]] = IF @ = 0 THEN i ELSE @]
  /\ verified' = IF mark THEN verified \cup {Canon[uri]} ELSE verified

\* Mutant of Insert: the mark goes to the principal and not to the identity.
InsertMarksPrincipal(uri, i, mark) ==
  /\ Canon[uri] # NoUri /\ owner[Canon[uri]] = 0
  /\ owner' = [owner EXCEPT ![Canon[uri]] = i]
  /\ verified' = IF mark THEN verified \cup {i} ELSE verified

\* principalIdentity.create(): stores the canonical spelling, which is unique.
Insert(uri, i, mark) ==
  /\ Canon[uri] # NoUri /\ owner[Canon[uri]] = 0
  /\ owner' = [owner EXCEPT ![Canon[uri]] = i]
  /\ verified' = IF mark THEN verified \cup {Canon[uri]} ELSE verified

\* The same, refused or failing
Refused(uri) == Canon[uri] = NoUri \/ (Canon[uri] # NoUri /\ owner[Canon[uri]] # 0)

Identity(r) ==
  /\ req[r].pc = "identity"
  /\ \/ /\ Insert(req[r].uri, req[r].id, req[r].mark)
        /\ Goes(r, IF req[r].how = "admin" /\ req[r].password # "none"
                     THEN "password" ELSE "made")
        /\ UNCHANGED <<last, kind, active, hasPassword, admins, broken>>
     \/ /\ Refused(req[r].uri)
        /\ Abandon(r)
        /\ UNCHANGED tables

\* The answer is sent; or the handler stops for a reason of its own: a statement
\* that fails, a process that ends.
End(r) ==
  /\ req[r] # Idle
  /\ IF req[r].pc = "made" THEN Done(r) /\ UNCHANGED broken ELSE Abandon(r)
  /\ UNCHANGED tables
-----------------------------------------------------------------------------
(* Changing principals                                                     *)

\* findById()
Known(i) == kind[i] # "none"

\* findByExternalId(), of any type if none is asked for
Finds(i, type) == Known(i) /\ (type = "any" \/ kind[i] = type)

\* The row is read; it will be written back whole.
Edit(r, i, type, wants) ==
  /\ req[r] = Idle /\ admins # {}
  /\ Finds(i, type)
  /\ req' = [req EXCEPT ![r] = [pc |-> "edit", id |-> i, was |-> active[i], wants |-> wants]]
  /\ UNCHANGED <<tables, broken>>

\* PUT /user/:id as a form: nothing of the form is used.
PutUserForm(r, i) == Edit(r, i, "user", "as_read")

PutUser(r, i, on) == Edit(r, i, "user", on)

PutGroup(r, i, on) == Edit(r, i, "group", on)

PutApp(r, i, on) == Edit(r, i, "app", on)

\* POST /user/:id/edit, which takes the id of any principal
PostEdit(r, i, on) == Edit(r, i, "any", on)

\* Mutant of Written: what the form does not say is taken as yes.
WrittenByDefault(e) == e.wants # "off"

\* What save() writes into the column, whatever is there by now
Written(e) == IF e.wants = "as_read" THEN e.was ELSE e.wants = "on"

WriteBack(r) ==
  /\ req[r].pc = "edit"
  /\ active' = [active EXCEPT ![req[r].id] = Written(req[r])]
  /\ Done(r)
  /\ UNCHANGED <<last, kind, owner, verified, hasPassword, admins, broken>>

\* PUT /user/:id/password
PutPassword(i) ==
  /\ admins # {} /\ i \in Users
  /\ hasPassword' = hasPassword \cup {i}
  /\ UNCHANGED <<last, kind, active, owner, verified, admins, req, broken>>

\* POST /user/:id/identity, for oneself or by an administrator
AddIdentity(i, uri) ==
  /\ i \in Users
  /\ Insert(uri, i, FALSE)
  /\ UNCHANGED <<last, kind, active, hasPassword, admins, req, broken>>

\* markVerified(), when a code that was sent to the uri came back
MarkVerified(uri) ==
  /\ owner[uri] # 0
  /\ verified' = verified \cup {uri}
  /\ UNCHANGED <<last, kind, active, owner, hasPassword, admins, req, broken>>
-----------------------------------------------------------------------------
(* Listing users                                                           *)

\* GET /user, and then 'next' of each page
List(r) ==
  /\ req[r] = Idle /\ admins # {}
  /\ req' = [req EXCEPT ![r] =
       [pc |-> "count", page |-> 1, total |-> 0, want |-> Users, got |-> {}, shown |-> 0]]
  /\ UNCHANGED <<tables, broken>>

\* getPrincipalStats().user
UserCount == Cardinality(Users)

Count(r) ==
  /\ req[r].pc = "count"
  /\ req' = [req EXCEPT ![r].pc = "rows", ![r].total = UserCount]
  /\ UNCHANGED <<tables, broken>>

Offset(p) == (p - 1) * PageSize

\* LIMIT and OFFSET: so many rows there are on a page.
PageLength(p) ==
  IF UserCount <= Offset(p) THEN 0
  ELSE IF UserCount - Offset(p) < PageSize THEN UserCount - Offset(p)
  ELSE PageSize

\* Mutant of HasNext: the offset is the one of the next page.
HasNextAfterNext(p, total) == Offset(p + 1) + PageSize < total

HasNext(p, total) == Offset(p) + PageSize < total

\* The query has no ORDER BY: which rows are on a page is for the database to say,
\* and it need not say the same for two pages.
Rows(r) ==
  /\ req[r].pc = "rows"
  /\ \E rows \in SUBSET Users :
       /\ Cardinality(rows) = PageLength(req[r].page)
       /\ req' = [req EXCEPT ![r].got = @ \cup rows, ![r].shown = @ + Cardinality(rows),
            ![r].pc = IF HasNext(req[r].page, req[r].total) THEN "count" ELSE "listed",
            ![r].page = IF HasNext(req[r].page, req[r].total) THEN @ + 1 ELSE @]
  /\ UNCHANGED <<tables, broken>>
-----------------------------------------------------------------------------
Init ==
  /\ last = AllUsers
  /\ kind = [i \in Ids |-> IF i = AllUsers THEN "group" ELSE "none"]
  /\ active = [i \in Ids |-> i = AllUsers]
  /\ owner = [u \in Uris |-> 0]
  /\ verified = {} /\ hasPassword = {} /\ admins = {}
  /\ req = [r \in Requests |-> Idle]
  /\ broken = FALSE

Make(r) ==
  \/ \E uri \in Uris, password \in {"good", "bad"} : Register(r, uri, password)
  \/ \E f \in Forms : Post(r, f)
  \/ Look(r) \/ Save(r) \/ Grant(r) \/ Password(r) \/ Identity(r)

Change(r) ==
  \/ \E i \in Ids :
       \/ PutUserForm(r, i)
       \/ \E on \in {"on", "off"} :
            PutUser(r, i, on) \/ PutGroup(r, i, on) \/ PutApp(r, i, on) \/ PostEdit(r, i, on)
  \/ WriteBack(r)

Read(r) == List(r) \/ Count(r) \/ Rows(r)

Next ==
  \/ \E r \in Requests : Make(r) \/ Change(r) \/ Read(r) \/ End(r)
  \/ \E i \in Ids : PutPassword(i) \/ \E uri \in Uris : AddIdentity(i, uri)
  \/ \E uri \in Uris : MarkVerified(uri)

Spec == Init /\ [][Next]_vars
-----------------------------------------------------------------------------
(* Properties                                                              *)

TypeOK ==
  /\ last \in Ids
  /\ kind \in PrincipalRows /\ active \in [Ids -> BOOLEAN]
  /\ owner \in IdentityRows /\ verified \subseteq Uris
  /\ hasPassword \subseteq Ids /\ admins \subseteq Ids
  /\ req \in [Requests -> Request] /\ broken \in BOOLEAN

\* A set-up is under way: some handler saw no users, and has not answered.
SettingUp == \E r \in Requests : MakingNow(r) /\ req[r].first

MaySignIn(i) ==
  i \in hasPassword /\ \E uri \in verified : owner[uri] = i

\* Once the server has users there is an administrator among them who has a
\* password and a verified identity, unless the set-up stopped half way.
SetupLeavesAnAdmin ==
  Users # {} /\ ~SettingUp /\ ~broken => \E i \in admins : i \in Users /\ MaySignIn(i)

\* Set-up is over for good as soon as there are users and those who saw none have
\* their answers: it does not begin again, and nobody makes himself administrator.
SetupEnds == [][Users # {} /\ ~SettingUp => ~SettingUp' /\ admins' = admins]_vars

\* Whoever got a uri first keeps it, though all look before they insert.
UriKeepsItsOwner == [][\A uri \in Uris : owner[uri] # 0 => owner'[uri] = owner[uri]]_vars

\* A registration that is answered with success left a whole account: user,
\* password and identity belong together, and the first one is an administrator's.
SuccessIsComplete ==
  \A r \in Requests : req[r].pc = "made" /\ req[r].how = "register" =>
    /\ req[r].id \in Users \cap hasPassword
    /\ owner[Canon[req[r].uri]] = req[r].id
    /\ req[r].first => req[r].id \in admins /\ MaySignIn(req[r].id)

\* A principal that was switched off, and of which nobody holds an older copy, is
\* switched on only by a request that says so.
DeactivationLasts ==
  [][\A i \in Ids :
       /\ kind[i] # "none" /\ ~active[i] /\ active'[i]
       /\ \A r \in Requests : req[r].pc = "edit" /\ req[r].id = i => ~req[r].was
       => \E r \in Requests : req[r].pc = "edit" /\ req[r].id = i /\ req[r].wants = "on"]_vars

\* Who reads the list to its last page is shown as many rows as there were users when
\* the first page was asked for, whoever registers meanwhile; so, if nobody registers
\* and no user is shown twice, everybody.
ListIsLongEnough ==
  \A r \in Requests : req[r].pc = "listed" =>
    /\ Cardinality(req[r].want) <= req[r].shown
    /\ req[r].want = Users /\ Cardinality(req[r].got) = req[r].shown => req[r].got = Users
=============================================================================
