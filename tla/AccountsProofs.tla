--------------------------- MODULE AccountsProofs ---------------------------
(***************************************************************************)
(* Theorems about Accounts: set-up leaves an administrator and ends, a     *)
(* registration that succeeded is complete, a uri keeps its owner, a       *)
(* principal that was switched off stays so, and a list of users shows no  *)
(* fewer rows than there were users.                                       *)
(***************************************************************************)
EXTENDS Accounts, FiniteSetTheorems, TLAPS

AllAssumptions ==
  UrisAssumption /\ FormsAssumption /\ SizesAssumption /\ OpenAssumption

\* Names of sets and of a look-up, expanded wherever they occur
USE DEF Form, PrincipalRows, IdentityRows, ByUri, Acceptable

\* What follows from the assumptions, in the form the steps need
LEMMA Facts ==
  ASSUME AllAssumptions
  PROVE  /\ Ids \subseteq Nat \ {0} /\ AllUsers \in Ids /\ 0 \notin Ids
         /\ NoUri \notin Uris /\ PageSize \in Nat \ {0} /\ MaxId \in Nat \ {0}
         /\ \A uri \in Uris : Canon[uri] # NoUri => Canon[uri] \in Uris
         /\ IsFiniteSet(Ids)
<1>1. IsFiniteSet(1..MaxId)
  BY FS_Interval DEF AllAssumptions, SizesAssumption
<1>2. QED
  BY <1>1 DEF AllAssumptions, UrisAssumption, SizesAssumption, Ids, AllUsers

LEMMA AfterSaveIs ==
  ASSUME NEW f, f.first \in BOOLEAN, f.how \in {"register", "admin"},
         f.first => f.how = "register"
  PROVE  /\ f.first => AfterSave(f) = "grant"
         /\ f.how = "register" /\ ~f.first => AfterSave(f) = "password"
         /\ f.how = "admin" => AfterSave(f) \in {"identity", "password", "made"}
         /\ AfterSave(f) = "identity" => f.uri # NoUri
<1>1. CASE f.first
  BY <1>1 DEF AfterSave
<1>2. CASE f.how = "register" /\ ~f.first
  BY <1>2 DEF AfterSave
<1>3. CASE f.how = "admin" /\ f.uri # NoUri
  BY <1>3 DEF AfterSave
<1>4. CASE f.how = "admin" /\ f.uri = NoUri /\ f.password # "none"
  BY <1>4 DEF AfterSave
<1>5. CASE f.how = "admin" /\ f.uri = NoUri /\ f.password = "none"
  BY <1>5 DEF AfterSave
<1>6. QED
  BY <1>1, <1>2, <1>3, <1>4, <1>5
-----------------------------------------------------------------------------
(* Types of the slots                                                      *)

\* What holds of a principal in the making
MakingSound(q) ==
  /\ q.first => q.how = "register"
  /\ q.how = "register" => q.uri \in Uris /\ q.kind = "user" /\ q.mark = q.first
  /\ ~q.first => Users # {}
  /\ q.pc \in {"look", "identity"} => q.uri \in Uris
  /\ q.pc \in {"grant", "password", "identity", "made"} =>
       q.id <= last /\ (q.how = "register" => q.id \in Users)
  /\ q.pc = "grant" => q.first
  /\ q.pc \in {"password", "identity", "made"} /\ q.first => q.id \in admins
  /\ q.pc \in {"identity", "made"} /\ q.how = "register" => q.id \in hasPassword
  /\ q.pc = "made" /\ q.how = "register" =>
       /\ Canon[q.uri] \in Uris /\ owner[Canon[q.uri]] = q.id
       /\ q.first => Canon[q.uri] \in verified

\* What holds of a reader of the list
ListSound(q) ==
  /\ q.page \in Nat \ {0} /\ q.want \subseteq Users /\ q.got \subseteq Users
  /\ Cardinality(q.got) <= q.shown
  /\ q.pc \in {"count", "rows"} => q.shown = Offset(q.page)
  /\ q.pc = "rows" => Cardinality(q.want) <= q.total /\ q.total <= UserCount
  /\ q.pc = "listed" => Cardinality(q.want) <= q.shown

Sound(r) ==
  /\ MakingNow(r) => MakingSound(req[r])
  /\ req[r].pc \in {"count", "rows", "listed"} => ListSound(req[r])

LEMMA Parts ==
  ASSUME TypeOK, NEW r \in Requests
  PROVE  /\ MakingNow(r) => req[r] \in Making
         /\ req[r].pc = "edit" => req[r] \in Editing
         /\ req[r].pc \in {"count", "rows", "listed"} => req[r] \in Listing
  BY DEF TypeOK, MakingNow, Request, Making, Made, Editing, Listing, Idle

LEMMA DoneType ==
  ASSUME TypeOK, NEW r \in Requests, Done(r)
  PROVE  req' \in [Requests -> Request]
  BY DEF TypeOK, Done, Request

LEMMA GoesType ==
  ASSUME TypeOK, NEW r \in Requests, MakingNow(r),
         NEW pc \in {"grant", "password", "identity", "made"}, req[r].id \in Ids,
         Goes(r, pc)
  PROVE  req' \in [Requests -> Request]
<1>1. [req[r] EXCEPT !.pc = pc] \in Request
  BY Parts DEF Request, Making, Made
<1>2. QED
  BY <1>1 DEF Goes, TypeOK

LEMMA AbandonType ==
  ASSUME TypeOK, NEW r \in Requests, Abandon(r)
  PROVE  req' \in [Requests -> Request] /\ broken' \in BOOLEAN
<1>1. Done(r)
  BY DEF Abandon
<1>2. broken' \in BOOLEAN
  BY Zenon DEF Abandon
<1>3. QED
  BY <1>1, <1>2, DoneType

LEMMA InsertType ==
  ASSUME AllAssumptions, TypeOK, NEW uri \in Uris, NEW i \in Ids, NEW mark,
         Insert(uri, i, mark)
  PROVE  owner' \in [Uris -> Ids \cup {0}] /\ verified' \subseteq Uris
  BY Facts DEF TypeOK, Insert

LEMMA AfterSaveType ==
  ASSUME NEW f \in Making
  PROVE  AfterSave(f) \in {"grant", "password", "identity", "made"}
<1>1. CASE f.first /\ f.how = "admin"
  BY <1>1 DEF AfterSave
<1>2. CASE f.first => f.how = "register"
  BY <1>2, AfterSaveIs DEF Making, Made
<1>3. QED
  BY <1>1, <1>2 DEF Making, Made

\* A step of one slot that leaves the tables and the history alone
LEMMA QuietType ==
  ASSUME TypeOK, UNCHANGED <<tables, broken>>, req' \in [Requests -> Request]
  PROVE  TypeOK'
  BY DEF TypeOK, tables

LEMMA TypeInit ==
  ASSUME AllAssumptions, Init
  PROVE  TypeOK
  BY Facts DEF Init, TypeOK, Request, Kinds, AllUsers

LEMMA MakeType ==
  ASSUME AllAssumptions, TypeOK, NEW r \in Requests, Sound(r), Make(r)
  PROVE  TypeOK'
<1>1. ASSUME NEW uri \in Uris, NEW password \in {"good", "bad"}, Register(r, uri, password)
      PROVE  TypeOK'
  <2>1. HasUsers \in BOOLEAN
    BY DEF HasUsers
  <2>2. [pc |-> "look", how |-> "register", kind |-> "user", uri |-> uri,
         password |-> password, mark |-> ~HasUsers, first |-> ~HasUsers,
         id |-> 0] \in Request
    BY <2>1 DEF Request, Making, Made, Kinds
  <2>3. req' \in [Requests -> Request]
    BY <1>1, <2>2 DEF Register, TypeOK
  <2>4. QED
    BY <1>1, <2>3, QuietType DEF Register
<1>2. ASSUME NEW f \in Forms, Create(r, f)
      PROVE  TypeOK'
  <2>1. f \in [kind : Kinds, uri : Uris \cup {NoUri}, password : {"good", "none"},
               mark : BOOLEAN]
    BY DEF AllAssumptions, FormsAssumption
  <2>2. [pc |-> IF f.uri = NoUri THEN "save" ELSE "look", how |-> "admin", kind |-> f.kind,
         uri |-> f.uri, password |-> f.password, mark |-> f.mark, first |-> FALSE,
         id |-> 0] \in Request
    BY <2>1 DEF Request, Making, Made
  <2>3. req' \in [Requests -> Request]
    BY <1>2, <2>2 DEF Create, TypeOK
  <2>4. QED
    BY <1>2, <2>3, QuietType DEF Create
<1>3. CASE Look(r)
  <2>1. [req[r] EXCEPT !.pc = "save"] \in Request
    BY <1>3, Parts DEF Look, MakingNow, Request, Making, Made
  <2>2. req' \in [Requests -> Request]
    BY <1>3, <2>1, DoneType DEF Look, Goes, TypeOK
  <2>3. QED
    BY <1>3, <2>2, QuietType DEF Look
<1>4. CASE Save(r)
  <2>1. req[r] \in Making
        /\ AfterSave(req[r]) \in {"grant", "password", "identity", "made"}
    BY <1>4, Parts, AfterSaveType DEF Save, MakingNow
  <2>2. last' \in Ids /\ last' = last + 1
    BY <1>4 DEF Save, TypeOK, Ids, AllAssumptions, SizesAssumption
  <2>3. [req[r] EXCEPT !.id = last', !.pc = AfterSave(req[r])] \in Request
    BY <2>1, <2>2 DEF Request, Making, Made
  <2>4. req' \in [Requests -> Request]
    BY <1>4, <2>3 DEF Save, TypeOK
  <2>5. kind' \in [Ids -> Kinds \cup {"none"}] /\ active' \in [Ids -> BOOLEAN]
    BY <1>4, <2>1, <2>2 DEF Save, TypeOK, Making, Made
  <2>6. QED
    BY <1>4, <2>2, <2>4, <2>5 DEF Save, TypeOK
<1>5. CASE Grant(r)
  <2>1. MakingNow(r) /\ req[r].id \in Ids
    BY <1>5, Parts DEF Grant, MakingNow, Making, Made
  <2>2. req' \in [Requests -> Request]
    BY <1>5, <2>1, GoesType DEF Grant
  <2>3. QED
    BY <1>5, <2>1, <2>2 DEF Grant, TypeOK
<1>6. CASE Password(r)
  <2>1. MakingNow(r) /\ req[r].id \in Ids
    BY <1>6, Parts DEF Password, MakingNow, Making, Made
  <2>2. CASE Abandon(r) /\ UNCHANGED tables
    BY <2>2, AbandonType DEF tables, TypeOK
  <2>3. CASE /\ hasPassword' = hasPassword \cup {req[r].id}
             /\ Goes(r, IF req[r].how = "register" THEN "identity" ELSE "made")
             /\ UNCHANGED <<last, kind, active, owner, verified, admins, broken>>
    <3>1. req' \in [Requests -> Request]
      BY <2>1, <2>3, GoesType
    <3>2. QED
      BY <2>1, <2>3, <3>1 DEF TypeOK
  <2>4. QED
    BY <1>6, <2>2, <2>3 DEF Password
<1>7. CASE Identity(r)
  <2>1. MakingNow(r) /\ req[r].id \in Ids /\ req[r].uri \in Uris \cup {NoUri}
    BY <1>7, Parts DEF Identity, MakingNow, Making, Made
  <2>2. CASE Abandon(r) /\ UNCHANGED tables
    BY <2>2, AbandonType DEF tables, TypeOK
  <2>3. CASE /\ req[r].uri \in Uris
             /\ Insert(req[r].uri, req[r].id, req[r].mark)
             /\ Goes(r, IF req[r].how = "admin" /\ req[r].password # "none"
                          THEN "password" ELSE "made")
             /\ UNCHANGED <<last, kind, active, hasPassword, admins, broken>>
    <3>1. req' \in [Requests -> Request]
      BY <2>1, <2>3, GoesType
    <3>2. owner' \in [Uris -> Ids \cup {0}] /\ verified' \subseteq Uris
      <4>1. PICK m : m = req[r].mark
        OBVIOUS
      <4>2. QED
        BY <2>1, <2>3, InsertType
    <3>3. QED
      BY <2>3, <3>1, <3>2 DEF TypeOK
  <2>4. req[r].uri \in Uris
    BY <1>7, <2>1 DEF Identity, Sound, MakingSound
  <2>5. QED
    BY <1>7, <2>2, <2>3, <2>4 DEF Identity
<1>9. QED
  BY <1>1, <1>2, <1>3, <1>4, <1>5, <1>6, <1>7 DEF Make, Post, PostUser, PostUserForm,
     PostApp, PostAppForm, PostGroup, PostGroupForm

\* What Rows does with the slot, for the rows that are shown
RowsShown(r, rows) ==
  /\ Cardinality(rows) = PageLength(req[r].page)
  /\ req' = [req EXCEPT ![r].got = @ \cup rows, ![r].shown = @ + Cardinality(rows),
       ![r].pc = IF HasNext(req[r].page, req[r].total) THEN "count" ELSE "listed",
       ![r].page = IF HasNext(req[r].page, req[r].total) THEN @ + 1 ELSE @]

LEMMA UsersFinite ==
  ASSUME AllAssumptions
  PROVE  IsFiniteSet(Users) /\ Cardinality(Users) \in Nat
  BY Facts, FS_Subset, FS_CardinalityType DEF Users

LEMMA ShownIs ==
  ASSUME TypeOK, NEW r \in Requests, req[r] \in Listing, NEW rows \in SUBSET Users,
         RowsShown(r, rows)
  PROVE  /\ HasNext(req[r].page, req[r].total) =>
              req'[r] = [pc |-> "count", page |-> req[r].page + 1, total |-> req[r].total,
                         want |-> req[r].want, got |-> req[r].got \cup rows,
                         shown |-> req[r].shown + Cardinality(rows)]
         /\ ~HasNext(req[r].page, req[r].total) =>
              req'[r] = [pc |-> "listed", page |-> req[r].page, total |-> req[r].total,
                         want |-> req[r].want, got |-> req[r].got \cup rows,
                         shown |-> req[r].shown + Cardinality(rows)]
<1>1. ASSUME HasNext(req[r].page, req[r].total)
      PROVE  req'[r] = [req[r] EXCEPT !.got = @ \cup rows, !.shown = @ + Cardinality(rows),
                                      !.pc = "count", !.page = @ + 1]
  BY <1>1 DEF RowsShown, TypeOK
<1>2. ASSUME ~HasNext(req[r].page, req[r].total)
      PROVE  req'[r] = [req[r] EXCEPT !.got = @ \cup rows, !.shown = @ + Cardinality(rows),
                                      !.pc = "listed", !.page = @]
  BY <1>2 DEF RowsShown, TypeOK
<1>3. QED
  BY <1>1, <1>2 DEF Listing

LEMMA PcShown ==
  ASSUME TypeOK, NEW r \in Requests, req[r] \in Listing, NEW rows \in SUBSET Users,
         RowsShown(r, rows)
  PROVE  req'[r].pc \in {"count", "listed"}
  BY DEF RowsShown, TypeOK, Listing

LEMMA OthersType ==
  ASSUME AllAssumptions, TypeOK, NEW r \in Requests,
         Change(r) \/ Read(r) \/ End(r)
  PROVE  TypeOK'
<1>1. ASSUME NEW i \in Ids, NEW type, NEW wants \in {"on", "off", "as_read"},
              Edit(r, i, type, wants)
      PROVE  TypeOK'
  <2>1. req' \in [Requests -> Request]
    BY <1>1 DEF Edit, TypeOK, Request, Editing
  <2>2. QED
    BY <1>1, <2>1, QuietType DEF Edit
<1>2. CASE WriteBack(r)
  <2>1. req[r] \in Editing
    BY <1>2, Parts DEF WriteBack
  <2>2. Written(req[r]) \in BOOLEAN
    <3>1. CASE req[r].wants = "as_read"
      BY <2>1, <3>1 DEF Written, Editing
    <3>2. CASE req[r].wants # "as_read"
      BY Zenon, <3>2 DEF Written
    <3>3. QED
      BY <3>1, <3>2
  <2>3. active' \in [Ids -> BOOLEAN]
    BY <1>2, <2>1, <2>2 DEF WriteBack, TypeOK, Editing
  <2>4. req' \in [Requests -> Request]
    BY <1>2, DoneType DEF WriteBack
  <2>5. QED
    BY <1>2, <2>3, <2>4 DEF WriteBack, TypeOK
<1>3. CASE List(r)
  <2>1. req' \in [Requests -> Request]
    BY <1>3 DEF List, TypeOK, Request, Listing, Users
  <2>2. QED
    BY <1>3, <2>1, QuietType DEF List
<1>4. CASE Count(r)
  <2>1. Cardinality(Users) \in Nat
    BY Facts, FS_Subset, FS_CardinalityType DEF Users
  <2>2. req[r] \in Listing
    BY <1>4, Parts DEF Count, UserCount
  <2>3. [req[r] EXCEPT !.pc = "rows", !.total = Cardinality(Users)] \in Request
    BY <2>1, <2>2 DEF Listing, Request
  <2>4. req' \in [Requests -> Request]
    BY <1>4, <2>3 DEF Count, UserCount, TypeOK
  <2>5. QED
    BY <1>4, <2>4, QuietType DEF Count, UserCount
<1>5. CASE Rows(r)
  <2>1. req[r] \in Listing
    BY <1>5, Parts DEF Rows
  <2>2. PICK rows \in SUBSET Users : RowsShown(r, rows)
    BY <1>5 DEF Rows, RowsShown
  <2>3. Cardinality(rows) \in Nat /\ rows \subseteq Ids
    BY UsersFinite, FS_Subset, FS_CardinalityType DEF Users
  <2>4. req'[r] \in Listing
    <3>1. /\ req[r].page + 1 \in Nat /\ req[r].shown + Cardinality(rows) \in Nat
          /\ req[r].got \cup rows \in SUBSET Ids
      BY <2>1, <2>3 DEF Listing
    <3>2. HasNext(req[r].page, req[r].total) =>
            req'[r] = [pc |-> "count", page |-> req[r].page + 1, total |-> req[r].total,
                       want |-> req[r].want, got |-> req[r].got \cup rows,
                       shown |-> req[r].shown + Cardinality(rows)]
      BY <2>1, <2>2, ShownIs, Zenon
    <3>3. ~HasNext(req[r].page, req[r].total) =>
            req'[r] = [pc |-> "listed", page |-> req[r].page, total |-> req[r].total,
                       want |-> req[r].want, got |-> req[r].got \cup rows,
                       shown |-> req[r].shown + Cardinality(rows)]
      BY <2>1, <2>2, ShownIs, Zenon
    <3>4. QED
      BY <2>1, <3>1, <3>2, <3>3 DEF Listing
  <2>5. req' \in [Requests -> Request]
    BY <2>2, <2>4 DEF RowsShown, TypeOK, Request
  <2>6. QED
    BY <1>5, <2>5, QuietType DEF Rows
<1>6. CASE End(r)
  <2>1. UNCHANGED tables
    BY <1>6 DEF End
  <2>2. req' \in [Requests -> Request] /\ broken' \in BOOLEAN
    BY <1>6, DoneType, AbandonType DEF End, TypeOK
  <2>3. QED
    BY <2>1, <2>2 DEF tables, TypeOK
<1>7. QED
  BY <1>1, <1>2, <1>3, <1>4, <1>5, <1>6 DEF Change, PutUserForm, PutUser, PutGroup,
     PutApp, PostEdit, Read

LEMMA DirectType ==
  ASSUME AllAssumptions, TypeOK,
         \/ \E i \in Ids : PutPassword(i) \/ \E uri \in Uris : AddIdentity(i, uri)
         \/ \E uri \in Uris : MarkVerified(uri)
  PROVE  TypeOK'
<1>1. ASSUME NEW i \in Ids, PutPassword(i) PROVE TypeOK'
  BY <1>1 DEF PutPassword, TypeOK
<1>2. ASSUME NEW i \in Ids, NEW uri \in Uris, AddIdentity(i, uri) PROVE TypeOK'
  <2>1. owner' \in [Uris -> Ids \cup {0}] /\ verified' \subseteq Uris
    BY <1>2, InsertType DEF AddIdentity
  <2>2. QED
    BY <1>2, <2>1 DEF AddIdentity, TypeOK
<1>3. ASSUME NEW uri \in Uris, MarkVerified(uri) PROVE TypeOK'
  BY <1>3 DEF MarkVerified, TypeOK
<1>4. QED
  BY <1>1, <1>2, <1>3
-----------------------------------------------------------------------------
(* What only ever grows                                                    *)

RowsInOrder == \A i \in Ids : kind[i] = "none" <=> i > last

Grows ==
  /\ Users \subseteq Users' /\ hasPassword \subseteq hasPassword'
  /\ admins \subseteq admins' /\ verified \subseteq verified' /\ last <= last'
  /\ \A uri \in Uris : owner[uri] # 0 => owner'[uri] = owner[uri]
  /\ broken => broken'

LEMMA SameGrows ==
  ASSUME TypeOK, UNCHANGED <<last, kind>>, hasPassword \subseteq hasPassword',
         admins \subseteq admins', verified \subseteq verified', broken => broken',
         \A uri \in Uris : owner[uri] # 0 => owner'[uri] = owner[uri]
  PROVE  Grows
<1>1. last <= last'
  BY DEF TypeOK, Ids
<1>2. Users' = Users
  BY DEF Users
<1>3. QED
  BY <1>1, <1>2 DEF Grows

LEMMA InsertGrows ==
  ASSUME TypeOK, NEW uri \in Uris, NEW i, NEW mark, Insert(uri, i, mark)
  PROVE  /\ verified \subseteq verified'
         /\ \A u \in Uris : owner[u] # 0 => owner'[u] = owner[u]
  BY DEF TypeOK, Insert

LEMMA SaveGrows ==
  ASSUME AllAssumptions, TypeOK, RowsInOrder, NEW r \in Requests, Save(r)
  PROVE  /\ Grows /\ RowsInOrder'
         /\ Users' = IF req[r].kind = "user" THEN Users \cup {last'} ELSE Users
<1>1. /\ last \in Nat /\ last' = last + 1 /\ last' \in Ids /\ Ids \subseteq Nat
      /\ kind[last'] = "none" /\ kind' = [kind EXCEPT ![last'] = req[r].kind]
      /\ req[r].kind \in Kinds
  <2>1. req[r] \in Making
    BY Parts DEF Save, MakingNow
  <2>2. req[r].kind \in Kinds
    BY <2>1 DEF Making, Made
  <2>3. last \in Nat /\ last' = last + 1 /\ last' \in Ids /\ Ids \subseteq Nat
    BY DEF Save, TypeOK, Ids, AllAssumptions, SizesAssumption
  <2>4. QED
    BY <2>2, <2>3 DEF Save, RowsInOrder
<1>2. Users' = IF req[r].kind = "user" THEN Users \cup {last'} ELSE Users
  BY <1>1 DEF Users, TypeOK
<1>3. RowsInOrder'
  <2>1. SUFFICES ASSUME NEW i \in Ids PROVE kind'[i] = "none" <=> i > last'
    BY DEF RowsInOrder
  <2>2. CASE i = last'
    BY <1>1, <2>2 DEF TypeOK, Kinds
  <2>3. CASE i # last'
    BY <1>1, <2>3 DEF TypeOK, RowsInOrder
  <2>4. QED
    BY <2>2, <2>3
<1>4. QED
  BY <1>1, <1>2, <1>3 DEF Save, Grows
-----------------------------------------------------------------------------
(* The slots                                                               *)

LEMMA UsersLaterFinite ==
  ASSUME AllAssumptions
  PROVE  IsFiniteSet(Users') /\ Cardinality(Users') \in Nat
<1>1. Users' \subseteq Ids
  BY DEF Users
<1>2. QED
  BY <1>1, Facts, FS_Subset, FS_CardinalityType

LEMMA StaysSound ==
  ASSUME AllAssumptions, TypeOK, NEW r \in Requests, Sound(r), Grows, req'[r] = req[r],
         TypeOK'
  PROVE  Sound(r)'
<1>1. ASSUME MakingNow(r)
      PROVE  MakingSound(req[r])'
  <2>1. MakingSound(req[r]) /\ req[r] \in Making
    BY <1>1, Parts DEF Sound
  <2>2. req[r].id <= last => req[r].id <= last'
    <3>1. req[r].id \in Nat /\ last \in Nat /\ last' \in Nat
      BY <2>1, Facts DEF Making, Made, TypeOK
    <3>2. QED
      BY <3>1 DEF Grows
  <2>3. req[r].pc = "made" /\ req[r].how = "register" =>
          owner'[Canon[req[r].uri]] = req[r].id
    <3>1. SUFFICES ASSUME req[r].pc = "made", req[r].how = "register"
                   PROVE  owner'[Canon[req[r].uri]] = req[r].id
      OBVIOUS
    <3>2. req[r].id # 0
      BY <2>1, <3>1, Facts DEF Making, Made
    <3>3. QED
      BY <2>1, <3>1, <3>2 DEF MakingSound, Grows
  <2>4. QED
    BY <2>1, <2>2, <2>3 DEF MakingSound, Grows
<1>2. ASSUME req[r].pc \in {"count", "rows", "listed"}
      PROVE  ListSound(req[r])'
  <2>1. ListSound(req[r])
    BY <1>2 DEF Sound
  <2>2. UserCount <= UserCount' /\ UserCount \in Nat /\ UserCount' \in Nat
    BY UsersFinite, UsersLaterFinite, FS_Subset DEF Grows, UserCount
  <2>3. Offset(req[r].page)' = Offset(req[r].page) /\ req[r] \in Listing
    BY <1>2, Parts DEF Offset
  <2>4. req[r].total <= UserCount => req[r].total <= UserCount'
    BY <2>2, <2>3 DEF Listing
  <2>5. QED
    BY <2>1, <2>3, <2>4 DEF ListSound, Grows
<1>3. QED
  BY <1>1, <1>2 DEF Sound, MakingNow

LEMMA IdleSound ==
  ASSUME NEW r \in Requests, req'[r].pc \in {"idle", "edit"}
  PROVE  Sound(r)'
  BY DEF Sound, MakingNow

\* A slot that makes a principal goes on; here is where it was and where it is.
LEMMA MakeSound ==
  ASSUME AllAssumptions, TypeOK, TypeOK', RowsInOrder, admins \subseteq Users,
         NEW r \in Requests, Sound(r), Make(r)
  PROVE  Sound(r)'
<1>0. Done(r) => Sound(r)'
  BY IdleSound DEF Done, Idle, TypeOK
<1>1. ASSUME NEW uri \in Uris, NEW password \in {"good", "bad"}, Register(r, uri, password)
      PROVE  Sound(r)'
  <2>1. /\ req'[r] = [pc |-> "look", how |-> "register", kind |-> "user", uri |-> uri,
                      password |-> password, mark |-> ~HasUsers, first |-> ~HasUsers,
                      id |-> 0]
        /\ Users' = Users
    BY <1>1 DEF Register, TypeOK, tables, Users
  <2>2. PICK h \in BOOLEAN : h = ~HasUsers
    BY DEF HasUsers
  <2>3. /\ req'[r].pc = "look" /\ req'[r].how = "register" /\ req'[r].kind = "user"
        /\ req'[r].uri = uri /\ req'[r].mark = h /\ req'[r].first = h
    BY <2>1, <2>2
  <2>4. ~h => Users # {}
    BY <2>2 DEF HasUsers
  <2>5. QED
    BY <2>1, <2>3, <2>4 DEF Sound, MakingNow, MakingSound
<1>2. ASSUME NEW f \in Forms, Create(r, f)
      PROVE  Sound(r)'
  <2>1. /\ req'[r] = [pc |-> IF f.uri = NoUri THEN "save" ELSE "look", how |-> "admin",
                      kind |-> f.kind, uri |-> f.uri, password |-> f.password,
                      mark |-> f.mark, first |-> FALSE, id |-> 0]
        /\ Users' = Users /\ Users # {}
    BY <1>2 DEF Create, TypeOK, tables, Users
  <2>2. f.uri \in Uris \cup {NoUri}
    BY DEF AllAssumptions, FormsAssumption
  <2>3. QED
    BY <2>1, <2>2 DEF Sound, MakingNow, MakingSound
<1>3. CASE Look(r)
  <2>1. MakingSound(req[r]) /\ req[r] \in Making
    BY <1>3, Parts DEF Look, Sound, MakingNow
  <2>2. CASE Goes(r, "save")
    <3>1. req'[r] = [req[r] EXCEPT !.pc = "save"] /\ Users' = Users
      BY <1>3, <2>2 DEF Look, Goes, TypeOK, tables, Users
    <3>2. /\ req'[r].pc = "save" /\ req'[r].how = req[r].how /\ req'[r].first = req[r].first
          /\ req'[r].kind = req[r].kind /\ req'[r].uri = req[r].uri /\ req'[r].mark = req[r].mark
      BY <2>1, <3>1 DEF Making, Made
    <3>3. QED
      BY <2>1, <3>1, <3>2 DEF Sound, MakingNow, MakingSound
  <2>3. QED
    BY <1>0, <1>3, <2>2 DEF Look
<1>4. CASE Save(r)
  <2>1. MakingSound(req[r]) /\ req[r] \in Making
    BY <1>4, Parts DEF Save, Sound, MakingNow
  <2>2. /\ req'[r] = [req[r] EXCEPT !.id = last', !.pc = AfterSave(req[r])]
        /\ last' \in Nat
    BY <1>4, Facts DEF Save, TypeOK
  <2>3. /\ req'[r].pc = AfterSave(req[r]) /\ req'[r].how = req[r].how
        /\ req'[r].first = req[r].first /\ req'[r].kind = req[r].kind
        /\ req'[r].uri = req[r].uri /\ req'[r].mark = req[r].mark /\ req'[r].id = last'
    BY <2>1, <2>2 DEF Making, Made
  <2>4. Users \subseteq Users' /\ (req[r].kind = "user" => last' \in Users')
    BY <1>4, SaveGrows
  <2>5. /\ req[r].first => AfterSave(req[r]) = "grant"
        /\ req[r].how = "register" /\ ~req[r].first => AfterSave(req[r]) = "password"
        /\ req[r].how = "admin" => AfterSave(req[r]) \in {"identity", "password", "made"}
        /\ AfterSave(req[r]) = "identity" => req[r].uri # NoUri
        /\ req[r].how \in {"register", "admin"} /\ req[r].uri \in Uris \cup {NoUri}
    BY <2>1, AfterSaveIs DEF Making, Made, MakingSound
  <2>6. MakingSound(req[r])'
    BY <2>1, <2>2, <2>3, <2>4, <2>5 DEF MakingSound
  <2>7. QED
    BY <2>3, <2>5, <2>6 DEF Sound, MakingNow
<1>5. CASE Grant(r)
  <2>1. MakingSound(req[r]) /\ req[r] \in Making
    BY <1>5, Parts DEF Grant, Sound, MakingNow
  <2>2. /\ req'[r] = [req[r] EXCEPT !.pc = "password"] /\ Users' = Users
        /\ last' = last /\ admins' = admins \cup {req[r].id}
    BY <1>5 DEF Grant, Goes, TypeOK, Users
  <2>3. /\ req'[r].pc = "password" /\ req'[r].how = req[r].how
        /\ req'[r].first = req[r].first /\ req'[r].kind = req[r].kind
        /\ req'[r].uri = req[r].uri /\ req'[r].mark = req[r].mark /\ req'[r].id = req[r].id
    BY <2>1, <2>2 DEF Making, Made
  <2>4. MakingSound(req[r])'
    BY <1>5, <2>1, <2>2, <2>3 DEF MakingSound, Grant
  <2>5. QED
    BY <2>3, <2>4 DEF Sound, MakingNow
<1>6. CASE Password(r)
  <2>1. MakingSound(req[r]) /\ req[r] \in Making
    BY <1>6, Parts DEF Password, Sound, MakingNow
  <2>2. CASE /\ hasPassword' = hasPassword \cup {req[r].id}
             /\ Goes(r, IF req[r].how = "register" THEN "identity" ELSE "made")
             /\ UNCHANGED <<last, kind, active, owner, verified, admins, broken>>
    <3>1. /\ req'[r] = [req[r] EXCEPT !.pc =
                          IF req[r].how = "register" THEN "identity" ELSE "made"]
          /\ Users' = Users
      BY <2>2 DEF Goes, TypeOK, Users
    <3>2. /\ req'[r].pc = (IF req[r].how = "register" THEN "identity" ELSE "made")
          /\ req'[r].how = req[r].how
          /\ req'[r].first = req[r].first /\ req'[r].kind = req[r].kind
          /\ req'[r].uri = req[r].uri /\ req'[r].mark = req[r].mark /\ req'[r].id = req[r].id
      BY <2>1, <3>1 DEF Making, Made
    <3>3. MakingSound(req[r])'
      BY <1>6, <2>1, <2>2, <3>1, <3>2 DEF MakingSound, Password
    <3>4. QED
      BY <3>2, <3>3 DEF Sound, MakingNow
  <2>3. QED
    BY <1>0, <1>6, <2>2 DEF Password, Abandon
<1>7. CASE Identity(r)
  <2>1. MakingSound(req[r]) /\ req[r] \in Making
    BY <1>7, Parts DEF Identity, Sound, MakingNow
  <2>2. CASE /\ Insert(req[r].uri, req[r].id, req[r].mark)
             /\ Goes(r, IF req[r].how = "admin" /\ req[r].password # "none"
                          THEN "password" ELSE "made")
             /\ UNCHANGED <<last, kind, active, hasPassword, admins, broken>>
    <3>1. /\ req'[r] = [req[r] EXCEPT !.pc =
               IF req[r].how = "admin" /\ req[r].password # "none" THEN "password" ELSE "made"]
          /\ Users' = Users
      BY <2>2 DEF Goes, TypeOK, Users
    <3>2. /\ req'[r].pc = (IF req[r].how = "admin" /\ req[r].password # "none"
                             THEN "password" ELSE "made")
          /\ req'[r].how = req[r].how
          /\ req'[r].first = req[r].first /\ req'[r].kind = req[r].kind
          /\ req'[r].uri = req[r].uri /\ req'[r].mark = req[r].mark /\ req'[r].id = req[r].id
      BY <2>1, <3>1 DEF Making, Made
    <3>3. /\ Canon[req[r].uri] \in Uris /\ owner'[Canon[req[r].uri]] = req[r].id
          /\ req[r].mark => Canon[req[r].uri] \in verified'
      BY <1>7, <2>1, <2>2, Facts DEF Identity, Insert, TypeOK, MakingSound
    <3>4. MakingSound(req[r])'
      BY <1>7, <2>1, <2>2, <3>1, <3>2, <3>3 DEF MakingSound, Identity
    <3>5. QED
      BY <3>2, <3>4 DEF Sound, MakingNow
  <2>3. QED
    BY <1>0, <1>7, <2>2 DEF Identity, Abandon
<1>8. QED
  BY <1>1, <1>2, <1>3, <1>4, <1>5, <1>6, <1>7 DEF Make, Post, PostUser, PostUserForm,
     PostApp, PostAppForm, PostGroup, PostGroupForm

LEMMA Offsets ==
  ASSUME AllAssumptions, NEW p \in Nat \ {0}
  PROVE  /\ Offset(p) \in Nat /\ Offset(p + 1) = Offset(p) + PageSize
         /\ PageSize \in Nat \ {0} /\ Offset(1) = 0
<1>1. PICK q \in Nat : q = p - 1
  OBVIOUS
<1>2. PageSize \in Nat \ {0} /\ (p + 1) - 1 = q + 1
  BY <1>1, Facts
<1>3. (q + 1) * PageSize = q * PageSize + PageSize /\ q * PageSize \in Nat
  BY <1>2
<1>4. (1 - 1) * PageSize = 0
  BY <1>2
<1>5. QED
  BY <1>1, <1>2, <1>3, <1>4 DEF Offset

\* A page that is followed by another is full; after the last one there were rows for
\* all who were counted.
LEMMA PageLengths ==
  ASSUME AllAssumptions, NEW p \in Nat \ {0}, NEW total \in Nat, total <= UserCount
  PROVE  /\ PageLength(p) \in Nat
         /\ HasNext(p, total) => PageLength(p) = PageSize
         /\ ~HasNext(p, total) => total <= Offset(p) + PageLength(p)
  BY UsersFinite, Offsets DEF PageLength, HasNext, UserCount

\* A reader goes on.
LEMMA ReadSound ==
  ASSUME AllAssumptions, TypeOK, TypeOK', NEW r \in Requests, Sound(r), Read(r)
  PROVE  Sound(r)'
<1>0. Users' = Users /\ UserCount' = UserCount
  <2>1. UNCHANGED tables
    BY DEF Read, List, Count, Rows
  <2>2. QED
    BY <2>1 DEF tables, Users, UserCount
<1>1. CASE List(r)
  <2>1. req'[r] = [pc |-> "count", page |-> 1, total |-> 0, want |-> Users, got |-> {},
                   shown |-> 0]
    BY <1>1 DEF List, TypeOK
  <2>2. Offset(1) = 0 /\ Cardinality({}) = 0
    BY Offsets, FS_EmptySet
  <2>3. ListSound(req[r])'
    <3>1. Offset(req[r].page)' = 0
      BY <2>1, <2>2 DEF Offset
    <3>2. QED
      BY <1>0, <2>1, <2>2, <3>1 DEF ListSound
  <2>4. QED
    BY <2>1, <2>3 DEF Sound, MakingNow
<1>2. CASE Count(r)
  <2>1. ListSound(req[r]) /\ req[r] \in Listing /\ req[r].pc = "count"
    BY <1>2, Parts DEF Count, Sound
  <2>2. req'[r] = [req[r] EXCEPT !.pc = "rows", !.total = UserCount]
    BY <1>2 DEF Count, TypeOK
  <2>3. /\ req'[r].pc = "rows" /\ req'[r].total = UserCount
        /\ req'[r].page = req[r].page /\ req'[r].want = req[r].want
        /\ req'[r].got = req[r].got /\ req'[r].shown = req[r].shown
    BY <2>1, <2>2 DEF Listing
  <2>4. Cardinality(req[r].want) <= UserCount /\ UserCount <= UserCount
    BY <2>1, UsersFinite, FS_Subset DEF ListSound, UserCount
  <2>5. Offset(req[r].page)' = Offset(req[r].page)
    BY <2>3 DEF Offset
  <2>6. ListSound(req[r])'
    BY <1>0, <2>1, <2>3, <2>4, <2>5 DEF ListSound
  <2>7. QED
    BY <2>3, <2>6 DEF Sound, MakingNow
<1>3. CASE Rows(r)
  <2>1. ListSound(req[r]) /\ req[r] \in Listing /\ req[r].pc = "rows"
    BY <1>3, Parts DEF Rows, Sound
  <2>2. PICK rows \in SUBSET Users : RowsShown(r, rows)
    BY <1>3 DEF Rows, RowsShown
  <2>3. PICK p \in Nat \ {0} : p = req[r].page
    BY <2>1 DEF ListSound
  <2>4. PICK total \in Nat : total = req[r].total
    BY <2>1 DEF Listing
  <2>5. PICK got : got = req[r].got \cup rows
    OBVIOUS
  <2>6. PICK shown \in Nat : shown = req[r].shown
    BY <2>1 DEF Listing
  <2>7. PICK n \in Nat : n = Cardinality(rows)
    BY UsersFinite, FS_Subset, FS_CardinalityType
  <2>8. got \subseteq Users /\ Cardinality(got) <= shown + n
    <3>1. /\ IsFiniteSet(req[r].got) /\ IsFiniteSet(rows)
          /\ IsFiniteSet(req[r].got \cap rows) /\ req[r].got \subseteq Users
      BY <2>1, UsersFinite, FS_Subset DEF ListSound
    <3>2. /\ Cardinality(got) = Cardinality(req[r].got) + n - Cardinality(req[r].got \cap rows)
          /\ Cardinality(req[r].got) \in Nat /\ Cardinality(req[r].got \cap rows) \in Nat
      BY <2>5, <2>7, <3>1, FS_Union, FS_CardinalityType
    <3>3. Cardinality(req[r].got) <= shown
      BY <2>1, <2>6 DEF ListSound
    <3>4. QED
      BY <2>5, <3>1, <3>2, <3>3
  <2>9. /\ shown = Offset(p) /\ total <= UserCount /\ n = PageLength(p)
        /\ Cardinality(req[r].want) <= total /\ Cardinality(req[r].want) \in Nat
    BY <2>1, <2>2, <2>3, <2>4, <2>6, <2>7, UsersFinite, FS_Subset, FS_CardinalityType
       DEF ListSound, RowsShown
  <2>10. /\ HasNext(p, total) => n = PageSize
         /\ ~HasNext(p, total) => total <= Offset(p) + n
    BY <2>9, PageLengths
  <2>11. /\ HasNext(p, total) =>
              req'[r] = [pc |-> "count", page |-> p + 1, total |-> total,
                         want |-> req[r].want, got |-> got, shown |-> shown + n]
         /\ ~HasNext(p, total) =>
              req'[r] = [pc |-> "listed", page |-> p, total |-> total,
                         want |-> req[r].want, got |-> got, shown |-> shown + n]
    BY <2>1, <2>2, <2>3, <2>4, <2>5, <2>6, <2>7, ShownIs
  <2>12. CASE HasNext(p, total)
    <3>1. req'[r] = [pc |-> "count", page |-> p + 1, total |-> total,
                     want |-> req[r].want, got |-> got, shown |-> shown + n]
      BY <2>11, <2>12
    <3>2. Offset(req[r].page)' = shown + n
      BY <2>9, <2>10, <2>12, <3>1, Offsets DEF Offset
    <3>3. ListSound(req[r])'
      BY <1>0, <2>1, <2>8, <3>1, <3>2 DEF ListSound
    <3>4. QED
      BY <3>1, <3>3 DEF Sound, MakingNow
  <2>13. CASE ~HasNext(p, total)
    <3>1. req'[r] = [pc |-> "listed", page |-> p, total |-> total,
                     want |-> req[r].want, got |-> got, shown |-> shown + n]
      BY <2>11, <2>13
    <3>2. Cardinality(req[r].want) <= shown + n
      BY <2>9, <2>10, <2>13, Offsets
    <3>3. ListSound(req[r])'
      BY <1>0, <2>1, <2>8, <3>1, <3>2 DEF ListSound
    <3>4. QED
      BY <3>1, <3>3 DEF Sound, MakingNow
  <2>14. QED
    BY <2>12, <2>13
<1>4. QED
  BY <1>1, <1>2, <1>3 DEF Read
-----------------------------------------------------------------------------
(* The invariant                                                           *)

Pending(r) == MakingNow(r) /\ req[r].first /\ req[r].id # 0

SomeAdmin == \E i \in admins : MaySignIn(i)

\* SetupLeavesAnAdmin, made inductive: what is pending is past its first statement
SetUp == Users # {} /\ ~broken => SomeAdmin \/ \E r \in Requests : Pending(r)

IInv ==
  /\ TypeOK /\ RowsInOrder /\ admins \subseteq Users
  /\ \A r \in Requests : Sound(r)
  /\ SetUp

LEMMA OneSlot ==
  ASSUME TypeOK, NEW r \in Requests, Make(r) \/ Change(r) \/ Read(r) \/ End(r)
  PROVE  \A s \in Requests : s # r => req'[s] = req[s]
  BY DEF TypeOK, Make, Post, PostUser, PostUserForm, PostApp, PostAppForm, PostGroup, PostGroupForm,
     Change, PutUserForm, PutUser, PutGroup, PutApp, PostEdit, Read, Register, Create,
     Look, Save, Grant, Password,
         Identity, End, Edit, WriteBack, List, Count, UserCount, Rows, Goes, Done, Abandon

LEMMA MakeGrows ==
  ASSUME AllAssumptions, TypeOK, RowsInOrder, NEW r \in Requests, Sound(r),
         admins \subseteq Users, Make(r)
  PROVE  Grows /\ RowsInOrder' /\ admins' \subseteq Users'
<1>0. UNCHANGED <<last, kind>> => Users' = Users /\ (RowsInOrder => RowsInOrder')
  BY DEF Users, RowsInOrder
<1>1. ASSUME UNCHANGED <<tables, broken>>
      PROVE  Grows /\ RowsInOrder' /\ admins' \subseteq Users'
  BY <1>0, <1>1, SameGrows DEF tables
<1>2. ASSUME Abandon(r), UNCHANGED tables
      PROVE  Grows /\ RowsInOrder' /\ admins' \subseteq Users'
  <2>1. broken => broken'
    BY <1>2, Zenon DEF Abandon
  <2>2. UNCHANGED <<last, kind, active, owner, verified, hasPassword, admins>>
    BY <1>2 DEF tables
  <2>3. Grows
    BY <2>1, <2>2, SameGrows
  <2>4. QED
    BY <1>0, <2>2, <2>3
<1>3. ASSUME NEW uri \in Uris, NEW password \in {"good", "bad"}, Register(r, uri, password)
      PROVE  Grows /\ RowsInOrder' /\ admins' \subseteq Users'
  BY <1>1, <1>3 DEF Register
<1>4. ASSUME NEW f \in Forms, Create(r, f)
      PROVE  Grows /\ RowsInOrder' /\ admins' \subseteq Users'
  BY <1>1, <1>4 DEF Create
<1>5. CASE Look(r)
  BY <1>1, <1>5 DEF Look
<1>6. CASE Save(r)
  <2>1. Grows /\ RowsInOrder'
    BY <1>6, SaveGrows
  <2>2. QED
    BY <1>6, <2>1 DEF Save, Grows
<1>7. CASE Grant(r)
  <2>1. req[r].id \in Users
    BY <1>7, Parts DEF Grant, Sound, MakingNow, MakingSound
  <2>2. Grows
    BY <1>7, SameGrows DEF Grant
  <2>3. QED
    BY <1>0, <1>7, <2>1, <2>2 DEF Grant
<1>8. CASE Password(r)
  <2>1. CASE /\ hasPassword' = hasPassword \cup {req[r].id}
             /\ UNCHANGED <<last, kind, active, owner, verified, admins, broken>>
    <3>1. Grows
      BY <2>1, SameGrows
    <3>2. QED
      BY <1>0, <2>1, <3>1
  <2>2. QED
    BY <1>2, <1>8, <2>1 DEF Password
<1>9. CASE Identity(r)
  <2>1. req[r].uri \in Uris
    BY <1>9, Parts DEF Identity, Sound, MakingNow, MakingSound
  <2>2. CASE /\ Insert(req[r].uri, req[r].id, req[r].mark)
             /\ UNCHANGED <<last, kind, active, hasPassword, admins, broken>>
    <3>1. PICK uri \in Uris : uri = req[r].uri
      BY <2>1
    <3>2. PICK i, mark : i = req[r].id /\ mark = req[r].mark
      OBVIOUS
    <3>3. Insert(uri, i, mark)
      BY <2>2, <3>1, <3>2
    <3>4. Grows
      BY <2>2, <3>3, InsertGrows, SameGrows
    <3>5. QED
      BY <1>0, <2>2, <3>4
  <2>3. QED
    BY <1>2, <1>9, <2>2 DEF Identity
<1>10. QED
  BY <1>3, <1>4, <1>5, <1>6, <1>7, <1>8, <1>9 DEF Make, Post, PostUser, PostUserForm,
     PostApp, PostAppForm, PostGroup, PostGroupForm

LEMMA OthersGrow ==
  ASSUME TypeOK, RowsInOrder, admins \subseteq Users,
         \/ \E r \in Requests : Change(r) \/ Read(r) \/ End(r)
         \/ \E i \in Ids : PutPassword(i) \/ \E uri \in Uris : AddIdentity(i, uri)
         \/ \E uri \in Uris : MarkVerified(uri)
         \/ UNCHANGED vars
  PROVE  Grows /\ RowsInOrder' /\ admins' \subseteq Users' /\ Users' = Users
<1>1. UNCHANGED <<last, kind, admins>> => Users' = Users /\ RowsInOrder' /\ admins' \subseteq Users'
  BY DEF Users, RowsInOrder
<1>2. ASSUME NEW r \in Requests, Change(r) \/ Read(r) \/ End(r)
      PROVE  Grows /\ UNCHANGED <<last, kind, admins>>
  <2>1. UNCHANGED <<last, kind, owner, verified, hasPassword, admins>>
    BY <1>2 DEF Change, PutUserForm, PutUser, PutGroup, PutApp, PostEdit, Read, End,
       Edit, WriteBack, List, Count, UserCount, Rows, tables
  <2>2. broken => broken'
    <3>1. CASE Change(r) \/ Read(r)
      BY <3>1 DEF Change, PutUserForm, PutUser, PutGroup, PutApp, PostEdit, Read, Edit,
         WriteBack, List, Count, UserCount, Rows
    <3>2. CASE End(r)
      BY <3>2, Zenon DEF End, Abandon
    <3>3. QED
      BY <1>2, <3>1, <3>2
  <2>3. QED
    BY <2>1, <2>2, SameGrows
<1>3. ASSUME NEW i \in Ids, PutPassword(i)
      PROVE  Grows /\ UNCHANGED <<last, kind, admins>>
  BY <1>3, SameGrows DEF PutPassword
<1>4. ASSUME NEW i \in Ids, NEW uri \in Uris, AddIdentity(i, uri)
      PROVE  Grows /\ UNCHANGED <<last, kind, admins>>
  BY <1>4, InsertGrows, SameGrows DEF AddIdentity
<1>5. ASSUME NEW uri \in Uris, MarkVerified(uri)
      PROVE  Grows /\ UNCHANGED <<last, kind, admins>>
  BY <1>5, SameGrows DEF MarkVerified
<1>6. CASE UNCHANGED vars
  BY <1>1, <1>6, SameGrows DEF vars, tables
<1>7. QED
  BY <1>1, <1>2, <1>3, <1>4, <1>5, <1>6

LEMMA SomeAdminStays ==
  ASSUME AllAssumptions, TypeOK, Grows, admins \subseteq Users, SomeAdmin
  PROVE  SomeAdmin'
<1>1. PICK i \in admins : MaySignIn(i)
  BY DEF SomeAdmin
<1>2. PICK uri \in verified : owner[uri] = i /\ i \in hasPassword
  BY <1>1 DEF MaySignIn
<1>3. i # 0 /\ uri \in Uris
  BY <1>1, Facts DEF Users, TypeOK
<1>4. i \in admins' /\ i \in hasPassword' /\ uri \in verified' /\ owner'[uri] = i
  BY <1>2, <1>3 DEF Grows
<1>5. QED
  BY <1>4 DEF SomeAdmin, MaySignIn

\* What is pending goes on, or has given the server its administrator, or breaks off.
LEMMA SetUpKept ==
  ASSUME AllAssumptions, TypeOK, Grows, admins \subseteq Users, SetUp,
         Users # {} \/ Users' = {} \/ \E r \in Requests : Pending(r)',
         \A r \in Requests : Pending(r) => Pending(r)' \/ broken' \/ SomeAdmin \/ SomeAdmin'
  PROVE  SetUp'
<1>1. SUFFICES ASSUME Users' # {}, ~broken'
               PROVE  SomeAdmin' \/ \E r \in Requests : Pending(r)'
  BY DEF SetUp
<1>2. CASE SomeAdmin
  BY <1>2, SomeAdminStays
<1>3. CASE ~SomeAdmin /\ \E r \in Requests : Pending(r)'
  BY <1>3
<1>4. CASE ~SomeAdmin /\ Users # {}
  <2>1. ~broken
    BY <1>1 DEF Grows
  <2>2. \E r \in Requests : Pending(r)
    BY <1>4, <2>1 DEF SetUp
  <2>3. QED
    BY <1>1, <1>4, <2>2
<1>5. QED
  BY <1>1, <1>2, <1>3, <1>4

LEMMA MadeIsAdmin ==
  ASSUME TypeOK, NEW r \in Requests, Sound(r), req[r].pc = "made", req[r].first
  PROVE  SomeAdmin
<1>1. MakingSound(req[r])
  BY DEF Sound, MakingNow
<1>2. req[r].id \in admins /\ MaySignIn(req[r].id)
  BY <1>1 DEF MakingSound, MaySignIn
<1>3. QED
  BY <1>2 DEF SomeAdmin

\* A set-up that stops after its first statement leaves its mark.
LEMMA AbandonBreaks ==
  ASSUME NEW r \in Requests, Abandon(r), Pending(r)
  PROVE  broken'
  BY Zenon DEF Abandon, Pending

LEMMA PendingKept ==
  ASSUME AllAssumptions, TypeOK, NEW r \in Requests, Sound(r), Pending(r),
         Make(r) \/ Change(r) \/ Read(r) \/ End(r)
  PROVE  Pending(r)' \/ broken' \/ SomeAdmin \/ SomeAdmin'
<1>0. /\ req[r] \in Making /\ MakingSound(req[r]) /\ req[r].id \in Ids /\ req[r].id # 0
      /\ req[r].pc \in {"grant", "password", "identity", "made"} /\ req[r].first
  BY Parts, Facts DEF Pending, Sound, Making, Made
<1>1. CASE \E pc \in {"grant", "password", "identity", "made"} : Goes(r, pc)
  <2>1. PICK pc \in {"grant", "password", "identity", "made"} : Goes(r, pc)
    BY <1>1
  <2>2. req'[r] = [req[r] EXCEPT !.pc = pc]
    BY <2>1 DEF Goes, TypeOK
  <2>3. req'[r].pc = pc /\ req'[r].first = req[r].first /\ req'[r].id = req[r].id
    BY <1>0, <2>2 DEF Making, Made
  <2>4. QED
    BY <1>0, <2>3 DEF Pending, MakingNow
<1>2. CASE Abandon(r)
  BY <1>2, AbandonBreaks
<1>3. CASE req[r].pc = "made"
  BY <1>0, <1>3, MadeIsAdmin
<1>4. CASE Make(r) \/ Change(r)
  BY <1>0, <1>1, <1>2, <1>4 DEF Make, Post, PostUser, PostUserForm, PostApp, PostAppForm, PostGroup,
     PostGroupForm, Change, PutUserForm, PutUser, PutGroup, PutApp, PostEdit,
     Register, Create, Look, Save, Grant, Password, Identity, Edit, WriteBack, Idle
<1>5. ~Read(r)
  <2>1. Rows(r) => req[r].pc = "rows"
    BY Zenon DEF Rows
  <2>2. QED
    BY <1>0, <2>1 DEF Read, List, Count, Idle
<1>6. CASE End(r)
  BY <1>2, <1>3, <1>6 DEF End
<1>7. QED
  BY <1>4, <1>5, <1>6

LEMMA InvNext ==
  ASSUME AllAssumptions, IInv, [Next]_vars
  PROVE  IInv'
<1>0. /\ TypeOK /\ RowsInOrder /\ admins \subseteq Users /\ SetUp
      /\ \A s \in Requests : Sound(s)
  BY DEF IInv
<1>1. TypeOK'
  <2>1. CASE UNCHANGED vars
    BY <1>0, <2>1 DEF vars, tables, TypeOK
  <2>2. QED
    BY <1>0, <2>1, MakeType, OthersType, DirectType DEF Next
<1>2. Grows /\ RowsInOrder' /\ admins' \subseteq Users'
  <2>1. ASSUME NEW r \in Requests, Make(r)
        PROVE  Grows /\ RowsInOrder' /\ admins' \subseteq Users'
    BY <1>0, <2>1, MakeGrows
  <2>2. CASE \/ \E r \in Requests : Change(r) \/ Read(r) \/ End(r)
             \/ \E i \in Ids : PutPassword(i) \/ \E uri \in Uris : AddIdentity(i, uri)
             \/ \E uri \in Uris : MarkVerified(uri)
             \/ UNCHANGED vars
    BY <1>0, <2>2, OthersGrow
  <2>3. QED
    BY <2>1, <2>2 DEF Next
<1>3. ASSUME NEW r \in Requests, Make(r) \/ Change(r) \/ Read(r) \/ End(r)
      PROVE  (\A s \in Requests : Sound(s)') /\ SetUp'
  <2>1. \A s \in Requests : s # r => req'[s] = req[s]
    BY <1>0, <1>3, OneSlot
  <2>2. \A s \in Requests : s # r => Sound(s)'
    BY <1>0, <1>1, <1>2, <2>1, StaysSound
  <2>3. Sound(r)'
    <3>1. CASE Make(r)
      BY <1>0, <1>1, <3>1, MakeSound
    <3>2. CASE Read(r)
      BY <1>0, <1>1, <3>2, ReadSound
    <3>3. CASE Change(r)
      <4>1. req'[r].pc \in {"idle", "edit"}
        BY <1>0, <3>3 DEF Change, PutUserForm, PutUser, PutGroup, PutApp, PostEdit, Edit,
           WriteBack, Done, Idle, TypeOK
      <4>2. QED
        BY <4>1, IdleSound
    <3>4. CASE End(r)
      <4>1. req'[r].pc = "idle"
        BY <1>0, <3>4 DEF End, Abandon, Done, Idle, TypeOK
      <4>2. QED
        BY <4>1, IdleSound
    <3>5. QED
      BY <1>3, <3>1, <3>2, <3>3, <3>4
  <2>4. \A s \in Requests : Pending(s) => Pending(s)' \/ broken' \/ SomeAdmin \/ SomeAdmin'
    <3>1. ASSUME NEW s \in Requests, s # r, Pending(s)
          PROVE  Pending(s)'
      BY <2>1, <3>1 DEF Pending, MakingNow
    <3>2. QED
      BY <1>0, <1>3, <3>1, PendingKept
  <2>5. Users # {} \/ Users' = {} \/ \E s \in Requests : Pending(s)'
    <3>1. CASE Save(r)
      <4>1. req[r] \in Making /\ MakingSound(req[r])
        BY <1>0, <3>1, Parts DEF Save, Sound, MakingNow
      <4>2. CASE ~req[r].first
        BY <4>1, <4>2 DEF MakingSound
      <4>3. CASE req[r].first
        <5>1. /\ req'[r] = [req[r] EXCEPT !.id = last', !.pc = AfterSave(req[r])]
              /\ last' \in Ids
          BY <1>0, <1>1, <3>1 DEF Save, TypeOK
        <5>2. AfterSave(req[r]) = "grant"
          BY <4>1, <4>3, AfterSaveIs DEF Making, Made, MakingSound
        <5>3. req'[r].pc = "grant" /\ req'[r].first = req[r].first /\ req'[r].id = last'
          BY <4>1, <5>1, <5>2 DEF Making, Made
        <5>4. Pending(r)'
          BY <4>3, <5>1, <5>3, Facts DEF Pending, MakingNow
        <5>5. QED
          BY <5>4
      <4>4. QED
        BY <4>2, <4>3
    <3>2. CASE ~Save(r)
      <4>1. kind' = kind
        BY <1>3, <3>2 DEF Make, Post, PostUser, PostUserForm, PostApp, PostAppForm, PostGroup,
           PostGroupForm, Change, PutUserForm, PutUser, PutGroup, PutApp, PostEdit, Read,
           Register, Create, Look, Grant, Password,
           Identity, End, Edit, WriteBack, List, Count, UserCount, Rows, tables
      <4>2. QED
        BY <4>1 DEF Users
    <3>3. QED
      BY <3>1, <3>2
  <2>6. SetUp'
    BY <1>0, <1>2, <2>4, <2>5, SetUpKept
  <2>7. QED
    BY <2>2, <2>3, <2>6
<1>4. ASSUME \/ \E i \in Ids : PutPassword(i) \/ \E uri \in Uris : AddIdentity(i, uri)
             \/ \E uri \in Uris : MarkVerified(uri)
             \/ UNCHANGED vars
      PROVE  (\A s \in Requests : Sound(s)') /\ SetUp'
  <2>1. req' = req /\ Users' = Users
    BY <1>4, <1>0, OthersGrow DEF PutPassword, AddIdentity, MarkVerified, vars
  <2>2. \A s \in Requests : Sound(s)'
    BY <1>0, <1>1, <1>2, <2>1, StaysSound
  <2>3. \A s \in Requests : Pending(s) => Pending(s)'
    BY <2>1 DEF Pending, MakingNow
  <2>4. SetUp'
    BY <1>0, <1>2, <2>1, <2>3, SetUpKept
  <2>5. QED
    BY <2>2, <2>4
<1>5. (\A s \in Requests : Sound(s)') /\ SetUp'
  BY <1>3, <1>4 DEF Next
<1>6. QED
  BY <1>1, <1>2, <1>5 DEF IInv

LEMMA InvInit ==
  ASSUME AllAssumptions, Init
  PROVE  IInv
<1>1. TypeOK
  BY TypeInit
<1>2. RowsInOrder /\ Users = {}
  BY Facts DEF Init, RowsInOrder, Users, AllUsers
<1>3. QED
  BY <1>1, <1>2 DEF IInv, Init, Sound, MakingNow, Idle, SetUp

LEMMA Assumed == AllAssumptions
  BY UrisAssumption, FormsAssumption, SizesAssumption, OpenAssumption DEF AllAssumptions

\* The assumptions hold: what follows no longer names them.
USE Assumed

LEMMA Invariant == Spec => []IInv
  BY InvInit, InvNext, PTL DEF Spec
-----------------------------------------------------------------------------
(* Theorems                                                                *)

\* The tables and the slots keep their shape.
THEOREM TypeCorrect == Spec => []TypeOK
<1>1. IInv => TypeOK
  BY DEF IInv
<1>2. QED
  BY <1>1, Invariant, PTL

\* A server with users has an administrator who can sign in, unless its set-up is
\* under way or broke off.
THEOREM SetupSucceeds == Spec => []SetupLeavesAnAdmin
<1>1. IInv => SetupLeavesAnAdmin
  <2>1. SUFFICES ASSUME IInv, Users # {}, ~SettingUp, ~broken
                 PROVE  \E i \in admins : i \in Users /\ MaySignIn(i)
    BY DEF SetupLeavesAnAdmin
  <2>2. SomeAdmin
    BY <2>1 DEF IInv, SetUp, SettingUp, Pending
  <2>3. QED
    BY <2>1, <2>2 DEF IInv, SomeAdmin
<1>2. QED
  BY <1>1, Invariant, PTL

\* Set-up does not come back: no registration makes an administrator after it.
THEOREM SetupIsOver == Spec => SetupEnds
<1>1. ASSUME IInv, [Next]_vars, Users # {}, ~SettingUp
      PROVE  ~SettingUp' /\ admins' = admins
  <2>1. CASE UNCHANGED vars
    BY <1>1, <2>1 DEF vars, tables, SettingUp, MakingNow
  <2>2. ASSUME NEW r \in Requests, Make(r) \/ Change(r) \/ Read(r) \/ End(r)
        PROVE  ~SettingUp' /\ admins' = admins
    <3>1. /\ TypeOK /\ Sound(r) /\ \A s \in Requests : s # r => req'[s] = req[s]
      BY <1>1, <2>2, OneSlot DEF IInv
    <3>2. ~Grant(r)
      <4>1. MakingNow(r) /\ req[r].pc = "grant" => req[r].first
        BY <3>1 DEF Sound, MakingSound
      <4>2. QED
        BY <1>1, <4>1 DEF Grant, SettingUp, MakingNow
    <3>3. admins' = admins
      BY <2>2, <3>2 DEF Make, Post, PostUser, PostUserForm, PostApp, PostAppForm, PostGroup,
         PostGroupForm, Change, PutUserForm, PutUser, PutGroup, PutApp, PostEdit, Read,
         Register, Create, Look, Save, Password,
         Identity, End, Edit, WriteBack, List, Count, UserCount, Rows, tables
    <3>4. MakingNow(r)' => ~req'[r].first
      <4>1. ASSUME NEW uri \in Uris, NEW password \in {"good", "bad"},
                   Register(r, uri, password)
            PROVE  ~req'[r].first
        <5>1. req'[r].first = ~HasUsers
          BY <3>1, <4>1 DEF Register, TypeOK
        <5>2. HasUsers
          BY <1>1 DEF HasUsers
        <5>3. QED
          BY <5>1, <5>2
      <4>2. ASSUME NEW f \in Forms, Create(r, f)
            PROVE  ~req'[r].first
        BY <3>1, <4>2 DEF Create, TypeOK
      <4>3. ASSUME MakingNow(r)
            PROVE  req[r] \in Making /\ ~req[r].first
        BY <1>1, <3>1, <4>3, Parts DEF SettingUp
      <4>4. CASE Look(r) \/ Save(r) \/ Password(r) \/ Identity(r)
        <5>1. req[r] \in Making /\ ~req[r].first
          BY <4>3, <4>4 DEF Look, Save, Password, Identity, MakingNow
        <5>2. CASE \E pc : Goes(r, pc)
          BY <3>1, <5>1, <5>2 DEF Goes, TypeOK, Making, Made
        <5>3. CASE Done(r)
          BY <3>1, <5>3 DEF Done, TypeOK, Idle, MakingNow
        <5>4. CASE Save(r)
          BY <3>1, <5>1, <5>4 DEF Save, TypeOK, Making, Made
        <5>5. QED
          BY <4>4, <5>2, <5>3, <5>4 DEF Look, Password, Identity, Abandon
      <4>5. CASE Change(r) \/ Read(r) \/ End(r)
        <5>1. req'[r].pc \in {"edit", "idle", "count", "rows", "listed"}
          <6>1. CASE Count(r) \/ Rows(r)
            <7>1. req[r] \in Listing
              BY <3>1, <6>1, Parts DEF Count, Rows
            <7>2. CASE Count(r)
              BY <3>1, <7>1, <7>2 DEF Count, TypeOK, Listing
            <7>3. CASE Rows(r)
              <8>1. PICK rows \in SUBSET Users : RowsShown(r, rows)
                BY <7>3 DEF Rows, RowsShown
              <8>2. req'[r].pc \in {"count", "listed"}
                BY <3>1, <7>1, <8>1, PcShown
              <8>3. QED
                BY <8>2
            <7>4. QED
              BY <6>1, <7>2, <7>3
          <6>2. CASE Change(r) \/ List(r) \/ End(r)
            BY <3>1, <6>2 DEF Change, PutUserForm, PutUser, PutGroup, PutApp, PostEdit,
               Edit, WriteBack, List, End, Abandon, Done, Idle, TypeOK
          <6>3. QED
            BY <4>5, <6>1, <6>2 DEF Read
        <5>2. QED
          BY <5>1 DEF MakingNow
      <4>6. QED
        BY <2>2, <3>2, <4>1, <4>2, <4>4, <4>5 DEF Make, Post, PostUser, PostUserForm,
           PostApp, PostAppForm, PostGroup, PostGroupForm
    <3>5. ASSUME NEW s \in Requests, s # r
          PROVE  ~(MakingNow(s)' /\ req'[s].first)
      BY <1>1, <3>1, <3>5 DEF SettingUp, MakingNow
    <3>6. QED
      BY <3>3, <3>4, <3>5 DEF SettingUp
  <2>3. CASE \/ \E i \in Ids : PutPassword(i) \/ \E uri \in Uris : AddIdentity(i, uri)
             \/ \E uri \in Uris : MarkVerified(uri)
    BY <1>1, <2>3 DEF PutPassword, AddIdentity, MarkVerified, SettingUp, MakingNow
  <2>4. QED
    BY <1>1, <2>1, <2>2, <2>3 DEF Next
<1>2. IInv /\ [Next]_vars => [Users # {} /\ ~SettingUp => ~SettingUp' /\ admins' = admins]_vars
  BY <1>1
<1>3. QED
  BY <1>2, Invariant, PTL DEF Spec, SetupEnds

\* Nobody takes over the uri of another.
THEOREM OwnersStay == Spec => UriKeepsItsOwner
<1>1. IInv /\ [Next]_vars => \A uri \in Uris : owner[uri] # 0 => owner'[uri] = owner[uri]
  <2>1. SUFFICES ASSUME IInv, [Next]_vars PROVE Grows
    BY DEF Grows
  <2>2. CASE \E r \in Requests : Make(r)
    BY <2>1, <2>2, MakeGrows DEF IInv
  <2>3. QED
    BY <2>1, <2>2, OthersGrow DEF IInv, Next
<1>2. QED
  BY <1>1, Invariant, PTL DEF Spec, UriKeepsItsOwner

\* Success of a registration means a whole account.
THEOREM AccountsAreWhole == Spec => []SuccessIsComplete
<1>1. IInv => SuccessIsComplete
  BY DEF IInv, Sound, MakingSound, MakingNow, SuccessIsComplete, MaySignIn
<1>2. QED
  BY <1>1, Invariant, PTL

\* A reader of the list is shown as many rows as there were users when he began.
THEOREM ListsAreLongEnough == Spec => []ListIsLongEnough
<1>1. ASSUME IInv, NEW r \in Requests, req[r].pc = "listed"
      PROVE  /\ Cardinality(req[r].want) <= req[r].shown
             /\ req[r].want = Users /\ Cardinality(req[r].got) = req[r].shown =>
                  req[r].got = Users
  <2>1. ListSound(req[r])
    BY <1>1 DEF IInv, Sound
  <2>2. Cardinality(req[r].want) <= req[r].shown /\ req[r].got \subseteq Users
    BY <1>1, <2>1 DEF ListSound
  <2>3. ASSUME req[r].want = Users, Cardinality(req[r].got) = req[r].shown
        PROVE  req[r].got = Users
    <3>1. /\ Cardinality(req[r].got) <= Cardinality(Users)
          /\ Cardinality(Users) = Cardinality(req[r].got) => Users = req[r].got
          /\ Cardinality(req[r].got) \in Nat /\ Cardinality(Users) \in Nat
      BY <2>2, Assumed, UsersFinite, FS_Subset, FS_CardinalityType
    <3>2. QED
      BY <2>2, <2>3, <3>1
  <2>4. QED
    BY <2>2, <2>3
<1>2. IInv => ListIsLongEnough
  BY <1>1 DEF ListIsLongEnough
<1>3. QED
  BY <1>2, Invariant, PTL

\* Only who asks for it, or holds an old copy, switches a principal on again.
THEOREM DeactivationHolds == Spec => DeactivationLasts
<1>1. ASSUME IInv, [Next]_vars, NEW i \in Ids,
             kind[i] # "none", ~active[i], active'[i],
             \A r \in Requests : req[r].pc = "edit" /\ req[r].id = i => ~req[r].was
      PROVE  \E r \in Requests : req[r].pc = "edit" /\ req[r].id = i /\ req[r].wants = "on"
  <2>0. TypeOK /\ RowsInOrder
    BY <1>1 DEF IInv
  <2>1. PICK r \in Requests : Save(r) \/ WriteBack(r)
    <3>1. active' # active
      BY <1>1
    <3>2. ASSUME NEW r \in Requests, Make(r), ~Save(r)
          PROVE  active' = active
      BY <3>2 DEF Make, Post, PostUser, PostUserForm, PostApp, PostAppForm, PostGroup, PostGroupForm,
         Register, Create, Look, Grant, Password, Identity, tables
    <3>3. ASSUME NEW r \in Requests, Change(r) \/ Read(r) \/ End(r), ~WriteBack(r)
          PROVE  active' = active
      BY <3>3 DEF Change, PutUserForm, PutUser, PutGroup, PutApp, PostEdit, Edit, Read,
         List, Count, Rows, End, tables
    <3>4. QED
      BY <1>1, <3>1, <3>2, <3>3 DEF Next, PutPassword, AddIdentity, MarkVerified, vars, tables
  <2>2. CASE Save(r)
    <3>1. last' = last + 1 /\ last \in Nat /\ i \in Nat /\ i <= last
      BY <1>1, <2>0, <2>2, Facts DEF Save, RowsInOrder, TypeOK
    <3>2. last' # i
      BY <3>1
    <3>3. active' = [active EXCEPT ![last'] = TRUE] /\ active \in [Ids -> BOOLEAN]
      BY <2>0, <2>2 DEF Save, TypeOK
    <3>4. active'[i] = active[i]
      BY <3>2, <3>3, Zenon
    <3>5. QED
      BY <1>1, <3>4
  <2>3. CASE WriteBack(r)
    <3>1. req[r].id = i /\ Written(req[r])
      BY <1>1, <2>0, <2>3 DEF WriteBack, TypeOK
    <3>2. ~req[r].was
      BY <1>1, <2>3, <3>1 DEF WriteBack
    <3>3. req[r].wants = "on"
      BY <3>1, <3>2, Zenon DEF Written
    <3>4. QED
      BY <2>3, <3>1, <3>3 DEF WriteBack
  <2>4. QED
    BY <2>1, <2>2, <2>3
<1>2. IInv /\ [Next]_vars =>
        [\A i \in Ids :
           /\ kind[i] # "none" /\ ~active[i] /\ active'[i]
           /\ \A r \in Requests : req[r].pc = "edit" /\ req[r].id = i => ~req[r].was
           => \E r \in Requests : req[r].pc = "edit" /\ req[r].id = i
                                    /\ req[r].wants = "on"]_vars
  BY <1>1
<1>3. QED
  BY <1>2, Invariant, PTL DEF Spec, DeactivationLasts
=============================================================================
