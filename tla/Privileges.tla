----------------------------- MODULE Privileges -----------------------------
(***************************************************************************)
(* What a principal may do (privilege/service.ts), and who changes it: the *)
(* members of groups (principal/service.ts, group/controller) and the rows *)
(* of user_privileges (user/controller/privileges.ts).                     *)
(*                                                                         *)
(* A group may be a member of a group.  Every request of a principal who   *)
(* is logged in begins by loading the principal's privileges: one query    *)
(* for the groups of each principal it comes across, then one for the      *)
(* rows.  Other requests change both tables between any two of these, and  *)
(* whatever was loaded is used to the end of the request.                  *)
(*                                                                         *)
(* The pages for anybody have no privileges to load, and the code that is  *)
(* trusted ('insecure') asks for none; neither is here.                    *)
(***************************************************************************)
EXTENDS Naturals

CONSTANTS
  Requests,      \* handler slots: requests the server works on at once
  Users,
  Apps,          \* principals that are no users
  Groups,
  AllUsers,      \* the group $all, to which every user belongs without a row
  Resources,     \* hrefs a privilege may be about; "*" stands for all
  Privileges,    \* what may be granted, "admin" among them
  Policies,      \* sets of <<resource, privilege>> an administrator may post
  FirstMembers,  \* group_members when the server starts
  FirstGrants,   \* user_privileges when the server starts
  MaxEdits,      \* bound of the model: changes of the two tables
  MaxPending     \* bound of the model: calls that wait in one walk, per group

Actors == Users \cup Apps
Principals == Actors \cup Groups \cup {AllUsers}

ASSUME KindsAssumption == Users \cap Apps = {} /\ AllUsers \notin Actors \cup Groups
ASSUME PoliciesAssumption == Policies \subseteq SUBSET (Resources \X Privileges)
ASSUME FirstAssumption ==
  /\ FirstMembers \subseteq Principals \X Groups
  /\ FirstGrants \subseteq Principals \X Resources \X Privileges
ASSUME BoundsAssumption == MaxEdits \in Nat /\ MaxPending \in Nat

VARIABLES
  member,  \* rows of group_members: <<principal, group>>
  grants,  \* rows of user_privileges: <<principal, resource, privilege>>
  req,     \* what each slot holds between two awaits
  seen,    \* history: slot -> rows of group_members there at some time of its walk
  kept,    \* history: slot -> rows that were there all the time of its walk
  edits    \* bound of the model: changes made so far

vars == <<member, grants, req, seen, kept, edits>>

\* The walk: ids found, and the calls of getRecursiveGroupIds() yet to run their
\* query.  The same group may wait several times, on several ways to it.
Walk == [pc : {"groups"}, who : Actors, ids : SUBSET Principals, todo : [Principals -> Nat]]
Loaded == [pc : {"rows"}, who : Actors, ids : SUBSET Principals]
Box == SUBSET (Resources \X Privileges)
Ready == [pc : {"ready"}, who : Actors, ids : SUBSET Principals, box : Box]
Idle == [pc |-> "idle"]
Request == {Idle} \cup Walk \cup Loaded \cup Ready

\* The groups that getPrivilegesForPrincipal() adds to what the walk found
Extra(u) == IF u \in Users THEN {AllUsers} ELSE {}

Walking(r) == req[r].pc = "groups"
Done(r) == req' = [req EXCEPT ![r] = Idle]
-----------------------------------------------------------------------------
(* Loading                                                                 *)

\* SELECT group_id FROM group_members WHERE user_id = ?
GroupsOf(i) == {g \in Groups : <<i, g>> \in member}

\* A request of a principal; the middleware asks for the privileges first.
Start(r, u) ==
  /\ req[r] = Idle
  /\ req' = [req EXCEPT ![r] = [pc |-> "groups", who |-> u, ids |-> {},
                                todo |-> [i \in Principals |-> IF i = u THEN 1 ELSE 0]]]
  /\ seen' = [seen EXCEPT ![r] = member]
  /\ kept' = [kept EXCEPT ![r] = member]
  /\ UNCHANGED <<member, grants, edits>>

\* Mutant of TodoAfter: one level of groups is read.
TodoAfterOneLevel(r, i) ==
  [j \in Principals |-> (req[r].todo[j] - (IF j = i THEN 1 ELSE 0))
                          + (IF j \in GroupsOf(i) /\ i \in Users THEN 1 ELSE 0)]

\* Mutant of TodoAfter: the call repeats itself and not the group it found.
TodoAfterAgain(r, i) ==
  [j \in Principals |-> (req[r].todo[j] - (IF j = i THEN 1 ELSE 0))
                          + (IF j = i /\ GroupsOf(i) # {} THEN 1 ELSE 0)]

\* The call for i has its answer and calls itself for each group in it.
TodoAfter(r, i) ==
  [j \in Principals |-> (req[r].todo[j] - (IF j = i THEN 1 ELSE 0))
                          + (IF j \in GroupsOf(i) THEN 1 ELSE 0)]

\* Mutant of AllFound: applications get the group of all users too.
AllFoundForApps(u, ids) == ids \cup {AllUsers}

\* A user gets the group of all users, whose id is read once and kept by the process.
AllFound(u, ids) == ids \cup Extra(u)

\* One query of getRecursiveGroupIds().  The code goes depth first; here any call
\* that waits may be the next.
Visit(r, i) ==
  /\ Walking(r) /\ req[r].todo[i] > 0
  /\ \A j \in Principals : TodoAfter(r, i)[j] <= MaxPending
  /\ LET todo == TodoAfter(r, i)
         ids  == req[r].ids \cup {i}
     IN req' = [req EXCEPT ![r] =
          IF \A j \in Principals : todo[j] = 0
            THEN [pc |-> "rows", who |-> @.who, ids |-> AllFound(@.who, ids)]
            ELSE [@ EXCEPT !.ids = ids, !.todo = todo]]
  /\ UNCHANGED <<member, grants, seen, kept, edits>>

\* Mutant of Merged: rows as they are
MergedRows(ids) == {g \in grants : g[1] \in ids}

\* What the rows of these principals say, merged
Merged(ids) == {<<row[2], row[3]>> : row \in {g \in grants : g[1] \in ids}}

LoadRows(r) ==
  /\ req[r].pc = "rows"
  /\ req' = [req EXCEPT ![r] =
       [pc |-> "ready", who |-> @.who, ids |-> @.ids, box |-> Merged(@.ids)]]
  /\ UNCHANGED <<member, grants, seen, kept, edits>>

\* LazyPrivilegeBox.has()
Has(box, privilege, resource) ==
  \E p \in {privilege, "admin"}, res \in {resource, "*"} : <<res, p>> \in box

\* ctx.privileges.require('admin'); also opens every lookup of a principal
MayAdminister(r) == req[r].pc = "ready" /\ Has(req[r].box, "admin", "*")
-----------------------------------------------------------------------------
(* Changing                                                                *)

Edit == edits < MaxEdits /\ edits' = edits + 1

\* Walks that are under way see the table change.
MembersBecome(rows) ==
  /\ member' = rows
  /\ seen' = [r \in Requests |-> IF Walking(r) THEN seen[r] \cup rows ELSE seen[r]]
  /\ kept' = [r \in Requests |-> IF Walking(r) THEN kept[r] \cap rows ELSE kept[r]]

\* findByHref(): who can be meant by a path that begins like this.  Under /user, for
\* old links, anybody.
ByHref(path) == CASE path = "user"  -> Principals
                  [] path = "app"   -> Apps
                  [] path = "group" -> Groups \cup {AllUsers}

\* PATCH /group/:id, 'add-member'.  Any principal, the group itself too; a row
\* that exists already is refused by its primary key.
AddMember(r, m, g) ==
  /\ MayAdminister(r)
  /\ \E path \in {"user", "app", "group"} : m \in ByHref(path)
  /\ <<m, g>> \notin member
  /\ Edit
  /\ MembersBecome(member \cup {<<m, g>>})
  /\ Done(r)
  /\ UNCHANGED grants

\* PATCH /group/:id, 'remove-member'
RemoveMember(r, m, g) ==
  /\ MayAdminister(r)
  /\ Edit
  /\ MembersBecome(member \ {<<m, g>>})
  /\ Done(r)
  /\ UNCHANGED grants

\* replacePrivilegeForUser(): delete and insert in one transaction
Replaced(i, policy) ==
  {g \in grants : g[1] # i} \cup {<<i, row[1], row[2]>> : row \in policy}

\* POST /user/:id/edit/privileges
ReplacePrivileges(r, i, policy) ==
  /\ MayAdminister(r)
  /\ Edit
  /\ grants' = Replaced(i, policy)
  /\ Done(r)
  /\ UNCHANGED <<member, seen, kept>>

\* PATCH /user/:id/edit/privileges
AddPrivilege(r, i, res, p) ==
  /\ MayAdminister(r)
  /\ Edit
  /\ grants' = grants \cup {<<i, res, p>>}
  /\ Done(r)
  /\ UNCHANGED <<member, seen, kept>>

\* A page that changes nothing here, a refusal, or a statement that failed
End(r) ==
  /\ req[r] # Idle
  /\ Done(r)
  /\ UNCHANGED <<member, grants, seen, kept, edits>>

Init ==
  /\ member = FirstMembers
  /\ grants = FirstGrants
  /\ req = [r \in Requests |-> Idle]
  /\ seen = [r \in Requests |-> {}]
  /\ kept = [r \in Requests |-> {}]
  /\ edits = 0

Load(r) == LoadRows(r) \/ \E i \in Principals : Visit(r, i)

Next == \E r \in Requests :
  \/ \E u \in Actors : Start(r, u)
  \/ Load(r)
  \/ \E m \in Principals, g \in Groups : AddMember(r, m, g) \/ RemoveMember(r, m, g)
  \/ \E i \in Principals :
       \/ \E policy \in Policies : ReplacePrivileges(r, i, policy)
       \/ \E res \in Resources, p \in Privileges : AddPrivilege(r, i, res, p)
  \/ End(r)

Spec == Init /\ [][Next]_vars

\* The database answers, and the event loop resumes what awaits an answer.
FairSpec == Spec /\ \A r \in Requests : WF_vars(Load(r))
-----------------------------------------------------------------------------
(* What the code is for                                                    *)

Closed(S, rows) == \A row \in rows : row[1] \in S => row[2] \in S

\* The groups a principal belongs to, directly or through other groups: what is
\* in every set that has the principal and the groups of each of its elements
Reachable(i, rows) ==
  {j \in Principals : \A S \in SUBSET Principals : i \in S /\ Closed(S, rows) => j \in S}

Acyclic(rows) == \A row \in rows : row[1] \notin Reachable(row[2], rows)

\* Mutant of Report: what is granted on everything is left out.
ReportOfOne(res) == {g \in grants : g[2] = res}

\* findPrivilegesForResource(), GET /privilege/...
Report(res) == {g \in grants : g[2] = res \/ g[2] = "*"}

\* getImmediatePrivilegesForPrincipal(): what the page of a principal shows to be edited
Immediate(i) == {<<g[2], g[3]>> : g \in {h \in grants : h[1] = i}}
-----------------------------------------------------------------------------
(* Properties                                                              *)

TypeOK ==
  /\ member \subseteq Principals \X Groups
  /\ grants \subseteq Principals \X Resources \X Privileges
  /\ req \in [Requests -> Request]
  /\ seen \in [Requests -> SUBSET (Principals \X Groups)]
  /\ kept \in [Requests -> SUBSET (Principals \X Groups)]
  /\ edits \in Nat

\* A walk that is done has every group its principal belonged to for as long as
\* it took, however the memberships changed meanwhile.
NoGroupIsMissed ==
  \A r \in Requests : req[r].pc \in {"rows", "ready"} =>
    Reachable(req[r].who, kept[r]) \cup Extra(req[r].who) \subseteq req[r].ids

\* And it has no group that could not be reached over memberships which existed
\* at some time while it went on.  (They need not have existed together.)
NoGroupIsInvented ==
  \A r \in Requests : req[r].pc \in {"rows", "ready"} =>
    req[r].ids \subseteq Reachable(req[r].who, seen[r]) \cup Extra(req[r].who)

\* The report on a resource explains all power over it: whatever the privileges of
\* a user allow there, a row of the report for the user or one of the groups says,
\* and the page of that user or group has it to be taken away.
ReportIsComplete ==
  \A u \in Actors, res \in Resources, p \in Privileges :
    LET ids == Reachable(u, member) \cup Extra(u) IN
      Has(Merged(ids), p, res) =>
        \E row \in Report(res) : /\ row[1] \in ids /\ row[3] \in {p, "admin"}
                                  /\ <<row[2], row[3]>> \in Immediate(row[1])

\* Loading ends, unless the groups contain each other.
LoadingEnds ==
  \A r \in Requests : Walking(r) ~> (~ Walking(r) \/ ~ Acyclic(member))
=============================================================================
