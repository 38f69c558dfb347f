-------------------------- MODULE PrivilegesProofs --------------------------
(***************************************************************************)
(* Theorems about Privileges: the walk over the groups misses no group of  *)
(* the principal and invents none, whatever else goes on; and the report   *)
(* on a resource is complete.                                              *)
(***************************************************************************)
EXTENDS Privileges, TLAPS
-----------------------------------------------------------------------------
(* Reachability                                                            *)

LEMMA ReachableStart ==
  ASSUME NEW rows, NEW i \in Principals
  PROVE  i \in Reachable(i, rows)
  BY DEF Reachable

LEMMA ReachableStep ==
  ASSUME NEW rows, NEW i, NEW j \in Reachable(i, rows), NEW g \in Principals,
         <<j, g>> \in rows
  PROVE  g \in Reachable(i, rows)
<1>1. SUFFICES ASSUME NEW S \in SUBSET Principals, i \in S, Closed(S, rows)
               PROVE  g \in S
  BY DEF Reachable
<1>2. j \in S
  BY <1>1 DEF Reachable
<1>3. QED
  BY <1>1, <1>2, <<j, g>>[1] = j, <<j, g>>[2] = g DEF Closed

LEMMA ReachableGrows ==
  ASSUME NEW rows, NEW more, rows \subseteq more, NEW i
  PROVE  Reachable(i, rows) \subseteq Reachable(i, more)
<1>1. ASSUME NEW S \in SUBSET Principals, Closed(S, more)
      PROVE  Closed(S, rows)
  BY <1>1 DEF Closed
<1>2. QED
  BY <1>1 DEF Reachable

LEMMA ReachableLeast ==
  ASSUME NEW rows, NEW S \in SUBSET Principals, NEW i \in S, Closed(S, rows)
  PROVE  Reachable(i, rows) \subseteq S
  BY DEF Reachable
-----------------------------------------------------------------------------
(* The invariant                                                           *)

\* The rows a walk has seen always, now, and at some time
Bracketed(r) == kept[r] \subseteq member /\ member \subseteq seen[r]

\* What a lasting membership leads to is found, or a call for it waits.
Awaited(r) == \A i \in req[r].ids, g \in Groups :
  <<i, g>> \in kept[r] => g \in req[r].ids \/ req[r].todo[g] > 0

Begun(r) == req[r].who \in req[r].ids \/ req[r].todo[req[r].who] > 0

\* What was found, and what is going to be, can be reached.
Founded(r) == \A i \in Principals :
  i \in req[r].ids \/ req[r].todo[i] > 0 => i \in Reachable(req[r].who, seen[r])

Underway(r) == Bracketed(r) /\ Awaited(r) /\ Begun(r) /\ Founded(r)

\* The two properties, of one slot
Right(r) ==
  /\ Reachable(req[r].who, kept[r]) \cup Extra(req[r].who) \subseteq req[r].ids
  /\ req[r].ids \subseteq Reachable(req[r].who, seen[r]) \cup Extra(req[r].who)

SlotInv(r) ==
  /\ Walking(r) => Underway(r)
  /\ req[r].pc \in {"rows", "ready"} => Right(r)

IInv == TypeOK /\ \A r \in Requests : SlotInv(r)

AllAssumptions == KindsAssumption /\ PoliciesAssumption /\ FirstAssumption /\ BoundsAssumption

LEMMA Principal ==
  /\ Users \subseteq Actors /\ Actors \subseteq Principals
  /\ Groups \subseteq Principals /\ AllUsers \in Principals
  BY DEF Actors, Principals
-----------------------------------------------------------------------------
(* Types                                                                   *)

LEMMA Parts ==
  ASSUME TypeOK, NEW r \in Requests
  PROVE  /\ Walking(r) => /\ req[r] \in Walk
                          /\ req[r].who \in Actors /\ req[r].ids \subseteq Principals
                          /\ req[r].todo \in [Principals -> Nat]
         /\ req[r].pc = "rows" => /\ req[r] \in Loaded
                                  /\ req[r].who \in Actors /\ req[r].ids \subseteq Principals
         /\ req[r].pc = "ready" => req[r] \in Ready
  BY DEF TypeOK, Walking, Request, Walk, Loaded, Ready, Idle

LEMMA TodoType ==
  ASSUME TypeOK, NEW r \in Requests, Walking(r), NEW i \in Principals, req[r].todo[i] > 0
  PROVE  TodoAfter(r, i) \in [Principals -> Nat]
<1>1. req[r].todo \in [Principals -> Nat]
  BY Parts
<1>2. ASSUME NEW j \in Principals
      PROVE  (req[r].todo[j] - (IF j = i THEN 1 ELSE 0))
               + (IF j \in GroupsOf(i) THEN 1 ELSE 0) \in Nat
  <2>1. req[r].todo[j] \in Nat
    BY <1>1
  <2>2. CASE j = i
    BY <2>1, <2>2
  <2>3. CASE j # i
    BY <2>1, <2>3
  <2>4. QED
    BY <2>2, <2>3
<1>3. QED
  BY <1>2 DEF TodoAfter

LEMMA EditType ==
  ASSUME TypeOK, BoundsAssumption, Edit
  PROVE  edits' \in Nat
  BY DEF TypeOK, BoundsAssumption, Edit

LEMMA DoneType ==
  ASSUME TypeOK, NEW r \in Requests, Done(r)
  PROVE  req' \in [Requests -> Request]
  BY DEF TypeOK, Done, Request

LEMMA MembersType ==
  ASSUME TypeOK, NEW rows \in SUBSET (Principals \X Groups), MembersBecome(rows)
  PROVE  /\ member' \subseteq Principals \X Groups
         /\ seen' \in [Requests -> SUBSET (Principals \X Groups)]
         /\ kept' \in [Requests -> SUBSET (Principals \X Groups)]
  BY DEF TypeOK, MembersBecome

LEMMA TypeInit ==
  ASSUME AllAssumptions, Init
  PROVE  TypeOK
  BY DEF AllAssumptions, FirstAssumption, Init, TypeOK, Request

LEMMA TypeNext ==
  ASSUME AllAssumptions, TypeOK, [Next]_vars
  PROVE  TypeOK'
<1>1. ASSUME NEW r \in Requests, NEW u \in Actors, Start(r, u)
      PROVE  TypeOK'
  <2>1. [pc |-> "groups", who |-> u, ids |-> {},
         todo |-> [i \in Principals |-> IF i = u THEN 1 ELSE 0]] \in Request
    BY DEF Request, Walk
  <2>2. req' \in [Requests -> Request]
    BY <1>1, <2>1 DEF Start, TypeOK
  <2>3. /\ seen' \in [Requests -> SUBSET (Principals \X Groups)]
        /\ kept' \in [Requests -> SUBSET (Principals \X Groups)]
    BY <1>1 DEF Start, TypeOK
  <2>4. QED
    BY <1>1, <2>2, <2>3 DEF Start, TypeOK
<1>2. ASSUME NEW r \in Requests, NEW i \in Principals, Visit(r, i)
      PROVE  TypeOK'
  <2>0. /\ Walking(r) /\ req[r] \in Walk
        /\ TodoAfter(r, i) \in [Principals -> Nat]
    BY <1>2, Parts, TodoType DEF Visit
  <2>1. [pc |-> "rows", who |-> req[r].who,
         ids |-> AllFound(req[r].who, req[r].ids \cup {i})] \in Request
    BY <2>0, Principal DEF Request, Walk, Loaded, AllFound, Extra
  <2>2. [req[r] EXCEPT !.ids = req[r].ids \cup {i}, !.todo = TodoAfter(r, i)] \in Request
    BY <2>0 DEF Request, Walk
  <2>3. req' \in [Requests -> Request]
    BY <1>2, <2>1, <2>2 DEF Visit, TypeOK
  <2>4. QED
    BY <1>2, <2>3 DEF Visit, TypeOK
<1>3. ASSUME NEW r \in Requests, LoadRows(r)
      PROVE  TypeOK'
  <2>1. req[r] \in Loaded
    BY <1>3, Parts DEF LoadRows
  <2>2. Merged(req[r].ids) \in Box
    BY DEF Merged, Box, TypeOK
  <2>3. [pc |-> "ready", who |-> req[r].who, ids |-> req[r].ids,
         box |-> Merged(req[r].ids)] \in Request
    BY <2>1, <2>2 DEF Loaded, Ready, Request
  <2>4. req' \in [Requests -> Request]
    BY <1>3, <2>3 DEF LoadRows, TypeOK
  <2>5. QED
    BY <1>3, <2>4 DEF LoadRows, TypeOK
<1>4. ASSUME NEW r \in Requests, NEW m \in Principals, NEW g \in Groups,
             AddMember(r, m, g) \/ RemoveMember(r, m, g)
      PROVE  TypeOK'
  <2>1. PICK rows \in SUBSET (Principals \X Groups) : MembersBecome(rows)
    BY <1>4 DEF AddMember, RemoveMember, TypeOK
  <2>2. Done(r) /\ Edit /\ UNCHANGED grants
    BY <1>4 DEF AddMember, RemoveMember
  <2>3. edits' \in Nat /\ req' \in [Requests -> Request]
    BY <2>2, EditType, DoneType DEF AllAssumptions
  <2>4. QED
    BY <2>1, <2>2, <2>3, MembersType DEF TypeOK
<1>5. ASSUME NEW r \in Requests, NEW i \in Principals, NEW policy \in Policies,
             ReplacePrivileges(r, i, policy)
      PROVE  TypeOK'
  <2>1. policy \subseteq Resources \X Privileges
    BY DEF AllAssumptions, PoliciesAssumption
  <2>2. grants' \subseteq Principals \X Resources \X Privileges
    BY <1>5, <2>1 DEF ReplacePrivileges, Replaced, TypeOK
  <2>3. edits' \in Nat /\ req' \in [Requests -> Request]
    BY <1>5, EditType, DoneType DEF AllAssumptions, ReplacePrivileges
  <2>4. QED
    BY <1>5, <2>2, <2>3 DEF ReplacePrivileges, TypeOK
<1>6. ASSUME NEW r \in Requests, NEW i \in Principals, NEW res \in Resources,
             NEW p \in Privileges, AddPrivilege(r, i, res, p)
      PROVE  TypeOK'
  <2>1. edits' \in Nat /\ req' \in [Requests -> Request]
    BY <1>6, EditType, DoneType DEF AllAssumptions, AddPrivilege
  <2>2. QED
    BY <1>6, <2>1 DEF AddPrivilege, TypeOK
<1>7. ASSUME NEW r \in Requests, End(r)
      PROVE  TypeOK'
  BY <1>7, DoneType DEF End, TypeOK
<1>8. CASE UNCHANGED vars
  BY <1>8 DEF vars, TypeOK
<1>9. QED
  BY <1>1, <1>2, <1>3, <1>4, <1>5, <1>6, <1>7, <1>8 DEF Next, Load
-----------------------------------------------------------------------------
(* Steps                                                                   *)

\* The tables change under a slot, which itself does not move.
LEMMA StaysRight ==
  ASSUME NEW r \in Requests, SlotInv(r), req'[r] = req[r],
         kept'[r] \subseteq kept[r], seen[r] \subseteq seen'[r],
         Walking(r) => kept'[r] \subseteq member' /\ member' \subseteq seen'[r]
  PROVE  SlotInv(r)'
<1>1. /\ Reachable(req[r].who, kept[r])' \subseteq Reachable(req[r].who, kept[r])
      /\ Reachable(req[r].who, seen[r]) \subseteq Reachable(req[r].who, seen[r])'
  <2>1. /\ Reachable(req[r].who, kept[r])' = Reachable(req[r].who, kept'[r])
        /\ Reachable(req[r].who, seen[r])' = Reachable(req[r].who, seen'[r])
    BY DEF Reachable, Closed
  <2>2. QED
    BY <2>1, ReachableGrows
<1>2. CASE Walking(r)
  <2>1. Bracketed(r)' /\ Awaited(r)' /\ Begun(r)'
    BY <1>2 DEF SlotInv, Underway, Bracketed, Awaited, Begun
  <2>2. Founded(r)'
    BY <1>1, <1>2 DEF SlotInv, Underway, Founded
  <2>3. QED
    BY <1>2, <2>1, <2>2 DEF SlotInv, Underway, Walking
<1>3. CASE req[r].pc \in {"rows", "ready"}
  <2>1. Right(r)
    BY <1>3 DEF SlotInv
  <2>2. Right(r)'
    BY <1>1, <2>1 DEF Right, Extra
  <2>3. QED
    BY <1>3, <2>2 DEF SlotInv, Walking
<1>4. CASE ~ Walking(r) /\ req[r].pc \notin {"rows", "ready"}
  BY <1>4 DEF SlotInv, Walking
<1>5. QED
  BY <1>2, <1>3, <1>4

LEMMA IdleRight ==
  ASSUME NEW r \in Requests, req'[r] = Idle
  PROVE  SlotInv(r)'
  BY DEF SlotInv, Walking, Idle

LEMMA StartRight ==
  ASSUME TypeOK, NEW r \in Requests, NEW u \in Actors, Start(r, u)
  PROVE  SlotInv(r)'
<1>1. /\ req'[r] = [pc |-> "groups", who |-> u, ids |-> {},
                   todo |-> [i \in Principals |-> IF i = u THEN 1 ELSE 0]]
      /\ seen'[r] = member /\ kept'[r] = member /\ member' = member
  BY DEF Start, TypeOK
<1>2. u \in Principals
  BY Principal
<1>3. Bracketed(r)' /\ Awaited(r)' /\ Begun(r)'
  BY <1>1, <1>2 DEF Bracketed, Awaited, Begun
<1>4. Founded(r)'
  <2>1. u \in Reachable(u, seen'[r])
    BY <1>2, ReachableStart
  <2>2. QED
    BY <1>1, <2>1 DEF Founded, Reachable
<1>5. QED
  BY <1>1, <1>3, <1>4 DEF SlotInv, Underway, Walking

\* The last call of a walk has its answer.
LEMMA VisitEnds ==
  ASSUME TypeOK, NEW r \in Requests, NEW i \in Principals, Visit(r, i), SlotInv(r),
         \A j \in Principals : TodoAfter(r, i)[j] = 0
  PROVE  SlotInv(r)'
<1>0. /\ req[r].todo \in [Principals -> Nat] /\ req[r].who \in Principals
      /\ req[r].ids \subseteq Principals /\ req[r].todo[i] > 0
      /\ Bracketed(r) /\ Awaited(r) /\ Begun(r) /\ Founded(r)
      /\ req[r].who \in Actors
  BY Parts, Principal DEF Visit, SlotInv, Underway
<1>1. \A j \in Principals : j # i => req[r].todo[j] = 0 /\ j \notin GroupsOf(i)
  <2>1. ASSUME NEW j \in Principals, j # i
        PROVE  req[r].todo[j] + (IF j \in GroupsOf(i) THEN 1 ELSE 0) = 0
    BY <1>0, <2>1 DEF TodoAfter
  <2>2. QED
    BY <1>0, <2>1
<1>2. i \notin GroupsOf(i)
  <2>1. (req[r].todo[i] - 1) + (IF i \in GroupsOf(i) THEN 1 ELSE 0) = 0
    BY DEF TodoAfter
  <2>2. QED
    BY <1>0, <2>1
<1>3. /\ req'[r] = [pc |-> "rows", who |-> req[r].who,
                    ids |-> AllFound(req[r].who, req[r].ids \cup {i})]
      /\ kept' = kept /\ seen' = seen
  BY DEF Visit, TypeOK
<1> DEFINE S == req[r].ids \cup {i}
<1>4. Closed(S, kept[r])
  <2>1. SUFFICES ASSUME NEW j \in S, NEW g, <<j, g>> \in kept[r]
                 PROVE  g \in S
    BY DEF Closed, TypeOK
  <2>2. g \in Groups /\ g \in Principals /\ <<j, g>> \in member
    BY <1>0, <2>1, Principal DEF TypeOK, Bracketed
  <2>3. CASE j = i
    BY <1>1, <1>2, <2>2, <2>3 DEF GroupsOf
  <2>4. CASE j \in req[r].ids
    BY <1>0, <1>1, <2>1, <2>2, <2>4 DEF Awaited
  <2>5. QED
    BY <2>1, <2>3, <2>4
<1>5. req[r].who \in S
  BY <1>0, <1>1 DEF Begun
<1>6. Reachable(req[r].who, kept[r]) \subseteq S
  BY <1>0, <1>4, <1>5, ReachableLeast
<1>7. S \subseteq Reachable(req[r].who, seen[r])
  BY <1>0 DEF Founded
<1>8. /\ Reachable(req[r].who, kept[r])' = Reachable(req[r].who, kept[r])
      /\ Reachable(req[r].who, seen[r])' = Reachable(req[r].who, seen[r])
      /\ Extra(req[r].who)' = Extra(req[r].who)
  BY <1>3 DEF Reachable, Closed, Extra
<1>9. req'[r].ids = S \cup Extra(req[r].who)
  BY <1>3 DEF AllFound
<1>10. Right(r)'
  BY <1>6, <1>7, <1>8, <1>9 DEF Right
<1>11. QED
  BY <1>3, <1>10 DEF SlotInv, Walking

\* Calls are left to run.
LEMMA VisitGoesOn ==
  ASSUME TypeOK, NEW r \in Requests, NEW i \in Principals, Visit(r, i), SlotInv(r),
         ~ \A j \in Principals : TodoAfter(r, i)[j] = 0
  PROVE  SlotInv(r)'
<1>0. /\ req[r].todo \in [Principals -> Nat] /\ req[r].who \in Principals
      /\ req[r].ids \subseteq Principals /\ req[r].todo[i] > 0
      /\ Bracketed(r) /\ Awaited(r) /\ Begun(r) /\ Founded(r)
  BY Parts, Principal DEF Visit, SlotInv, Underway
<1>1. /\ req'[r] = [req[r] EXCEPT !.ids = req[r].ids \cup {i}, !.todo = TodoAfter(r, i)]
      /\ kept' = kept /\ seen' = seen /\ member' = member
  BY DEF Visit, TypeOK
<1>2. /\ req'[r].pc = "groups" /\ req'[r].who = req[r].who
      /\ req'[r].ids = req[r].ids \cup {i} /\ req'[r].todo = TodoAfter(r, i)
  BY <1>1, Parts DEF Visit, Walk, Walking
<1>3. ASSUME NEW j \in Principals
      PROVE  /\ j \in GroupsOf(i) => TodoAfter(r, i)[j] > 0
             /\ j # i /\ req[r].todo[j] > 0 => TodoAfter(r, i)[j] > 0
             /\ TodoAfter(r, i)[j] > 0 => req[r].todo[j] > 0 \/ j \in GroupsOf(i)
  <2>1. req[r].todo[j] \in Nat /\ (j = i => req[r].todo[j] > 0)
    BY <1>0
  <2>2. CASE j \in GroupsOf(i)
    BY <2>1, <2>2 DEF TodoAfter
  <2>3. CASE j \notin GroupsOf(i)
    BY <2>1, <2>3 DEF TodoAfter
  <2>4. QED
    BY <2>2, <2>3
<1>4. Bracketed(r)'
  BY <1>0, <1>1 DEF Bracketed
<1>5. Awaited(r)'
  <2>1. SUFFICES ASSUME NEW x \in req[r].ids \cup {i}, NEW g \in Groups,
                        <<x, g>> \in kept[r]
                 PROVE  g \in req[r].ids \cup {i} \/ TodoAfter(r, i)[g] > 0
    BY <1>1, <1>2 DEF Awaited
  <2>2. g \in Principals /\ <<x, g>> \in member
    BY <1>0, <2>1, Principal DEF Bracketed
  <2>3. CASE x = i
    BY <1>3, <2>2, <2>3 DEF GroupsOf
  <2>4. CASE x \in req[r].ids
    BY <1>0, <1>3, <2>1, <2>2, <2>4 DEF Awaited
  <2>5. QED
    BY <2>1, <2>3, <2>4
<1>6. Begun(r)'
  BY <1>0, <1>2, <1>3 DEF Begun
<1>7. Founded(r)'
  <2>1. SUFFICES ASSUME NEW j \in Principals,
                        j \in req[r].ids \cup {i} \/ TodoAfter(r, i)[j] > 0
                 PROVE  j \in Reachable(req[r].who, seen[r])
    BY <1>1, <1>2 DEF Founded, Reachable, Closed
  <2>2. i \in Reachable(req[r].who, seen[r])
    BY <1>0 DEF Founded
  <2>3. CASE j \in req[r].ids \cup {i} \/ req[r].todo[j] > 0
    BY <1>0, <2>2, <2>3 DEF Founded
  <2>4. CASE j \in GroupsOf(i)
    <3>1. <<i, j>> \in seen[r]
      BY <1>0, <2>4 DEF GroupsOf, Bracketed
    <3>2. QED
      BY <2>2, <3>1, ReachableStep
  <2>5. QED
    BY <1>3, <2>1, <2>3, <2>4
<1>8. QED
  BY <1>2, <1>4, <1>5, <1>6, <1>7 DEF SlotInv, Underway, Walking

LEMMA RowsRight ==
  ASSUME TypeOK, NEW r \in Requests, LoadRows(r), SlotInv(r)
  PROVE  SlotInv(r)'
<1>1. /\ req'[r].pc = "ready" /\ req'[r].who = req[r].who /\ req'[r].ids = req[r].ids
      /\ kept' = kept /\ seen' = seen
  BY DEF LoadRows, TypeOK
<1>2. Right(r)
  BY DEF LoadRows, SlotInv
<1>3. /\ Reachable(req[r].who, kept[r])' = Reachable(req[r].who, kept[r])
      /\ Reachable(req[r].who, seen[r])' = Reachable(req[r].who, seen[r])
      /\ Extra(req[r].who)' = Extra(req[r].who)
  BY <1>1 DEF Reachable, Closed, Extra
<1>4. Right(r)'
  BY <1>1, <1>2, <1>3 DEF Right
<1>5. QED
  BY <1>1, <1>4 DEF SlotInv, Walking
-----------------------------------------------------------------------------
(* The invariant holds                                                     *)

\* One slot moves; the tables, and with them the histories of the others, stay.
LEMMA OneMoves ==
  ASSUME \A s \in Requests : SlotInv(s), NEW r \in Requests, SlotInv(r)',
         member' = member,
         \A s \in Requests : s # r =>
           req'[s] = req[s] /\ seen'[s] = seen[s] /\ kept'[s] = kept[s]
  PROVE  \A s \in Requests : SlotInv(s)'
<1>1. ASSUME NEW s \in Requests, s # r
      PROVE  SlotInv(s)'
  <2>1. SlotInv(s) /\ (Walking(s) => kept[s] \subseteq member /\ member \subseteq seen[s])
    BY DEF SlotInv, Underway, Bracketed
  <2>2. QED
    BY <1>1, <2>1, StaysRight
<1>2. QED
  BY <1>1

\* A slot changes the table of members and is done.
LEMMA MembersRight ==
  ASSUME TypeOK, \A s \in Requests : SlotInv(s), NEW r \in Requests, Done(r),
         NEW rows \in SUBSET (Principals \X Groups), MembersBecome(rows)
  PROVE  \A s \in Requests : SlotInv(s)'
<1>1. SUFFICES ASSUME NEW s \in Requests PROVE SlotInv(s)'
  OBVIOUS
<1>2. CASE s = r
  BY <1>2, IdleRight DEF Done, TypeOK
<1>3. CASE s # r
  <2>1. req'[s] = req[s]
    BY <1>3 DEF Done, TypeOK
  <2>2. kept'[s] \subseteq kept[s] /\ seen[s] \subseteq seen'[s]
    BY DEF MembersBecome
  <2>3. Walking(s) => kept'[s] \subseteq member' /\ member' \subseteq seen'[s]
    BY DEF MembersBecome
  <2>4. QED
    BY <2>1, <2>2, <2>3, StaysRight
<1>4. QED
  BY <1>2, <1>3

LEMMA InvNext ==
  ASSUME AllAssumptions, IInv, [Next]_vars
  PROVE  IInv'
<1>0. TypeOK /\ TypeOK' /\ \A s \in Requests : SlotInv(s)
  BY TypeNext DEF IInv
<1>1. ASSUME NEW r \in Requests, NEW u \in Actors, Start(r, u)
      PROVE  \A s \in Requests : SlotInv(s)'
  <2>1. /\ member' = member
        /\ \A s \in Requests : s # r =>
             req'[s] = req[s] /\ seen'[s] = seen[s] /\ kept'[s] = kept[s]
    BY <1>0, <1>1 DEF Start, TypeOK
  <2>2. QED
    BY <1>0, <1>1, <2>1, StartRight, OneMoves
<1>2. ASSUME NEW r \in Requests, NEW i \in Principals, Visit(r, i)
      PROVE  \A s \in Requests : SlotInv(s)'
  <2>1. /\ member' = member
        /\ \A s \in Requests : s # r =>
             req'[s] = req[s] /\ seen'[s] = seen[s] /\ kept'[s] = kept[s]
    BY <1>0, <1>2 DEF Visit, TypeOK
  <2>2. SlotInv(r)'
    BY <1>0, <1>2, VisitEnds, VisitGoesOn
  <2>3. QED
    BY <1>0, <2>1, <2>2, OneMoves
<1>3. ASSUME NEW r \in Requests, LoadRows(r)
      PROVE  \A s \in Requests : SlotInv(s)'
  <2>1. /\ member' = member
        /\ \A s \in Requests : s # r =>
             req'[s] = req[s] /\ seen'[s] = seen[s] /\ kept'[s] = kept[s]
    BY <1>0, <1>3 DEF LoadRows, TypeOK
  <2>2. QED
    BY <1>0, <1>3, <2>1, RowsRight, OneMoves
<1>4. ASSUME NEW r \in Requests, NEW m \in Principals, NEW g \in Groups,
             AddMember(r, m, g) \/ RemoveMember(r, m, g)
      PROVE  \A s \in Requests : SlotInv(s)'
  <2>1. PICK rows \in SUBSET (Principals \X Groups) : MembersBecome(rows)
    BY <1>0, <1>4 DEF AddMember, RemoveMember, TypeOK
  <2>2. Done(r)
    BY <1>4 DEF AddMember, RemoveMember
  <2>3. QED
    BY <1>0, <2>1, <2>2, MembersRight
<1>5. ASSUME NEW r \in Requests, Done(r), UNCHANGED <<member, seen, kept>>
      PROVE  \A s \in Requests : SlotInv(s)'
  <2>1. \A s \in Requests : s # r => req'[s] = req[s]
    BY <1>0, <1>5 DEF Done, TypeOK
  <2>2. SlotInv(r)'
    BY <1>0, <1>5, IdleRight DEF Done, TypeOK
  <2>3. QED
    BY <1>0, <1>5, <2>1, <2>2, OneMoves
<1>6. ASSUME UNCHANGED vars
      PROVE  \A s \in Requests : SlotInv(s)'
  <2>1. ASSUME NEW s \in Requests PROVE SlotInv(s)'
    <3>1. SlotInv(s) /\ (Walking(s) => kept[s] \subseteq member /\ member \subseteq seen[s])
      BY <1>0 DEF SlotInv, Underway, Bracketed
    <3>2. QED
      BY <1>6, <3>1, StaysRight DEF vars
  <2>2. QED
    BY <2>1
<1>7. ASSUME NEW r \in Requests, NEW i \in Principals,
             \/ \E policy \in Policies : ReplacePrivileges(r, i, policy)
             \/ \E res \in Resources, p \in Privileges : AddPrivilege(r, i, res, p)
      PROVE  Done(r) /\ UNCHANGED <<member, seen, kept>>
  BY <1>7 DEF ReplacePrivileges, AddPrivilege
<1>8. ASSUME NEW r \in Requests, End(r)
      PROVE  Done(r) /\ UNCHANGED <<member, seen, kept>>
  BY <1>8 DEF End
<1>9. \A s \in Requests : SlotInv(s)'
  BY <1>1, <1>2, <1>3, <1>4, <1>5, <1>6, <1>7, <1>8 DEF Next, Load
<1>10. QED
  BY <1>0, <1>9 DEF IInv

LEMMA InvInit ==
  ASSUME AllAssumptions, Init
  PROVE  IInv
  BY TypeInit DEF Init, IInv, SlotInv, Walking, Idle

LEMMA Assumed == AllAssumptions
  BY KindsAssumption, PoliciesAssumption, FirstAssumption, BoundsAssumption
  DEF AllAssumptions

LEMMA Invariant == Spec => []IInv
  BY Assumed, InvInit, InvNext, PTL DEF Spec
-----------------------------------------------------------------------------
(* Theorems                                                                *)

\* The tables, the slots and the histories keep their shape.
THEOREM TypeCorrect == Spec => []TypeOK
  BY Assumed, TypeInit, TypeNext, PTL DEF Spec

\* However the memberships change under a walk, it finds every group that its
\* principal belonged to from its first query to its last.
THEOREM NothingMissed == Spec => []NoGroupIsMissed
<1>1. IInv => NoGroupIsMissed
  BY DEF IInv, SlotInv, Right, NoGroupIsMissed
<1>2. QED
  BY <1>1, Invariant, PTL

\* And a walk finds only groups that memberships seen by it lead to.
THEOREM NothingInvented == Spec => []NoGroupIsInvented
<1>1. IInv => NoGroupIsInvented
  BY DEF IInv, SlotInv, Right, NoGroupIsInvented
<1>2. QED
  BY <1>1, Invariant, PTL

\* Every power over a resource is explained by the report on it.
THEOREM ReportExplains == Spec => []ReportIsComplete
<1>1. ASSUME TypeOK, NEW u \in Actors, NEW res \in Resources, NEW p \in Privileges,
             NEW ids, Has(Merged(ids), p, res)
      PROVE  \E row \in Report(res) : /\ row[1] \in ids /\ row[3] \in {p, "admin"}
                                       /\ <<row[2], row[3]>> \in Immediate(row[1])
  <2>1. PICK q \in {p, "admin"}, on \in {res, "*"} : <<on, q>> \in Merged(ids)
    BY <1>1 DEF Has
  <2>2. PICK row \in grants : row[1] \in ids /\ <<row[2], row[3]>> = <<on, q>>
    BY <2>1 DEF Merged
  <2>3. row \in Report(res) /\ row[3] \in {p, "admin"}
    BY <2>1, <2>2 DEF Report
  <2>4. <<row[2], row[3]>> \in Immediate(row[1])
    BY <2>2 DEF Immediate
  <2>5. QED
    BY <2>2, <2>3, <2>4
<1>2. TypeOK => ReportIsComplete
  BY <1>1 DEF ReportIsComplete
<1>3. QED
  BY <1>2, TypeCorrect, PTL
-----------------------------------------------------------------------------
(* Power comes from power                                                  *)

\* When the server starts, nobody may administer: not by a row of one's own, of a
\* group one reaches, or of the group of all users.
Powerless == \A u \in Actors, row \in FirstGrants :
  row[1] \in Reachable(u, FirstMembers) \cup Extra(u) => <<row[2], row[3]>> # <<"*", "admin">>

\* Then nothing has changed, and no request has loaded the power to change it.
Unmoved ==
  /\ member = FirstMembers /\ grants = FirstGrants
  /\ \A r \in Requests : seen[r] \subseteq FirstMembers /\ ~ MayAdminister(r)

LEMMA NoPowerLoaded ==
  ASSUME Powerless, IInv, Unmoved, NEW r \in Requests, LoadRows(r)
  PROVE  ~ MayAdminister(r)'
<1>1. req'[r].pc = "ready" /\ req'[r].box = Merged(req[r].ids)
  BY DEF LoadRows, IInv, TypeOK
<1>2. req[r].who \in Actors /\ SlotInv(r) /\ req[r].pc = "rows"
  BY Parts DEF LoadRows, IInv
<1>3. req[r].ids \subseteq Reachable(req[r].who, FirstMembers) \cup Extra(req[r].who)
  BY <1>2, ReachableGrows DEF SlotInv, Right, Unmoved
<1>4. ASSUME MayAdminister(r)'
      PROVE  FALSE
  <2>1. <<"*", "admin">> \in Merged(req[r].ids)
    BY <1>1, <1>4 DEF MayAdminister, Has
  <2>2. PICK row \in FirstGrants : row[1] \in req[r].ids /\ <<row[2], row[3]>> = <<"*", "admin">>
    BY <2>1 DEF Merged, Unmoved
  <2> QED BY <1>2, <1>3, <2>2 DEF Powerless
<1> QED BY <1>4

LEMMA UnmovedStep ==
  ASSUME Powerless, IInv, Unmoved, [Next]_vars
  PROVE  Unmoved'
<1>1. CASE UNCHANGED vars
  BY <1>1 DEF vars, Unmoved, MayAdminister
<1>2. ASSUME NEW r \in Requests, NEW q, q.pc # "ready", req' = [req EXCEPT ![r] = q],
             UNCHANGED <<member, grants>>, seen' = [seen EXCEPT ![r] = FirstMembers] \/ seen' = seen
      PROVE  Unmoved'
  BY <1>2 DEF Unmoved, MayAdminister, IInv, TypeOK
<1>3. ASSUME NEW r \in Requests, NEW u \in Actors, Start(r, u)
      PROVE  Unmoved'
  <2>1. PICK q : q.pc = "groups" /\ req' = [req EXCEPT ![r] = q]
    BY <1>3 DEF Start
  <2> QED BY <1>2, <1>3, <2>1 DEF Start, Unmoved
<1>4. ASSUME NEW r \in Requests, NEW i \in Principals, Visit(r, i)
      PROVE  Unmoved'
  <2> DEFINE ids == req[r].ids \cup {i}
             loaded == [pc |-> "rows", who |-> req[r].who, ids |-> AllFound(req[r].who, ids)]
             goesOn == [req[r] EXCEPT !.ids = ids, !.todo = TodoAfter(r, i)]
             ended == \A j \in Principals : TodoAfter(r, i)[j] = 0
  <2>1. req[r] \in Walk /\ req \in [Requests -> Request]
    BY <1>4, Parts DEF Visit, IInv, TypeOK
  <2>2. loaded.pc # "ready" /\ goesOn.pc # "ready"
    BY <2>1 DEF Walk
  <2>3. CASE ended
    <3>1. req' = [req EXCEPT ![r] = loaded]
      BY <1>4, <2>1, <2>3 DEF Visit
    <3> QED BY <1>2, <1>4, <2>2, <3>1 DEF Visit
  <2>4. CASE ~ ended
    <3>1. req' = [req EXCEPT ![r] = goesOn]
      BY <1>4, <2>1, <2>4 DEF Visit
    <3> QED BY <1>2, <1>4, <2>2, <3>1 DEF Visit
  <2> QED BY <2>3, <2>4
<1>5. ASSUME NEW r \in Requests, LoadRows(r)
      PROVE  Unmoved'
  <2>1. \A s \in Requests \ {r} : req'[s] = req[s]
    BY <1>5 DEF LoadRows, IInv, TypeOK
  <2> QED BY <1>5, <2>1, NoPowerLoaded DEF LoadRows, Unmoved, MayAdminister
<1>6. ASSUME NEW r \in Requests, End(r)
      PROVE  Unmoved'
  BY <1>2, <1>6 DEF End, Done, Idle
<1>7. ASSUME NEW r \in Requests, MayAdminister(r)
      PROVE  FALSE
  BY <1>7 DEF Unmoved
<1> QED BY <1>1, <1>3, <1>4, <1>5, <1>6, <1>7
        DEF Next, Load, AddMember, RemoveMember, ReplacePrivileges, AddPrivilege

\* On a server where nobody may administer nobody ever gets to: whatever the groups
\* and privileges are, no sequence of these requests changes them.  (Set-up, which makes
\* the first administrator, is not one of them.)
THEOREM PowerComesFromPower ==
  ASSUME Powerless
  PROVE  Spec => [](member = FirstMembers /\ grants = FirstGrants)
<1>1. Init => Unmoved
  BY DEF Init, Unmoved, MayAdminister, Idle
<1>2. IInv /\ Unmoved /\ [Next]_vars => Unmoved'
  BY UnmovedStep
<1>3. Unmoved => member = FirstMembers /\ grants = FirstGrants
  BY DEF Unmoved
<1>4. QED
  BY <1>1, <1>2, <1>3, Invariant, PTL DEF Spec
=============================================================================
