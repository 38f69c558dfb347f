------------------------ MODULE LoginActivityProofs ------------------------
(***************************************************************************)
(* Proofs about LoginActivity, for any number of handlers and users and    *)
(* any MAX_FAILED_ATTEMPTS.                                                *)
(***************************************************************************)
EXTENDS LoginActivity, FiniteSetTheorems, TLAPS

\* A handler between SELECT ... FOR UPDATE and UPDATE holds the row, and what it
\* read there is still what the row says.
Owned ==
  \A r \in Requests :
    req[r].pc = "update" => /\ rowLock[req[r].user] = r
                            /\ req[r].read = attempts[req[r].user]

\* The handlers about to compare a password, and those about to count a wrong one
Comparing(u) == {r \in Requests : req[r].pc = "compare" /\ req[r].user = u}
Pending(u) == {r \in Requests : /\ req[r].pc \in {"select", "update"}
                                /\ req[r].user = u /\ req[r].guess}

\* Every wrong password is counted, about to be counted, or lost ...
Accounted(u) == guesses[u] <= attempts[u] + lost[u] + Cardinality(Pending(u))

\* ... and who passed the lock check did so while fewer than the maximum were
\* counted, so that at most one more per handler is on its way.
Limited(u) ==
  guesses[u] + Cardinality(Comparing(u)) < MaxFailedAttempts + lost[u] + Cardinality(Requests)

IInv == /\ TypeOK /\ Owned /\ NoFailureIsOverwritten
        /\ \A u \in Users : Accounted(u) /\ Limited(u)
-----------------------------------------------------------------------------
(* Types                                                                   *)

LEMMA Kinds ==
  ASSUME NEW q \in Request
  PROVE  /\ q.pc \in {"idle", "check", "compare", "select", "update", "reset"}
         /\ q # Idle => q.user \in Users
         /\ q = Idle <=> q.pc = "idle"
         /\ q.pc \in {"select", "update"} => q \in Count
         /\ q.pc \in {"check", "compare", "reset"} => q \in Try
<1>1. q \in [pc : {"idle"}] \/ q \in Try \/ q \in Count
  BY DEF Request
<1>2. ASSUME q \in [pc : {"idle"}]
      PROVE  q = Idle /\ q.pc = "idle"
  BY <1>2 DEF Idle
<1>3. CASE q \in Try \/ q \in Count
  BY <1>3 DEF Try, Count, Idle
<1> QED BY <1>1, <1>2, <1>3

\* A handler's step gives it a well-formed record and leaves the others alone.
LEMMA Moved ==
  ASSUME TypeOK, NEW r \in Requests,
         \/ \E u \in Users : Start(r, u)
         \/ Proceed(r) \/ Contend(r) \/ Fail(r)
  PROVE  /\ req' \in [Requests -> Request]
         /\ \A x \in Requests \ {r} : req'[x] = req[x]
<1>1. PICK q \in Request : req' = [req EXCEPT ![r] = q]
  <2>1. Idle \in Request
    BY DEF Idle, Request
  <2>2. \A u \in Users : /\ [pc |-> "check", user |-> u] \in Request
                         /\ [pc |-> "compare", user |-> u] \in Request
                         /\ \A g \in BOOLEAN : Counting(u, g) \in Request
    BY DEF Request, Try, Count, Counting
  <2>3. ASSUME NEW u \in Users, Start(r, u)
        PROVE  \E q \in Request : req' = [req EXCEPT ![r] = q]
    BY <2>2, <2>3 DEF Start
  <2>4. CASE CheckLock(r)
    BY <2>2, <2>4, Kinds DEF CheckLock, TypeOK
  <2>5. CASE Right(r)
    <3>1. req[r] \in Try
      BY <2>5, Kinds DEF Right, TypeOK
    <3>2. [req[r] EXCEPT !.pc = "reset"] \in Request
      BY <3>1 DEF Try, Request
    <3> QED BY <2>5, <3>2 DEF Right, TypeOK
  <2>6. CASE Wrong(r)
    BY <2>2, <2>6, Kinds DEF Wrong, TypeOK
  <2>7. CASE SelectForUpdate(r)
    <3>1. req[r] \in Count /\ attempts[req[r].user] \in Nat
      BY <2>7, Kinds DEF SelectForUpdate, TypeOK, Count
    <3>2. [req[r] EXCEPT !.pc = "update", !.read = attempts[req[r].user]] \in Request
      BY <3>1 DEF Count, Request
    <3> QED BY <2>7, <3>2 DEF SelectForUpdate
  <2>8. CASE Update(r) \/ Reset(r) \/ Fail(r)
    BY <2>1, <2>8 DEF Update, Reset, Fail, Finish
  <2> QED BY <2>3, <2>4, <2>5, <2>6, <2>7, <2>8 DEF Proceed, Contend
<1> QED BY <1>1 DEF TypeOK

\* Counting up one entry of a table
LEMMA CountUp ==
  ASSUME NEW f \in [Users -> Nat], NEW u \in Users
  PROVE  [f EXCEPT ![u] = @ + 1] \in [Users -> Nat]
<1>1. f[u] + 1 \in Nat
  OBVIOUS
<1> QED BY <1>1

LEMMA TypeInit == Init => TypeOK
BY LimitsAssumption DEF Init, TypeOK, Idle, Request

LEMMA TypeStep == TypeOK /\ [Next]_vars => TypeOK'
<1> SUFFICES ASSUME TypeOK, [Next]_vars
             PROVE  TypeOK'
  OBVIOUS
<1> USE DEF row, history
<1>1. CASE UNCHANGED vars
  BY <1>1 DEF vars, TypeOK
<1>2. ASSUME NEW u \in Users, AdministratorUnlocks(u)
      PROVE  TypeOK'
  BY <1>2 DEF AdministratorUnlocks, Clear, TypeOK
<1>3. ASSUME NEW r \in Requests,
             \/ \E u \in Users : Start(r, u)
             \/ Proceed(r) \/ Contend(r) \/ Fail(r)
      PROVE  TypeOK'
  <2>1. req' \in [Requests -> Request] /\ req[r] \in Request
    BY <1>3, Moved DEF TypeOK
  <2>2. CASE (\E u \in Users : Start(r, u)) \/ CheckLock(r) \/ Right(r)
    BY <2>1, <2>2 DEF Start, CheckLock, Right, TypeOK
  <2>3. CASE Wrong(r)
    <3>1. req[r].user \in Users
      BY <2>1, <2>3, Kinds DEF Wrong
    <3>2. guesses' \in [Users -> Nat]
      BY <2>3, <3>1, CountUp DEF Wrong, TypeOK
    <3> QED BY <2>1, <2>3, <3>2 DEF Wrong, TypeOK
  <2>4. CASE SelectForUpdate(r)
    BY <2>1, <2>4 DEF SelectForUpdate, TypeOK
  <2>5. CASE Update(r)
    <3>1. req[r].read + 1 \in Nat
      BY <2>1, <2>5, Kinds DEF Update, Count
    <3>2. Reached(req[r].read + 1) \in BOOLEAN
      BY DEF Reached
    <3>3. attempts' \in [Users -> Nat]
      BY <2>5, <3>1 DEF Update, TypeOK
    <3>4. locked' \in [Users -> BOOLEAN]
      BY <2>5, <3>2 DEF Update, TypeOK
    <3>5. rowLock' \in [Users -> Requests \cup {Nobody}]
      BY <2>5 DEF Update, Unlock, TypeOK
    <3>6. counted' \in [Users -> Nat] /\ UNCHANGED <<guesses, lost>>
      BY <2>1, <2>5, Kinds, CountUp DEF Update, TypeOK
    <3> QED BY <2>1, <3>3, <3>4, <3>5, <3>6 DEF TypeOK
  <2>6. CASE Reset(r)
    BY <2>1, <2>6 DEF Reset, Clear, TypeOK
  <2>7. CASE Fail(r)
    <3>1. rowLock' \in [Users -> Requests \cup {Nobody}]
      BY <2>7 DEF Fail, Unlock, TypeOK
    <3>2. req[r].user \in Users
      BY <2>1, <2>7, Kinds DEF Fail
    <3>3. lost' = lost \/ lost' = [lost EXCEPT ![req[r].user] = @ + 1]
      BY <2>7, Zenon DEF Fail
    <3>4. lost' \in [Users -> Nat]
      BY <3>2, <3>3, CountUp DEF TypeOK
    <3> QED BY <2>1, <2>7, <3>1, <3>4 DEF Fail, TypeOK
  <2> QED BY <1>3, <2>2, <2>3, <2>4, <2>5, <2>6, <2>7 DEF Proceed, Contend
<1> QED BY <1>1, <1>2, <1>3 DEF Next

\* Every variable keeps its shape; in particular account_locked is a truth value.
THEOREM TypeCorrect == Spec => []TypeOK
BY TypeInit, TypeStep, PTL DEF Spec
-----------------------------------------------------------------------------
(* The counter                                                             *)

\* One transaction at a time has a row, so that nobody else writes it between
\* SELECT ... FOR UPDATE and UPDATE.
LEMMA CounterStep ==
  ASSUME TypeOK, Owned, NoFailureIsOverwritten, [Next]_vars
  PROVE  Owned' /\ NoFailureIsOverwritten'
<1> USE DEF row, history
<1>1. CASE UNCHANGED vars
  BY <1>1 DEF vars, Owned, NoFailureIsOverwritten
<1>2. ASSUME NEW u \in Users, Clear(u)
      PROVE  NoFailureIsOverwritten'
  <2>1. ~ Reached(0)
    BY LimitsAssumption DEF Reached
  <2>2. /\ attempts'[u] = 0 /\ locked'[u] = FALSE /\ counted'[u] = 0
        /\ \A v \in Users \ {u} : /\ attempts'[v] = attempts[v] /\ locked'[v] = locked[v]
                                  /\ counted'[v] = counted[v]
    BY <1>2 DEF Clear, TypeOK
  <2> QED BY <2>1, <2>2, Zenon DEF NoFailureIsOverwritten, Reached
<1>3. ASSUME NEW u \in Users, Clear(u)
      PROVE  \A x \in Requests : req[x].pc = "update" =>
               /\ rowLock'[req[x].user] = x
               /\ req[x].read = attempts'[req[x].user]
  BY <1>3, LimitsAssumption DEF Clear, RowFree, TypeOK, Owned
<1>4. ASSUME NEW u \in Users, AdministratorUnlocks(u)
      PROVE  Owned' /\ NoFailureIsOverwritten'
  BY <1>2, <1>3, <1>4 DEF AdministratorUnlocks, Owned
<1>5. ASSUME NEW r \in Requests, Update(r)
      PROVE  Owned' /\ NoFailureIsOverwritten'
  <2> DEFINE u == req[r].user
  <2>1. /\ u \in Users /\ rowLock[u] = r /\ req[r].read = attempts[u]
        /\ req[r].pc = "update" /\ attempts[u] + 1 \in Nat
    BY <1>5, Kinds DEF Update, TypeOK, Owned, Idle
  <2>2. /\ attempts'[u] = attempts[u] + 1 /\ counted'[u] = counted[u] + 1
        /\ locked'[u] = Reached(attempts[u] + 1)
        /\ \A v \in Users \ {u} : /\ attempts'[v] = attempts[v] /\ locked'[v] = locked[v]
                                  /\ counted'[v] = counted[v] /\ rowLock'[v] = rowLock[v]
    BY <1>5, <2>1 DEF Update, Unlock, TypeOK
  <2>3. NoFailureIsOverwritten'
    <3>1. attempts[u] = counted[u]
      BY <2>1 DEF NoFailureIsOverwritten
    <3> HIDE DEF u
    <3> QED BY <2>2, <3>1, Zenon DEF NoFailureIsOverwritten, Reached
  <2>4. ASSUME NEW x \in Requests, req'[x].pc = "update"
        PROVE  rowLock'[req'[x].user] = x /\ req'[x].read = attempts'[req'[x].user]
    <3>1. x # r /\ req'[x] = req[x]
      BY <1>5, <2>4 DEF Update, Finish, Idle, TypeOK
    <3>2. req[x].user \in Users /\ req[x].user # u
      BY <2>1, <2>4, <3>1, Kinds DEF TypeOK, Owned, Idle
    <3> QED BY <2>2, <2>4, <3>1, <3>2 DEF Owned
  <2> QED BY <2>3, <2>4 DEF Owned
<1>6. ASSUME NEW r \in Requests, SelectForUpdate(r)
      PROVE  Owned' /\ NoFailureIsOverwritten'
  <2> DEFINE u == req[r].user
  <2>1. /\ u \in Users /\ req[r] \in Count /\ RowFree(u)
        /\ rowLock' = [rowLock EXCEPT ![u] = r]
    BY <1>6, Kinds DEF SelectForUpdate, TypeOK, Idle
  <2>2. req'[r].user = u /\ req'[r].read = attempts[u]
    BY <1>6, <2>1 DEF SelectForUpdate, Count, TypeOK
  <2>3. ASSUME NEW x \in Requests, req'[x].pc = "update"
        PROVE  rowLock'[req'[x].user] = x /\ req'[x].read = attempts'[req'[x].user]
    <3>1. CASE x = r
      BY <1>6, <2>1, <2>2, <3>1 DEF SelectForUpdate, TypeOK
    <3>2. CASE x # r
      <4>1. req'[x] = req[x] /\ rowLock[req[x].user] = x /\ req[x].read = attempts[req[x].user]
        BY <1>6, <2>3, <3>2 DEF SelectForUpdate, TypeOK, Owned
      <4>2. req[x].user # u
        BY <2>1, <4>1, LimitsAssumption DEF RowFree
      <4> QED BY <1>6, <2>1, <4>1, <4>2 DEF SelectForUpdate, TypeOK
    <3> QED BY <3>1, <3>2
  <2> QED BY <1>6, <2>3 DEF SelectForUpdate, Owned, NoFailureIsOverwritten
<1>7. ASSUME NEW r \in Requests, Fail(r)
      PROVE  Owned' /\ NoFailureIsOverwritten'
  <2>1. ASSUME NEW x \in Requests, req'[x].pc = "update"
        PROVE  rowLock'[req'[x].user] = x /\ req'[x].read = attempts'[req'[x].user]
    <3>1. x # r /\ req'[x] = req[x]
      BY <1>7, <2>1 DEF Fail, Finish, Idle, TypeOK
    <3>2. req[r].pc = "update" => req[x].user # req[r].user
      BY <2>1, <3>1 DEF Owned
    <3>3. rowLock'[req[x].user] = rowLock[req[x].user]
      <4>1. CASE req[r].pc # "update"
        BY <1>7, <4>1 DEF Fail
      <4>2. CASE req[r].pc = "update"
        <5>1. rowLock' = [rowLock EXCEPT ![req[r].user] = Nobody]
          BY <1>7, <4>2, Zenon DEF Fail, Unlock
        <5> QED BY <3>2, <4>2, <5>1 DEF TypeOK
      <4> QED BY <4>1, <4>2
    <3> QED BY <1>7, <2>1, <3>1, <3>3 DEF Fail, Owned
  <2>2. NoFailureIsOverwritten'
    BY <1>7 DEF Fail, NoFailureIsOverwritten
  <2> QED BY <2>1, <2>2 DEF Owned
<1>8. ASSUME NEW r \in Requests,
             (\E u \in Users : Start(r, u)) \/ CheckLock(r) \/ Right(r) \/ Wrong(r)
      PROVE  Owned' /\ NoFailureIsOverwritten'
  <2>1. UNCHANGED row /\ UNCHANGED counted
    BY <1>8 DEF Start, CheckLock, Right, Wrong
  <2>2. req'[r].pc # "update"
    <3>1. CASE \E u \in Users : Start(r, u)
      BY <3>1 DEF Start, TypeOK
    <3>2. CASE CheckLock(r)
      BY <3>2 DEF CheckLock, Counting, TypeOK
    <3>3. CASE Right(r)
      <4>1. req[r] \in Try
        BY <3>3, Kinds DEF Right, TypeOK
      <4> QED BY <3>3, <4>1 DEF Right, Try, TypeOK
    <3>4. CASE Wrong(r)
      BY <3>4 DEF Wrong, Counting, TypeOK
    <3> QED BY <1>8, <3>1, <3>2, <3>3, <3>4
  <2>3. \A x \in Requests \ {r} : req'[x] = req[x]
    BY <1>8, Moved DEF Proceed
  <2> QED BY <2>1, <2>2, <2>3 DEF Owned, NoFailureIsOverwritten
<1>9. ASSUME NEW r \in Requests, Reset(r)
      PROVE  Owned' /\ NoFailureIsOverwritten'
  <2>1. req[r].user \in Users /\ Clear(req[r].user)
    BY <1>9, Kinds DEF Reset, TypeOK, Idle
  <2>2. \A x \in Requests : req'[x].pc = "update" => req'[x] = req[x]
    BY <1>9 DEF Reset, Finish, Idle, TypeOK
  <2> QED BY <1>2, <1>3, <2>1, <2>2 DEF Owned
<1> QED BY <1>1, <1>4, <1>5, <1>6, <1>7, <1>8, <1>9 DEF Next, Proceed, Contend
-----------------------------------------------------------------------------
(* The bound on guesses                                                    *)

LEMMA Split ==
  ASSUME NEW S \in SUBSET Requests, NEW r \in Requests
  PROVE  /\ IsFiniteSet(S \ {r})
         /\ Cardinality(S) = Cardinality(S \ {r}) + (IF r \in S THEN 1 ELSE 0)
         /\ Cardinality(S) \in Nat /\ Cardinality(S \ {r}) \in Nat
<1>1. IsFiniteSet(S)
  BY RequestsAssumption, FS_Subset
<1>2. Cardinality(S) \in Nat
  BY <1>1, FS_CardinalityType
<1>3. IsFiniteSet(S \ {r})
  BY <1>1, FS_RemoveElement
<1>4. Cardinality(S \ {r}) \in Nat
  BY <1>3, FS_CardinalityType
<1>5. Cardinality(S \ {r}) = IF r \in S THEN Cardinality(S) - 1 ELSE Cardinality(S)
  BY <1>1, FS_RemoveElement
<1> QED BY <1>2, <1>3, <1>4, <1>5

\* Handler r moves and the others do not: of those, c are about to compare a
\* password of u and p to count one, and no handler does both.
LEMMA Tally ==
  ASSUME NEW u \in Users, NEW r \in Requests, \A x \in Requests \ {r} : req'[x] = req[x]
  PROVE  \E c, p \in Nat :
           /\ c + p + 1 <= Cardinality(Requests)
           /\ Cardinality(Comparing(u)) = c + (IF r \in Comparing(u) THEN 1 ELSE 0)
           /\ Cardinality(Pending(u)) = p + (IF r \in Pending(u) THEN 1 ELSE 0)
           /\ Cardinality(Comparing(u))' = c + (IF r \in Comparing(u)' THEN 1 ELSE 0)
           /\ Cardinality(Pending(u))' = p + (IF r \in Pending(u)' THEN 1 ELSE 0)
<1> DEFINE C == Comparing(u) \ {r}
           P == Pending(u) \ {r}
<1>1. /\ Comparing(u) \in SUBSET Requests /\ Pending(u) \in SUBSET Requests
      /\ Comparing(u)' \in SUBSET Requests /\ Pending(u)' \in SUBSET Requests
  BY DEF Comparing, Pending
<1>2. Comparing(u)' \ {r} = C /\ Pending(u)' \ {r} = P
  BY DEF Comparing, Pending
<1>3. IsFiniteSet(C) /\ IsFiniteSet(P) /\ Cardinality(C) \in Nat /\ Cardinality(P) \in Nat
  BY <1>1, Split
<1>4. Cardinality(C) + Cardinality(P) + 1 <= Cardinality(Requests)
  <2>1. C \cap P = {} /\ (C \cup P) \in SUBSET (Requests \ {r})
    BY DEF Comparing, Pending
  <2>2. Cardinality(C \cup P) = Cardinality(C) + Cardinality(P)
    BY <1>3, <2>1, FS_Union, FS_EmptySet
  <2>3. IsFiniteSet(Requests \ {r}) /\ Cardinality(Requests \ {r}) = Cardinality(Requests) - 1
        /\ Cardinality(Requests) \in Nat
    BY RequestsAssumption, FS_RemoveElement, FS_CardinalityType
  <2>4. Cardinality(C \cup P) <= Cardinality(Requests \ {r})
    BY <2>1, <2>3, FS_Subset
  <2> QED BY <1>3, <2>2, <2>3, <2>4
<1>5. \A S \in SUBSET Requests :
        Cardinality(S) = Cardinality(S \ {r}) + (IF r \in S THEN 1 ELSE 0)
  BY Split
<1>6. /\ Cardinality(Comparing(u)) = Cardinality(C) + (IF r \in Comparing(u) THEN 1 ELSE 0)
      /\ Cardinality(Pending(u)) = Cardinality(P) + (IF r \in Pending(u) THEN 1 ELSE 0)
  BY <1>1, <1>5
<1>7. Cardinality(Comparing(u)') = Cardinality(C) + (IF r \in Comparing(u)' THEN 1 ELSE 0)
  BY <1>1, <1>2, <1>5
<1>8. Cardinality(Pending(u)') = Cardinality(P) + (IF r \in Pending(u)' THEN 1 ELSE 0)
  BY <1>1, <1>2, <1>5
<1> HIDE DEF C, P
<1> QED BY <1>3, <1>4, <1>6, <1>7, <1>8

\* Whether handler r is one of those counted, as a number
InComparing(r, u) == IF r \in Comparing(u) THEN 1 ELSE 0
InPending(r, u) == IF r \in Pending(u) THEN 1 ELSE 0

\* It is enough to compare what handler r's own step changes.
LEMMA Balance ==
  ASSUME NEW u \in Users, NEW r \in Requests, \A x \in Requests \ {r} : req'[x] = req[x],
         TypeOK, TypeOK', Accounted(u), Limited(u)
  PROVE  /\ guesses'[u] + attempts[u] + lost[u] + InPending(r, u)
              <= guesses[u] + attempts'[u] + lost'[u] + InPending(r, u)'
            => Accounted(u)'
         /\ guesses'[u] + InComparing(r, u)' + lost[u]
              <= guesses[u] + InComparing(r, u) + lost'[u]
            => Limited(u)'
<1>1. PICK c, p \in Nat :
        /\ Cardinality(Comparing(u)) = c + InComparing(r, u)
        /\ Cardinality(Pending(u)) = p + InPending(r, u)
        /\ Cardinality(Comparing(u))' = c + InComparing(r, u)'
        /\ Cardinality(Pending(u))' = p + InPending(r, u)'
  BY Tally DEF InComparing, InPending
<1>2. /\ guesses[u] \in Nat /\ attempts[u] \in Nat /\ lost[u] \in Nat
      /\ guesses'[u] \in Nat /\ attempts'[u] \in Nat /\ lost'[u] \in Nat
  BY DEF TypeOK
<1>3. /\ InComparing(r, u) \in {0, 1} /\ InPending(r, u) \in {0, 1}
      /\ InComparing(r, u)' \in {0, 1} /\ InPending(r, u)' \in {0, 1}
  BY DEF InComparing, InPending
<1>4. MaxFailedAttempts \in Nat /\ Cardinality(Requests) \in Nat
  BY LimitsAssumption, RequestsAssumption, FS_CardinalityType
<1> QED BY <1>1, <1>2, <1>3, <1>4 DEF Accounted, Limited

\* Nobody compares a password while the account is locked when it was read so.
LEMMA ComparingStarts ==
  ASSUME NEW r \in Requests, CheckLock(r), TypeOK, TypeOK', NoFailureIsOverwritten,
         NEW u \in Users, Accounted(u), Limited(u)
  PROVE  Accounted(u)' /\ Limited(u)'
<1>1. /\ UNCHANGED <<guesses, attempts, lost>>
      /\ \A x \in Requests \ {r} : req'[x] = req[x]
  BY DEF CheckLock, TypeOK, row, history
<1>2. InComparing(r, u) = 0 /\ InPending(r, u) = 0
  BY DEF CheckLock, InComparing, InPending, Comparing, Pending
<1>3. InPending(r, u)' \in {0, 1}
  BY DEF InPending
<1>4. guesses[u] \in Nat /\ attempts[u] \in Nat /\ lost[u] \in Nat
  BY DEF TypeOK
<1>5. Accounted(u)'
  BY <1>1, <1>2, <1>3, <1>4, Balance
<1>6. CASE InComparing(r, u)' = 0
  <2>1. guesses'[u] + InComparing(r, u)' + lost[u]
          <= guesses[u] + InComparing(r, u) + lost'[u]
    BY <1>1, <1>2, <1>4, <1>6
  <2> QED BY <1>1, <1>5, <2>1, Balance
<1>7. CASE InComparing(r, u)' # 0
  <2>1. r \in Comparing(u)'
    BY <1>7 DEF InComparing
  <2>2. ~ locked[u]
    <3>1. req'[r].pc = "compare" /\ req'[r].user = u
      BY <2>1 DEF Comparing
    <3>2. locked[req[r].user] => req'[r].pc = "select"
      BY DEF CheckLock, Counting, TypeOK
    <3>3. ~ locked[req[r].user] => req'[r].user = req[r].user
      BY DEF CheckLock, TypeOK
    <3> QED BY <3>1, <3>2, <3>3
  <2>3. attempts[u] < MaxFailedAttempts
    BY <1>4, <2>2, LimitsAssumption DEF NoFailureIsOverwritten, Reached
  <2>4. PICK c, p \in Nat :
          /\ c + p + 1 <= Cardinality(Requests)
          /\ Cardinality(Pending(u)) = p
          /\ Cardinality(Comparing(u))' = c + 1
    BY <1>1, <1>2, <2>1, Tally DEF InComparing, InPending
  <2>5. Cardinality(Requests) \in Nat
    BY RequestsAssumption, FS_CardinalityType
  <2>6. guesses[u] + (c + 1) < MaxFailedAttempts + lost[u] + Cardinality(Requests)
    BY <1>4, <2>3, <2>4, <2>5, LimitsAssumption DEF Accounted
  <2> QED BY <1>1, <1>5, <2>4, <2>6 DEF Limited
<1> QED BY <1>5, <1>6, <1>7

\* When the counter is cleared, only the handlers already on their way are left.
LEMMA ClearedBound ==
  ASSUME NEW w \in Users, Clear(w), TypeOK, TypeOK', NEW u \in Users,
         Accounted(u), Limited(u),
         Cardinality(Comparing(u))' = Cardinality(Comparing(u)),
         Cardinality(Pending(u))' = Cardinality(Pending(u))
  PROVE  Accounted(u)' /\ Limited(u)'
<1>1. CASE u # w
  BY <1>1 DEF Clear, TypeOK, Accounted, Limited
<1>2. CASE u = w
  <2>1. guesses'[u] = 0 /\ attempts'[u] = 0 /\ lost'[u] = 0
    BY <1>2 DEF Clear, TypeOK
  <2>2. /\ Cardinality(Pending(u)) \in Nat /\ Cardinality(Comparing(u)) \in Nat
        /\ Cardinality(Requests) \in Nat
        /\ Cardinality(Comparing(u)) <= Cardinality(Requests)
    <3>1. Comparing(u) \in SUBSET Requests /\ Pending(u) \in SUBSET Requests
      BY DEF Comparing, Pending
    <3> QED BY <3>1, RequestsAssumption, FS_Subset, FS_CardinalityType
  <2> QED BY <2>1, <2>2, LimitsAssumption DEF Accounted, Limited
<1> QED BY <1>1, <1>2
LEMMA BoundStep ==
  ASSUME TypeOK, TypeOK', Owned, NoFailureIsOverwritten, [Next]_vars,
         NEW u \in Users, Accounted(u), Limited(u)
  PROVE  Accounted(u)' /\ Limited(u)'
<1>1. CASE UNCHANGED vars
  BY <1>1 DEF vars, Accounted, Limited, Comparing, Pending
<1>2. ASSUME NEW w \in Users, AdministratorUnlocks(w)
      PROVE  Accounted(u)' /\ Limited(u)'
  BY <1>2, ClearedBound DEF AdministratorUnlocks, Comparing, Pending
<1>3. ASSUME NEW r \in Requests,
             \/ \E w \in Users : Start(r, w)
             \/ Proceed(r) \/ Contend(r) \/ Fail(r)
      PROVE  Accounted(u)' /\ Limited(u)'
  <2>1. \A x \in Requests \ {r} : req'[x] = req[x]
    BY <1>3, Moved
  <2>2. /\ guesses[u] \in Nat /\ attempts[u] \in Nat /\ lost[u] \in Nat
        /\ req[r] \in Request
    BY DEF TypeOK
  <2>3. CASE (\E w \in Users : Start(r, w)) \/ Right(r)
    <3>1. UNCHANGED <<guesses, attempts, lost>>
      BY <2>3 DEF Start, Right, row, history
    <3>2. InPending(r, u) = 0
      BY <2>3 DEF Start, Right, InPending, Pending, Idle
    <3>3. InPending(r, u)' \in {0, 1} /\ InComparing(r, u) \in {0, 1}
      BY DEF InPending, InComparing
    <3>4. req'[r].pc # "compare"
      <4>1. CASE Right(r)
        BY <2>2, <4>1, Kinds DEF Right, Try, TypeOK
      <4> QED BY <2>3, <4>1 DEF Start, TypeOK
    <3>5. InComparing(r, u)' = 0
      BY <3>4 DEF InComparing, Comparing
    <3> QED BY <2>1, <2>2, <3>1, <3>2, <3>3, <3>5, Balance
  <2>4. CASE CheckLock(r)
    BY <2>4, ComparingStarts
  <2>5. CASE Wrong(r)
    <3>1. UNCHANGED <<attempts, lost>> /\ req[r].user \in Users
      BY <2>2, <2>5, Kinds DEF Wrong, row
    <3>2. /\ req[r].pc = "compare" /\ req'[r].pc = "select" /\ req'[r].guess = TRUE
          /\ req'[r].user = req[r].user
      BY <2>5 DEF Wrong, Counting, TypeOK
    <3>3. InPending(r, u) = 0 /\ InComparing(r, u)' = 0
      BY <3>2 DEF InPending, InComparing, Pending, Comparing
    <3>4. CASE u = req[r].user
      <4>1. guesses'[u] = guesses[u] + 1
        BY <2>5, <3>4 DEF Wrong, TypeOK
      <4>2. InPending(r, u)' = 1 /\ InComparing(r, u) = 1
        BY <3>2, <3>4 DEF InPending, InComparing, Pending, Comparing
      <4> QED BY <2>1, <2>2, <3>1, <3>3, <4>1, <4>2, Balance
    <3>5. CASE u # req[r].user
      <4>1. guesses'[u] = guesses[u]
        BY <2>5, <3>5 DEF Wrong, TypeOK
      <4>2. InPending(r, u)' = 0 /\ InComparing(r, u) = 0
        BY <3>2, <3>5 DEF InPending, InComparing, Pending, Comparing
      <4> QED BY <2>1, <2>2, <3>1, <3>3, <4>1, <4>2, Balance
    <3> QED BY <3>4, <3>5
  <2>6. CASE SelectForUpdate(r)
    <3>1. UNCHANGED <<guesses, attempts, lost>> /\ req[r] \in Count
      BY <2>2, <2>6, Kinds DEF SelectForUpdate, history
    <3>2. /\ req'[r].pc = "update" /\ req'[r].user = req[r].user
          /\ req'[r].guess = req[r].guess /\ req[r].pc = "select"
      BY <2>6, <3>1 DEF SelectForUpdate, Count, TypeOK
    <3>3. InPending(r, u)' = InPending(r, u)
      BY <3>2 DEF InPending, Pending
    <3>4. InComparing(r, u)' = 0 /\ InComparing(r, u) = 0 /\ InPending(r, u) \in {0, 1}
      BY <3>2 DEF InComparing, Comparing, InPending
    <3> QED BY <2>1, <2>2, <3>1, <3>3, <3>4, Balance
  <2>7. CASE Update(r)
    <3>1. /\ UNCHANGED <<guesses, lost>> /\ req[r].user \in Users
          /\ req[r].read = attempts[req[r].user] /\ req[r].pc = "update"
      BY <2>2, <2>7, Kinds DEF Update, Owned
    <3>2. req'[r].pc = "idle"
      BY <2>7 DEF Update, Finish, Idle, TypeOK
    <3>3. InPending(r, u)' = 0 /\ InComparing(r, u)' = 0 /\ InComparing(r, u) = 0
      BY <3>1, <3>2 DEF InPending, InComparing, Pending, Comparing
    <3>4. CASE u = req[r].user
      <4>1. attempts'[u] = attempts[u] + 1
        BY <2>7, <3>1, <3>4 DEF Update, TypeOK
      <4>2. InPending(r, u) \in {0, 1}
        BY DEF InPending
      <4> QED BY <2>1, <2>2, <3>1, <3>3, <4>1, <4>2, Balance
    <3>5. CASE u # req[r].user
      <4>1. attempts'[u] = attempts[u]
        BY <2>7, <3>5 DEF Update, TypeOK
      <4>2. InPending(r, u) = 0
        BY <3>5 DEF InPending, Pending
      <4> QED BY <2>1, <2>2, <3>1, <3>3, <4>1, <4>2, Balance
    <3> QED BY <3>4, <3>5
  <2>8. CASE Reset(r)
    <3>1. req[r].user \in Users /\ Clear(req[r].user) /\ req[r].pc = "reset"
      BY <2>2, <2>8, Kinds DEF Reset
    <3>2. req'[r].pc = "idle"
      BY <2>8 DEF Reset, Finish, Idle, TypeOK
    <3>3. Comparing(u)' = Comparing(u) /\ Pending(u)' = Pending(u)
      BY <2>1, <3>1, <3>2 DEF Comparing, Pending
    <3> QED BY <3>1, <3>3, ClearedBound
  <2>9. CASE Fail(r)
    <3>1. UNCHANGED <<guesses, attempts>> /\ req[r].user \in Users
      BY <2>2, <2>9, Kinds DEF Fail
    <3>2. req'[r].pc = "idle"
      BY <2>9 DEF Fail, Finish, Idle, TypeOK
    <3>3. /\ InPending(r, u)' = 0 /\ InComparing(r, u)' = 0
          /\ InComparing(r, u) \in {0, 1}
      BY <3>2 DEF InPending, InComparing, Pending, Comparing
    <3>4. CASE r \in Pending(u)
      <4>1. lost' = [lost EXCEPT ![u] = @ + 1]
        BY <2>9, <3>4, Zenon DEF Fail, Pending
      <4>2. lost'[u] = lost[u] + 1
        BY <4>1 DEF TypeOK
      <4>3. InPending(r, u) = 1
        BY <3>4 DEF InPending
      <4> QED BY <2>1, <2>2, <3>1, <3>3, <4>2, <4>3, Balance
    <3>5. CASE r \notin Pending(u)
      <4>1. lost' = lost \/ lost' = [lost EXCEPT ![req[r].user] = @ + 1]
        BY <2>9, Zenon DEF Fail
      <4>2. lost'[u] >= lost[u] /\ lost'[u] \in Nat
        BY <3>1, <4>1 DEF TypeOK
      <4>3. InPending(r, u) = 0
        BY <3>5 DEF InPending
      <4> QED BY <2>1, <2>2, <3>1, <3>3, <4>2, <4>3, Balance
    <3> QED BY <3>4, <3>5
  <2> QED BY <1>3, <2>3, <2>4, <2>5, <2>6, <2>7, <2>8, <2>9 DEF Proceed, Contend
<1> QED BY <1>1, <1>2, <1>3 DEF Next

LEMMA InvariantInit == Init => IInv
<1> SUFFICES ASSUME Init
             PROVE  IInv
  OBVIOUS
<1>1. TypeOK
  BY TypeInit
<1>2. Owned
  BY DEF Init, Owned, Idle
<1>3. NoFailureIsOverwritten
  BY LimitsAssumption DEF Init, NoFailureIsOverwritten, Reached
<1>4. ASSUME NEW u \in Users
      PROVE  Accounted(u) /\ Limited(u)
  <2>1. Comparing(u) = {} /\ Pending(u) = {}
    BY DEF Init, Idle, Comparing, Pending
  <2>2. Cardinality(Requests) \in Nat
    BY RequestsAssumption, FS_CardinalityType
  <2> QED BY <2>1, <2>2, FS_EmptySet, LimitsAssumption DEF Init, Accounted, Limited
<1> QED BY <1>1, <1>2, <1>3, <1>4 DEF IInv

LEMMA InvariantStep == IInv /\ [Next]_vars => IInv'
BY TypeStep, CounterStep, BoundStep DEF IInv

\* Failed attempts that are counted at the same time are all counted, and lock
\* the account at the configured number.
THEOREM EveryFailureCounts == Spec => []NoFailureIsOverwritten
<1>1. IInv => NoFailureIsOverwritten
  BY DEF IInv
<1> QED BY <1>1, InvariantInit, InvariantStep, PTL DEF Spec

\* However the tries overlap, no more wrong passwords are compared than the
\* maximum, one per handler, and what the server failed to count.
THEOREM GuessLimit == Spec => []GuessesAreBounded
<1>1. IInv => GuessesAreBounded
  <2> SUFFICES ASSUME IInv, NEW u \in Users
               PROVE  guesses[u] < MaxFailedAttempts + Cardinality(Requests) + lost[u]
    BY DEF GuessesAreBounded
  <2>1. Comparing(u) \in SUBSET Requests
    BY DEF Comparing
  <2>2. Cardinality(Comparing(u)) \in Nat /\ Cardinality(Requests) \in Nat
    BY <2>1, RequestsAssumption, FS_Subset, FS_CardinalityType
  <2>3. guesses[u] \in Nat /\ lost[u] \in Nat /\ Limited(u)
    BY DEF IInv, TypeOK
  <2> QED BY <2>2, <2>3, LimitsAssumption DEF Limited
<1> QED BY <1>1, InvariantInit, InvariantStep, PTL DEF Spec
-----------------------------------------------------------------------------
(* What EveryTryEnds rests on, beside fairness: nobody waits for a row     *)
(* that nobody will give back, and no try goes in circles.                 *)

\* A row is held only by a transaction that is about to write it and wait for nothing.
HeldByWriters ==
  \A u \in Users : rowLock[u] # Nobody => /\ req[rowLock[u]].pc = "update"
                                          /\ req[rowLock[u]].user = u

\* How far a try is; its end is the farthest.
Stage == [check |-> 1, compare |-> 2, select |-> 3, reset |-> 3, update |-> 4, idle |-> 5]

GoesForward ==
  \A r \in Requests :
    req[r] # Idle /\ req'[r] # req[r] => Stage[req[r].pc] < Stage[req'[r].pc]

\* A step of a handler that does not hold the row, and does not take it, leaves it held
\* as it was.
LEMMA StillHeld ==
  ASSUME TypeOK, HeldByWriters, NEW r \in Requests,
         req[r].pc # "update", UNCHANGED rowLock,
         \A x \in Requests \ {r} : req'[x] = req[x]
  PROVE  HeldByWriters'
<1> SUFFICES ASSUME NEW u \in Users, rowLock[u] # Nobody
             PROVE  req'[rowLock[u]].pc = "update" /\ req'[rowLock[u]].user = u
  BY DEF HeldByWriters
<1>1. rowLock[u] \in Requests /\ rowLock[u] # r
  BY DEF TypeOK, HeldByWriters
<1> QED BY <1>1 DEF HeldByWriters

\* The end of a transaction, committed or rolled back
LEMMA GivenBack ==
  ASSUME TypeOK, Owned, HeldByWriters, NEW r \in Requests, req[r].pc = "update",
         Unlock(req[r].user), \A x \in Requests \ {r} : req'[x] = req[x]
  PROVE  HeldByWriters'
<1> SUFFICES ASSUME NEW u \in Users, rowLock'[u] # Nobody
             PROVE  req'[rowLock'[u]].pc = "update" /\ req'[rowLock'[u]].user = u
  BY DEF HeldByWriters
<1>1. u # req[r].user /\ rowLock'[u] = rowLock[u]
  BY Kinds DEF Unlock, TypeOK
<1>2. rowLock[u] \in Requests /\ rowLock[u] # r
  BY <1>1 DEF TypeOK, HeldByWriters
<1> QED BY <1>1, <1>2 DEF HeldByWriters

LEMMA HeldStep ==
  ASSUME TypeOK, Owned, HeldByWriters, [Next]_vars
  PROVE  HeldByWriters'
<1>1. CASE UNCHANGED vars
  BY <1>1 DEF vars, HeldByWriters
<1>2. ASSUME NEW u \in Users, AdministratorUnlocks(u)
      PROVE  HeldByWriters'
  BY <1>2 DEF AdministratorUnlocks, Clear, HeldByWriters
<1>3. ASSUME NEW r \in Requests,
             \/ \E u \in Users : Start(r, u)
             \/ Proceed(r) \/ Contend(r) \/ Fail(r)
      PROVE  HeldByWriters'
  <2>1. \A x \in Requests \ {r} : req'[x] = req[x]
    BY <1>3, Moved
  <2>2. CASE (\E u \in Users : Start(r, u)) \/ CheckLock(r) \/ Right(r) \/ Wrong(r) \/ Reset(r)
    <3>1. UNCHANGED rowLock
      BY <2>2 DEF Start, CheckLock, Right, Wrong, Reset, Clear, row
    <3>2. req[r].pc \in {"idle", "check", "compare", "reset"}
      <4>1. req[r] = Idle => req[r].pc = "idle"
        BY DEF Idle
      <4> QED BY <2>2, <4>1, Zenon DEF Start, CheckLock, Right, Wrong, Reset
    <3> QED BY <2>1, <3>1, <3>2, StillHeld
  <2>3. CASE Update(r)
    BY <2>1, <2>3, GivenBack DEF Update
  <2>4. CASE Fail(r)
    <3>1. CASE req[r].pc = "update"
      BY <2>1, <2>4, <3>1, GivenBack, Zenon DEF Fail
    <3>2. CASE req[r].pc # "update"
      BY <2>1, <2>4, <3>2, StillHeld, Zenon DEF Fail
    <3> QED BY <3>1, <3>2
  <2>5. CASE SelectForUpdate(r)
    <3>1. req[r] \in Count /\ req[r].user \in Users
      BY <2>5, Kinds DEF SelectForUpdate, TypeOK, Count
    <3>2. req'[r].pc = "update" /\ req'[r].user = req[r].user
      BY <2>5, <3>1 DEF SelectForUpdate, Count, TypeOK
    <3>3. ASSUME NEW u \in Users, rowLock'[u] # Nobody
          PROVE  req'[rowLock'[u]].pc = "update" /\ req'[rowLock'[u]].user = u
      <4>1. CASE u = req[r].user
        BY <2>5, <3>2, <4>1 DEF SelectForUpdate, TypeOK
      <4>2. CASE u # req[r].user
        <5>1. rowLock'[u] = rowLock[u]
          BY <2>5, <4>2 DEF SelectForUpdate, TypeOK
        <5>2. rowLock[u] \in Requests /\ rowLock[u] # r
          BY <2>5, <3>3, <5>1 DEF TypeOK, HeldByWriters, SelectForUpdate
        <5> QED BY <2>1, <3>3, <5>1, <5>2 DEF HeldByWriters
      <4> QED BY <4>1, <4>2
    <3> QED BY <3>3 DEF HeldByWriters
  <2> QED BY <1>3, <2>2, <2>3, <2>4, <2>5 DEF Proceed, Contend
<1> QED BY <1>1, <1>2, <1>3 DEF Next

\* However tries fail, overlap or lose their connection, a row that somebody waits for
\* is free or held by a transaction that waits for nobody.
THEOREM NobodyWaitsInVain == Spec => []HeldByWriters
<1>1. Init => HeldByWriters
  BY DEF Init, HeldByWriters
<1>2. IInv /\ HeldByWriters /\ [Next]_vars => HeldByWriters'
  BY HeldStep DEF IInv
<1> QED BY <1>1, <1>2, InvariantInit, InvariantStep, PTL DEF Spec

LEMMA ForwardStep ==
  ASSUME TypeOK, Next
  PROVE  GoesForward
<1> SUFFICES ASSUME NEW x \in Requests, req[x] # Idle, req'[x] # req[x]
             PROVE  Stage[req[x].pc] < Stage[req'[x].pc]
  BY DEF GoesForward
<1>1. PICK r \in Requests : \/ \E u \in Users : Start(r, u)
                            \/ Proceed(r) \/ Contend(r) \/ Fail(r)
  BY DEF Next, AdministratorUnlocks
<1>2. x = r /\ req[r] \in Request /\ ~ \E u \in Users : Start(r, u)
  BY <1>1, Moved DEF TypeOK, Start
<1>3. CASE CheckLock(r)
  BY <1>2, <1>3 DEF CheckLock, Counting, Stage, TypeOK
<1>4. CASE Right(r) \/ Wrong(r)
  <2>1. req[r].pc = "compare" /\ req[r] \in Try
    BY <1>2, <1>4, Kinds DEF Right, Wrong
  <2>2. req'[r].pc \in {"reset", "select"}
    BY <1>4, <2>1 DEF Right, Wrong, Counting, Try, TypeOK
  <2> QED BY <1>2, <2>1, <2>2 DEF Stage
<1>5. CASE SelectForUpdate(r)
  <2>1. req[r].pc = "select" /\ req[r] \in Count
    BY <1>2, <1>5, Kinds DEF SelectForUpdate
  <2>2. req'[r].pc = "update"
    BY <1>5, <2>1 DEF SelectForUpdate, Count, TypeOK
  <2> QED BY <1>2, <2>1, <2>2 DEF Stage
<1>6. CASE Update(r) \/ Reset(r) \/ Fail(r)
  <2>1. req'[r].pc = "idle"
    BY <1>6 DEF Update, Reset, Fail, Finish, Idle, TypeOK
  <2>2. req[r].pc \in {"check", "compare", "select", "update", "reset"}
    BY <1>2, Kinds
  <2> QED BY <1>2, <2>1, <2>2 DEF Stage
<1> QED BY <1>1, <1>2, <1>3, <1>4, <1>5, <1>6 DEF Proceed, Contend

\* No statement is made twice by one try, so that each is over after four of its own.
THEOREM TriesGoForward == Spec => [][GoesForward]_vars
<1>1. TypeOK /\ Next => GoesForward
  BY ForwardStep
<1>2. TypeOK /\ [Next]_vars => [GoesForward]_vars
  BY <1>1
<1> QED BY <1>2, TypeCorrect, PTL DEF Spec
=============================================================================
