--------------------------- MODULE LoginActivity ---------------------------
(***************************************************************************)
(* The lock-out of user/service.ts and login/login-activity/service.ts:    *)
(* failed password checks are counted in user_login_activity, and an       *)
(* account with MaxFailedAttempts of them is locked.                       *)
(*                                                                         *)
(* validateUserCredentials() runs in one of the slots Requests for the     *)
(* login form, the password grant and the login challenge; the actions are *)
(* its statements.  A row that does not exist yet counts as a row of       *)
(* zeros: every reader inserts one first, ignoring conflicts.              *)
(***************************************************************************)
EXTENDS Naturals, FiniteSets

CONSTANTS
  Requests,           \* handler slots: requests the server works on at once
  Users,
  MaxFailedAttempts,  \* MAX_FAILED_ATTEMPTS
  MaxCount,           \* bound of the model: attempts at which no try is started
  MaxLost,            \* bound of the model: failures of the server that matter
  Nobody              \* no transaction holds the row

ASSUME LimitsAssumption == /\ MaxFailedAttempts \in Nat \ {0}
                           /\ MaxCount \in Nat
                           /\ MaxLost \in Nat
                           /\ Nobody \notin Requests
ASSUME RequestsAssumption == IsFiniteSet(Requests)

VARIABLES
  attempts,  \* user_login_activity.failed_login_attempts
  locked,    \* user_login_activity.account_locked
  rowLock,   \* the request whose transaction holds the user's row
  req,       \* what each slot holds between two awaits
  counted,   \* history: transactions committed since the last reset
  guesses,   \* history: wrong passwords compared since the last reset
  lost       \* history: those of them that failed before they were counted

vars == <<attempts, locked, rowLock, req, counted, guesses, lost>>
row == <<attempts, locked, rowLock>>
history == <<counted, guesses, lost>>

Idle == [pc |-> "idle"]
Try == [pc : {"check", "compare", "reset"}, user : Users]
Count == [pc : {"select", "update"}, user : Users, guess : BOOLEAN, read : Nat]
Request == [pc : {"idle"}] \cup Try \cup Count

\* reachedMaxAttempts()
Reached(n) == n >= MaxFailedAttempts

\* Mutant of Finish: what the slot held is left to the next try.
FinishKeepsUser(r) == req' = [req EXCEPT ![r].pc = "idle"]

Finish(r) == req' = [req EXCEPT ![r] = Idle]

\* Mutant of Unlock: the transaction is never closed.
UnlockNever(u) == UNCHANGED rowLock

\* The end of a transaction
Unlock(u) == rowLock' = [rowLock EXCEPT ![u] = Nobody]

\* Mutant of RowFree: SELECT without forUpdate().
RowFreeAlways(u) == TRUE

\* FOR UPDATE and UPDATE wait for the transaction that holds the row.
RowFree(u) == rowLock[u] = Nobody
-----------------------------------------------------------------------------
Start(r, u) ==
  /\ req[r] = Idle /\ attempts[u] < MaxCount
  /\ req' = [req EXCEPT ![r] = [pc |-> "check", user |-> u]]
  /\ UNCHANGED <<row, history>>

Counting(u, guess) == [pc |-> "select", user |-> u, guess |-> guess, read |-> 0]

\* Mutant of CheckLock: the lock is not looked at.
CheckLockSkipped(r) ==
  /\ req[r].pc = "check"
  /\ req' = [req EXCEPT ![r] = [pc |-> "compare", user |-> req[r].user]]
  /\ UNCHANGED <<row, history>>

\* isAccountLocked(): on a locked account the attempt is counted unseen.
CheckLock(r) ==
  /\ req[r].pc = "check"
  /\ LET u == req[r].user IN
       req' = [req EXCEPT ![r] = IF locked[u] THEN Counting(u, FALSE)
                                              ELSE [pc |-> "compare", user |-> u]]
  /\ UNCHANGED <<row, history>>

\* validatePassword(): the hashes are read and compared.
Right(r) ==
  /\ req[r].pc = "compare"
  /\ req' = [req EXCEPT ![r].pc = "reset"]
  /\ UNCHANGED <<row, history>>

Wrong(r) ==
  /\ req[r].pc = "compare"
  /\ LET u == req[r].user IN
       /\ req' = [req EXCEPT ![r] = Counting(u, TRUE)]
       /\ guesses' = [guesses EXCEPT ![u] = @ + 1]
  /\ UNCHANGED <<row, counted, lost>>

\* incrementFailedLoginAttempts(): SELECT ... FOR UPDATE
SelectForUpdate(r) ==
  /\ req[r].pc = "select"
  /\ LET u == req[r].user IN
       /\ RowFree(u)
       /\ rowLock' = [rowLock EXCEPT ![u] = r]
       /\ req' = [req EXCEPT ![r] = [@ EXCEPT !.pc = "update", !.read = attempts[u]]]
  /\ UNCHANGED <<attempts, locked, history>>

\* ... UPDATE, COMMIT
Update(r) ==
  /\ req[r].pc = "update"
  /\ LET u == req[r].user
         newAttempts == req[r].read + 1
     IN /\ attempts' = [attempts EXCEPT ![u] = newAttempts]
        /\ locked'   = [locked EXCEPT ![u] = Reached(newAttempts)]
        /\ Unlock(u)
        /\ counted'  = [counted EXCEPT ![u] = @ + 1]
  /\ Finish(r)
  /\ UNCHANGED <<guesses, lost>>

\* resetFailedLoginAttempts(), one UPDATE
Clear(u) ==
  /\ RowFree(u)
  /\ attempts' = [attempts EXCEPT ![u] = 0]
  /\ locked'   = [locked EXCEPT ![u] = FALSE]
  /\ counted'  = [counted EXCEPT ![u] = 0]
  /\ guesses'  = [guesses EXCEPT ![u] = 0]
  /\ lost'     = [lost EXCEPT ![u] = 0]
  /\ UNCHANGED rowLock

Reset(r) ==
  /\ req[r].pc = "reset"
  /\ Clear(req[r].user)
  /\ Finish(r)

\* The administrator the message names; by hand, as no route does it.
AdministratorUnlocks(u) ==
  /\ locked[u]
  /\ Clear(u)
  /\ UNCHANGED req

\* A statement fails or the connection is lost: the transaction is rolled back,
\* and a wrong guess that was not counted yet never will be.
Fail(r) ==
  /\ req[r] # Idle
  /\ LET u == req[r].user
         uncounted == req[r].pc \in {"select", "update"} /\ req[r].guess
     IN /\ uncounted => lost[u] < MaxLost
        /\ lost' = IF uncounted THEN [lost EXCEPT ![u] = @ + 1] ELSE lost
        /\ IF req[r].pc = "update" THEN Unlock(u) ELSE UNCHANGED rowLock
  /\ Finish(r)
  /\ UNCHANGED <<attempts, locked, counted, guesses>>
-----------------------------------------------------------------------------
Init ==
  /\ attempts = [u \in Users |-> 0]
  /\ locked = [u \in Users |-> FALSE]
  /\ rowLock = [u \in Users |-> Nobody]
  /\ req = [r \in Requests |-> Idle]
  /\ counted = [u \in Users |-> 0]
  /\ guesses = [u \in Users |-> 0]
  /\ lost = [u \in Users |-> 0]

Proceed(r) == CheckLock(r) \/ Right(r) \/ Wrong(r) \/ Update(r)
Contend(r) == SelectForUpdate(r) \/ Reset(r)

Next == \/ \E r \in Requests : \/ \E u \in Users : Start(r, u)
                               \/ Proceed(r) \/ Contend(r) \/ Fail(r)
        \/ \E u \in Users : AdministratorUnlocks(u)

\* The event loop resumes every handler, and the database grants a row lock to
\* the transactions waiting for it in turn.
Fairness == \A r \in Requests : WF_vars(Proceed(r)) /\ SF_vars(Contend(r))

Spec == Init /\ [][Next]_vars
FairSpec == Spec /\ Fairness
-----------------------------------------------------------------------------
(* Properties                                                              *)

TypeOK ==
  /\ attempts \in [Users -> Nat]
  /\ locked \in [Users -> BOOLEAN]
  /\ rowLock \in [Users -> Requests \cup {Nobody}]
  /\ req \in [Requests -> Request]
  /\ counted \in [Users -> Nat]
  /\ guesses \in [Users -> Nat]
  /\ lost \in [Users -> Nat]

\* Concurrent failures do not overwrite each other: the counter is the number of
\* failed attempts since it was last cleared, and it locks the account as soon as
\* there are enough of them.
NoFailureIsOverwritten ==
  \A u \in Users : /\ attempts[u] = counted[u]
                   /\ locked[u] <=> Reached(counted[u])

\* How many wrong passwords are compared before the counter is cleared: all
\* handlers may pass the lock check on the last attempt, and what the server
\* failed to count is not counted.
GuessesAreBounded ==
  \A u \in Users :
    guesses[u] < MaxFailedAttempts + Cardinality(Requests) + lost[u]

\* No try waits for ever: a transaction that took the row gives it back.
EveryTryEnds == \A r \in Requests : req[r] # Idle ~> req[r] = Idle
=============================================================================
