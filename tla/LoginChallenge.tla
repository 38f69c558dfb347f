--------------------------- MODULE LoginChallenge ---------------------------
(***************************************************************************)
(* The authorization challenge of login/service.ts: an app logs a user in  *)
(* over several requests, and login/challenge/*.ts check what each of them *)
(* answers.  In between, the login session is in the key/value store.      *)
(*                                                                         *)
(* Redis gives every request a copy of the session, the memory store the   *)
(* object itself: SharedObjects tells which.  The actions of a request are *)
(* what runs between two awaits.  Time is left out: a stored session may   *)
(* expire at any moment.                                                   *)
(***************************************************************************)
EXTENDS Naturals, FiniteSets

CONSTANTS
  Requests,       \* handler slots: requests the server works on at once
  Sessions,       \* auth_session ids, each generated once
  Clients, Users,
  Identities,     \* rows of principal_identities, each of one user
  Owner,          \* identity -> user
  Credentials,    \* user -> those of password, totp and email-otp that are set up
  Editable,       \* bound of the model: the users an administrator edits
  SharedObjects,
  Null

\* getChallengesForPrincipal(), in its order
Order == <<"password", "email-verification", "totp", "email-otp">>
Factors == {Order[i] : i \in 1..4}
Place(f) == CHOOSE i \in 1..4 : Order[i] = f

ASSUME UsersAssumption == /\ Owner \in [Identities -> Users]
                          /\ Credentials \in [Users -> SUBSET (Factors \ {"email-verification"})]
                          /\ Editable \subseteq Users
                          /\ SharedObjects \in BOOLEAN
                          /\ Null \notin Users \cup Identities

VARIABLES
  kv,        \* auth_session -> the stored session, or Null
  heap,      \* the objects that requests hold: by session if shared, by request if not
  started,   \* the sessions whose id was generated
  active,    \* users whose principals.active is set
  verified,  \* identities whose verified_at is set
  req,       \* what each slot holds between two awaits
  proven,    \* history: <<session, user, factor>> for every answer that was right
  codes      \* history: the authorization codes generated

vars == <<kv, heap, started, active, verified, req, proven, codes>>
history == <<proven, codes>>

LoginSession == [client : Clients, principal : Users \cup {Null},
                 identity : Identities \cup {Null}, completed : SUBSET Factors]
Blank(c) == [client |-> c, principal |-> Null, identity |-> Null, completed |-> {}]
Objects == IF SharedObjects THEN Sessions ELSE Requests

Idle == [pc |-> "idle"]
Request ==
  [pc : {"idle"}]
    \cup [pc : {"context", "store", "delete"}, session : Sessions]
    \cup [pc : {"resume"}, session : Sessions, user : Users, identity : Identities,
          unverified : BOOLEAN]
    \cup [pc : {"issue"}, session : Sessions, user : Users, identity : Identities]
    \cup [pc : {"check"}, session : Sessions, user : Users, identity : Identities,
          challenges : SUBSET Factors, todo : SUBSET Factors]

\* The session object that request r works on
Handle(r) == IF SharedObjects THEN req[r].session ELSE r
Session(r) == heap[Handle(r)]

Goto(r, pc) == req' = [req EXCEPT ![r] = [pc |-> pc, session |-> req[r].session]]

\* A copy is gone with its request.
Finish(r) ==
  /\ req' = [req EXCEPT ![r] = Idle]
  /\ heap' = IF SharedObjects THEN heap ELSE [heap EXCEPT ![r] = Null]

\* What the request works on after get(): redis parses a copy of its own for it.
Taken(r, s) == IF SharedObjects THEN heap ELSE [heap EXCEPT ![r] = kv[s]]

\* What set() puts under the key: redis the whole session; with a shared object it
\* only matters that it is there, and whose it is.
Kept(r) == IF SharedObjects THEN Blank(Session(r).client) ELSE Session(r)

\* userHasChallenge() of the four classes
Challenges(u, unverified) ==
  Credentials[u] \cup (IF unverified THEN {"email-verification"} ELSE {})

\* The rule for the number of passes
TooFew(completed, challenges) ==
  (Cardinality(completed) < 2 /\ Cardinality(challenges) > 1) \/ completed = {}
-----------------------------------------------------------------------------
\* startLoginSession()
StartNew(r, s, c) ==
  /\ req[r] = Idle /\ s \notin started
  /\ started' = started \cup {s}
  /\ heap' = [heap EXCEPT ![IF SharedObjects THEN s ELSE r] = Blank(c)]
  /\ req' = [req EXCEPT ![r] = [pc |-> "context", session |-> s]]
  /\ UNCHANGED <<kv, active, verified, history>>

\* continueLoginSession()
StartContinue(r, s, c) ==
  /\ req[r] = Idle
  /\ kv[s] # Null /\ kv[s].client = c
  /\ heap' = Taken(r, s)
  /\ req' = [req EXCEPT ![r] = [pc |-> "context", session |-> s]]
  /\ UNCHANGED <<kv, started, active, verified, history>>

\* POST /authorization-challenge, by a client that may use it: without auth_session
\* or with one
Post(r) == \E s \in Sessions, c \in Clients : StartNew(r, s, c) \/ StartContinue(r, s, c)

\* Mutant of Known: the username in the request is always looked up.
KnownNever(session) == FALSE

\* The session says who logs in.
Known(session) == session.principal # Null /\ session.identity # Null

\* findById(principal, id) takes the first of the user's identities, in no order.
MayBeFound(i, user) == Owner[i] = user

\* initChallengeContext(): from the session or from the username in the request
Context(r) ==
  /\ req[r].pc = "context"
  /\ \E i \in Identities :
       /\ Known(Session(r)) => MayBeFound(i, Session(r).principal)
       /\ IF Owner[i] \in active
            THEN req' = [req EXCEPT ![r] = [pc |-> "resume", session |-> req[r].session,
                                            user |-> Owner[i], identity |-> i,
                                            unverified |-> i \notin verified]]
            ELSE Goto(r, "store")
  /\ UNCHANGED <<kv, heap, started, active, verified, history>>

\* No username, or one that nobody has
ContextUnknown(r) ==
  /\ req[r].pc = "context" /\ ~ Known(Session(r))
  /\ Goto(r, "store")
  /\ UNCHANGED <<kv, heap, started, active, verified, history>>

\* The session is told who logs in, and the challenges are listed.
Resume(r) ==
  /\ req[r].pc = "resume"
  /\ LET u == req[r].user
         i == req[r].identity
         challenges == Challenges(u, req[r].unverified)
     IN /\ heap' = [heap EXCEPT ![Handle(r)].principal = u, ![Handle(r)].identity = i]
        /\ IF challenges = {}
             THEN Goto(r, "store")
             ELSE req' = [req EXCEPT ![r] =
                    [pc |-> "check", session |-> req[r].session, user |-> u, identity |-> i,
                     challenges |-> challenges, todo |-> challenges]]
  /\ UNCHANGED <<kv, started, active, verified, history>>
-----------------------------------------------------------------------------
(* The challenges, one after the other                                     *)

Checking(r, f) ==
  /\ req[r].pc = "check" /\ f \in req[r].todo
  /\ \A g \in req[r].todo : Place(f) <= Place(g)

Onward(r, f) == req' = [req EXCEPT ![r].todo = @ \ {f}]

\* Passed earlier, or the request has no answer to it
Skip(r, f) ==
  /\ Checking(r, f)
  /\ Onward(r, f)
  /\ UNCHANGED <<kv, heap, started, active, verified, history>>

\* Mutant of Pass: what is noted is not the factor.
PassOfNone(r, f) == heap' = [heap EXCEPT ![Handle(r)].completed = @ \cup {Null}]

Pass(r, f) == heap' = [heap EXCEPT ![Handle(r)].completed = @ \cup {f}]

\* A code sent to an address verifies it: the one logged in with, or the first
\* one for MFA.
Verifies(r, f) ==
  IF f = "email-verification" THEN {{req[r].identity}}
  ELSE IF f = "email-otp" THEN {{i} : i \in {j \in Identities : Owner[j] = req[r].user}}
  ELSE {{}}

CheckRight(r, f) ==
  /\ Checking(r, f) /\ f \notin Session(r).completed
  /\ Pass(r, f)
  /\ proven' = proven \cup {<<req[r].session, req[r].user, f>>}
  /\ \E ids \in Verifies(r, f) : verified' = verified \cup ids
  /\ Onward(r, f)
  /\ UNCHANGED <<kv, started, active, codes>>

CheckWrong(r, f) ==
  /\ Checking(r, f) /\ f \notin Session(r).completed
  /\ Goto(r, "store")
  /\ UNCHANGED <<kv, heap, started, active, verified, history>>

\* The first challenge that is still open throws.
Decide(r) ==
  /\ req[r].pc = "check" /\ req[r].todo = {}
  /\ LET done == Session(r).completed IN
       IF TooFew(done, req[r].challenges) /\ ~ req[r].challenges \subseteq done
         THEN Goto(r, "store")
         ELSE req' = [req EXCEPT ![r] = [pc |-> "issue", session |-> req[r].session,
                                         user |-> req[r].user, identity |-> req[r].identity]]
  /\ UNCHANGED <<kv, heap, started, active, verified, history>>

\* generateAuthorizationCode(); whether it succeeds or not the session is deleted.
Issue(r) ==
  /\ req[r].pc = "issue"
  /\ codes' = codes \cup {[session |-> req[r].session, user |-> req[r].user,
                           completed |-> Session(r).completed]}
  /\ Goto(r, "delete")
  /\ UNCHANGED <<kv, heap, started, active, verified, proven>>

Delete(r) ==
  /\ req[r].pc = "delete"
  /\ kv' = [kv EXCEPT ![req[r].session] = Null]
  /\ Finish(r)
  /\ UNCHANGED <<started, active, verified, history>>

\* storeSession()
Store(r) ==
  /\ req[r].pc = "store"
  /\ kv' = [kv EXCEPT ![req[r].session] = Kept(r)]
  /\ Finish(r)
  /\ UNCHANGED <<started, active, verified, history>>
-----------------------------------------------------------------------------
(* Failures and the rest of the system                                     *)

\* A statement fails: "finally" still stores or deletes the session, unless it is
\* that statement.
Fail(r) ==
  /\ req[r] # Idle
  /\ \/ req[r].pc \in {"store", "delete"} /\ Finish(r)
     \/ /\ req[r].pc \notin {"store", "delete"}
        /\ Goto(r, IF req[r].pc = "issue" THEN "delete" ELSE "store")
        /\ UNCHANGED heap
  /\ UNCHANGED <<kv, started, active, verified, history>>

Expire(s) ==
  /\ kv[s] # Null
  /\ kv' = [kv EXCEPT ![s] = Null]
  /\ UNCHANGED <<heap, started, active, verified, req, history>>

SetActive(u) ==
  /\ active' = IF u \in active THEN active \ {u} ELSE active \cup {u}
  /\ UNCHANGED <<kv, heap, started, verified, req, history>>

\* The server restarts, and the memory store with it.
Restart ==
  /\ req' = [r \in Requests |-> Idle]
  /\ kv' = IF SharedObjects THEN [s \in Sessions |-> Null] ELSE kv
  /\ heap' = [o \in Objects |-> Null]
  /\ UNCHANGED <<started, active, verified, history>>

Init ==
  /\ kv = [s \in Sessions |-> Null]
  /\ heap = [o \in Objects |-> Null]
  /\ started = {}
  /\ active = Users
  /\ verified \in SUBSET Identities
  /\ req = [r \in Requests |-> Idle]
  /\ proven = {} /\ codes = {}

Step(r) ==
  \/ Context(r) \/ ContextUnknown(r) \/ Resume(r)
  \/ \E f \in Factors : Skip(r, f) \/ CheckRight(r, f) \/ CheckWrong(r, f)
  \/ Decide(r) \/ Issue(r) \/ Delete(r) \/ Store(r)

Next ==
  \/ \E r \in Requests : Post(r) \/ Step(r) \/ Fail(r)
  \/ \E s \in Sessions : Expire(s)
  \/ \E u \in Editable : SetActive(u)
  \/ Restart

Spec == Init /\ [][Next]_vars
-----------------------------------------------------------------------------
(* Properties                                                              *)

TypeOK ==
  /\ kv \in [Sessions -> LoginSession \cup {Null}]
  /\ heap \in [Objects -> LoginSession \cup {Null}]
  /\ started \subseteq Sessions
  /\ active \subseteq Users /\ verified \subseteq Identities
  /\ req \in [Requests -> Request]
  /\ proven \subseteq Sessions \X Users \X Factors
  /\ codes \subseteq [session : Sessions, user : Users, completed : SUBSET Factors]

\* A code is generated for a user who answered, in this very session, every
\* challenge that the code counts as completed, and at least one: requests of
\* one session that overlap do not mix up two users.
CodeIsEarned ==
  \A k \in codes : /\ k.completed # {}
                   /\ \A f \in k.completed : <<k.session, k.user, f>> \in proven
=============================================================================
