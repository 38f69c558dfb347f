------------------------ MODULE LoginChallengeProofs -----------------------
(***************************************************************************)
(* Proofs about LoginChallenge where every request has its own copy of the *)
(* session, for any number of requests, sessions, users and identities.    *)
(***************************************************************************)
EXTENDS LoginChallenge, TLAPS

USE DEF Taken, Kept, Post

\* What a session object counts as completed was answered in that session, for the
\* user the object names; an object that names nobody counts nothing.
Earned(s, o, p) == /\ o.completed # {} => Known(o)
                   /\ \A f \in o.completed : <<s, o.principal, f>> \in p

\* A request q at work has an object o of that kind; from "check" on it is the
\* user's whom the request found.
Good(q, o, p) ==
  q.pc # "idle" =>
    /\ o \in LoginSession
    /\ Earned(q.session, o, p)
    /\ q.pc = "resume" /\ Known(o) => q.user = o.principal
    /\ q.pc \in {"check", "issue"} => o.principal = q.user /\ Known(o)
    /\ q.pc = "check" => q.challenges # {}
    /\ q.pc = "issue" => o.completed # {}

IInv == /\ TypeOK
        /\ \A r \in Requests : Good(req[r], heap[r], proven)
        /\ \A s \in Sessions : kv[s] # Null => Earned(s, kv[s], proven)
        /\ CodeIsEarned
-----------------------------------------------------------------------------
LEMMA Kinds ==
  ASSUME NEW q \in Request
  PROVE  /\ q.pc \in {"idle", "context", "resume", "check", "issue", "store", "delete"}
         /\ q.pc = "idle" <=> q = Idle
         /\ q.pc # "idle" => q.session \in Sessions
         /\ q.pc \in {"resume", "check", "issue"} => q.user \in Users /\ q.identity \in Identities
         /\ q.pc = "resume" => q.unverified \in BOOLEAN
         /\ q.pc = "check" =>
              q \in [pc : {"check"}, session : Sessions, user : Users, identity : Identities,
                     challenges : SUBSET Factors, todo : SUBSET Factors]
BY DEF Request, Idle

\* More answers do no harm.
LEMMA Monotone ==
  ASSUME NEW q, NEW o, NEW p, NEW p1, p \subseteq p1, Good(q, o, p)
  PROVE  Good(q, o, p1)
BY DEF Good, Earned

\* A step of request r that leaves it with record q and object o, both good, keeps
\* the invariant of all requests.
LEMMA OneMoves ==
  ASSUME NEW r \in Requests, NEW STATE q, NEW STATE o,
         req \in [Requests -> Request], ~ SharedObjects,
         heap \in [Requests -> LoginSession \cup {Null}],
         \A x \in Requests : Good(req[x], heap[x], proven),
         proven \subseteq proven',
         req' = [req EXCEPT ![r] = q], heap' = [heap EXCEPT ![r] = o],
         q \in Request, o \in LoginSession \cup {Null}, Good(q, o, proven')
  PROVE  /\ req' \in [Requests -> Request]
         /\ heap' \in [Requests -> LoginSession \cup {Null}]
         /\ \A x \in Requests : Good(req'[x], heap'[x], proven')
<1>1. req' \in [Requests -> Request] /\ heap' \in [Requests -> LoginSession \cup {Null}]
  OBVIOUS
<1>2. ASSUME NEW x \in Requests
      PROVE  Good(req'[x], heap'[x], proven')
  <2>1. CASE x = r
    <3>1. req'[x] = q /\ heap'[x] = o
      BY <2>1
    <3> QED BY <3>1
  <2>2. CASE x # r
    <3>1. req'[x] = req[x] /\ heap'[x] = heap[x]
      BY <2>2
    <3>2. Good(req[x], heap[x], proven')
      BY Monotone
    <3> QED BY <3>1, <3>2
  <2> QED BY <2>1, <2>2
<1> QED BY <1>1, <1>2
-----------------------------------------------------------------------------
(* The steps of a request                                                  *)

LEMMA Copies ==
  ASSUME ~ SharedObjects
  PROVE  /\ Objects = Requests
         /\ \A r \in Requests : Handle(r) = r /\ Session(r) = heap[r]
BY DEF Objects, Handle, Session

\* What OneMoves asks of a step
Moves(r) ==
  \E q \in Request, o \in LoginSession \cup {Null} :
    /\ req' = [req EXCEPT ![r] = q] /\ heap' = [heap EXCEPT ![r] = o]
    /\ Good(q, o, proven')

\* To "store" or "delete" with the object as it is
LEMMA GoingOn ==
  ASSUME IInv, ~ SharedObjects, NEW r \in Requests, NEW pc \in {"store", "delete"},
         req[r].pc # "idle", Goto(r, pc), UNCHANGED <<heap, proven>>
  PROVE  Moves(r)
<1>1. /\ req[r] \in Request /\ heap[r] \in LoginSession \cup {Null}
      /\ Good(req[r], heap[r], proven) /\ req[r].session \in Sessions
  BY Copies, Kinds DEF IInv, TypeOK
<1>2. PICK q : q = [pc |-> pc, session |-> req[r].session]
  OBVIOUS
<1>3. q \in Request
  BY <1>1, <1>2 DEF Request
<1>4. Good(q, heap[r], proven')
  BY <1>1, <1>2 DEF Good
<1>5. heap' = [heap EXCEPT ![r] = heap[r]]
  BY Copies DEF IInv, TypeOK
<1> QED BY <1>1, <1>2, <1>3, <1>4, <1>5 DEF Moves, Goto

LEMMA Ending ==
  ASSUME IInv, ~ SharedObjects, NEW r \in Requests, Finish(r)
  PROVE  Moves(r)
<1>1. Idle \in Request /\ Good(Idle, Null, proven')
  BY DEF Idle, Request, Good
<1> QED BY <1>1 DEF Moves, Finish

LEMMA Starting ==
  ASSUME IInv, ~ SharedObjects, NEW r \in Requests, NEW s \in Sessions, NEW c \in Clients,
         StartNew(r, s, c) \/ StartContinue(r, s, c)
  PROVE  Moves(r)
<1>1. PICK q : q = [pc |-> "context", session |-> s]
  OBVIOUS
<1>2. q \in Request
  BY <1>1 DEF Request
<1>3. CASE StartNew(r, s, c)
  <2>1. Blank(c) \in LoginSession
    BY DEF Blank, LoginSession
  <2>2. Good(q, Blank(c), proven')
    BY <1>1, <2>1 DEF Good, Earned, Blank
  <2> QED BY <1>1, <1>2, <1>3, <2>1, <2>2 DEF Moves, StartNew
<1>4. CASE StartContinue(r, s, c)
  <2>1. kv[s] \in LoginSession /\ Earned(s, kv[s], proven) /\ proven' = proven
    BY <1>4 DEF StartContinue, IInv, TypeOK, history
  <2>2. Good(q, kv[s], proven')
    BY <1>1, <2>1 DEF Good
  <2> QED BY <1>1, <1>2, <1>4, <2>1, <2>2 DEF Moves, StartContinue
<1> QED BY <1>3, <1>4

LEMMA FindingUser ==
  ASSUME IInv, ~ SharedObjects, NEW r \in Requests, Context(r)
  PROVE  Moves(r)
<1>1. /\ req[r] \in Request /\ heap[r] \in LoginSession /\ Session(r) = heap[r]
      /\ Good(req[r], heap[r], proven) /\ req[r].session \in Sessions /\ req[r].pc = "context"
      /\ heap' = [heap EXCEPT ![r] = heap[r]] /\ proven' = proven /\ heap' = heap
  BY Copies, Kinds DEF IInv, TypeOK, Context, Good, history
<1>2. PICK i \in Identities :
        /\ Known(heap[r]) => MayBeFound(i, heap[r].principal)
        /\ IF Owner[i] \in active
             THEN req' = [req EXCEPT ![r] = [pc |-> "resume", session |-> req[r].session,
                                             user |-> Owner[i], identity |-> i,
                                             unverified |-> i \notin verified]]
             ELSE Goto(r, "store")
  BY <1>1 DEF Context
<1>3. CASE Owner[i] \in active
  <2>1. PICK q : q = [pc |-> "resume", session |-> req[r].session, user |-> Owner[i],
                      identity |-> i, unverified |-> i \notin verified]
    OBVIOUS
  <2>2. q \in Request
    BY <1>1, <2>1, UsersAssumption DEF Request
  <2>3. Known(heap[r]) => Owner[i] = heap[r].principal
    BY <1>1, <1>2, UsersAssumption DEF LoginSession, Known, MayBeFound
  <2>4. Good(q, heap[r], proven')
    BY <1>1, <2>1, <2>3 DEF Good
  <2> QED BY <1>1, <1>2, <1>3, <2>1, <2>2, <2>4 DEF Moves
<1>4. CASE Owner[i] \notin active
  BY <1>1, <1>2, <1>4, GoingOn
<1> QED BY <1>3, <1>4

LEMMA TellingSession ==
  ASSUME IInv, ~ SharedObjects, NEW r \in Requests, Resume(r)
  PROVE  Moves(r)
<1>1. /\ req[r] \in Request /\ heap[r] \in LoginSession /\ Handle(r) = r
      /\ Good(req[r], heap[r], proven) /\ req[r].session \in Sessions /\ req[r].pc = "resume"
      /\ req[r].user \in Users /\ req[r].identity \in Identities
      /\ req[r].unverified \in BOOLEAN
  BY Copies, Kinds DEF IInv, TypeOK, Resume, Good
<1>2. proven' = proven
  BY DEF Resume, history
<1>3. PICK o : o = [heap[r] EXCEPT !.principal = req[r].user, !.identity = req[r].identity]
  OBVIOUS
<1>4. /\ o \in LoginSession /\ o.principal = req[r].user /\ o.identity = req[r].identity
      /\ o.completed = heap[r].completed /\ Known(o)
  BY <1>1, <1>3, UsersAssumption DEF LoginSession, Known
<1>5. Earned(req[r].session, o, proven')
  BY <1>1, <1>2, <1>4 DEF Good, Earned
<1>6. heap' = [heap EXCEPT ![r] = o]
  BY <1>1, <1>3 DEF Resume, IInv, TypeOK
<1>7. PICK cs : cs = Challenges(req[r].user, req[r].unverified)
  OBVIOUS
<1>8. cs \subseteq Factors
  <2>1. Credentials[req[r].user] \subseteq Factors
    BY <1>1, UsersAssumption
  <2>2. "email-verification" \in Factors
    BY DEF Factors, Order
  <2> QED BY <1>7, <2>1, <2>2 DEF Challenges
<1>9. CASE cs = {}
  <2>1. PICK q : q = [pc |-> "store", session |-> req[r].session]
    OBVIOUS
  <2>2. q \in Request /\ Good(q, o, proven')
    BY <1>1, <1>4, <1>5, <2>1 DEF Request, Good
  <2>3. req' = [req EXCEPT ![r] = q]
    BY <1>7, <1>9, <2>1 DEF Resume, Goto
  <2> QED BY <1>4, <1>6, <2>2, <2>3 DEF Moves
<1>10. CASE cs # {}
  <2>1. PICK q : q = [pc |-> "check", session |-> req[r].session, user |-> req[r].user,
                      identity |-> req[r].identity, challenges |-> cs, todo |-> cs]
    OBVIOUS
  <2>2. q \in Request
    BY <1>1, <1>8, <2>1 DEF Request
  <2>3. Good(q, o, proven')
    BY <1>1, <1>4, <1>5, <1>10, <2>1 DEF Good
  <2>4. req' = [req EXCEPT ![r] = q]
    BY <1>7, <1>10, <2>1 DEF Resume
  <2> QED BY <1>4, <1>6, <2>2, <2>3, <2>4 DEF Moves
<1> QED BY <1>9, <1>10
-----------------------------------------------------------------------------
(* The steps of a request that checks answers                              *)

LEMMA TickingOff ==
  ASSUME IInv, ~ SharedObjects, NEW r \in Requests, NEW f \in Factors,
         Checking(r, f), Onward(r, f)
  PROVE  \E q \in Request :
           /\ req' = [req EXCEPT ![r] = q]
           /\ \A o, p : Good(req[r], o, p) => Good(q, o, p)
<1>1. /\ req[r].pc = "check"
      /\ req[r] \in [pc : {"check"}, session : Sessions, user : Users,
                     identity : Identities, challenges : SUBSET Factors,
                     todo : SUBSET Factors]
  BY Kinds DEF Checking, IInv, TypeOK
<1>2. PICK q : q = [req[r] EXCEPT !.todo = @ \ {f}]
  OBVIOUS
<1>3. /\ q.pc = req[r].pc /\ q.session = req[r].session /\ q.user = req[r].user
      /\ q.challenges = req[r].challenges /\ q \in Request
  BY <1>1, <1>2 DEF Request
<1>4. req' = [req EXCEPT ![r] = q]
  BY <1>2 DEF Onward
<1>5. \A o, p : Good(req[r], o, p) => Good(q, o, p)
  BY <1>1, <1>3 DEF Good
<1> QED BY <1>3, <1>4, <1>5

LEMMA Answering ==
  ASSUME IInv, ~ SharedObjects, NEW r \in Requests, NEW f \in Factors,
         Skip(r, f) \/ CheckRight(r, f) \/ CheckWrong(r, f)
  PROVE  Moves(r)
<1>1. /\ Checking(r, f) /\ req[r].pc = "check" /\ heap[r] \in LoginSession
      /\ Handle(r) = r /\ Good(req[r], heap[r], proven) /\ proven \subseteq proven'
      /\ Good(req[r], heap[r], proven')
  BY Copies, Monotone
     DEF IInv, TypeOK, Skip, CheckRight, CheckWrong, Checking, Good, history
<1>2. CASE Skip(r, f)
  <2>1. heap' = [heap EXCEPT ![r] = heap[r]]
    BY <1>2, Copies DEF Skip, IInv, TypeOK
  <2> QED BY <1>1, <1>2, <2>1, TickingOff DEF Skip, Moves
<1>3. CASE CheckRight(r, f)
  <2>1. PICK o : o = [heap[r] EXCEPT !.completed = @ \cup {f}]
    OBVIOUS
  <2>2. /\ o \in LoginSession /\ o.principal = heap[r].principal
        /\ o.identity = heap[r].identity /\ o.completed = heap[r].completed \cup {f}
    BY <1>1, <2>1 DEF LoginSession
  <2>3. heap' = [heap EXCEPT ![r] = o]
    BY <1>1, <1>3, <2>1 DEF CheckRight, Pass
  <2>4. <<req[r].session, heap[r].principal, f>> \in proven'
    BY <1>1, <1>3 DEF CheckRight, Good
  <2>5. Good(req[r], o, proven')
    BY <1>1, <2>2, <2>4 DEF Good, Earned, Known
  <2> QED BY <1>1, <1>3, <2>2, <2>3, <2>5, TickingOff DEF CheckRight, Moves
<1>4. CASE CheckWrong(r, f)
  BY <1>1, <1>4, GoingOn DEF CheckWrong, history
<1> QED BY <1>2, <1>3, <1>4

LEMMA Deciding ==
  ASSUME IInv, ~ SharedObjects, NEW r \in Requests, Decide(r)
  PROVE  Moves(r)
<1>1. /\ req[r] \in Request /\ heap[r] \in LoginSession /\ Session(r) = heap[r]
      /\ Good(req[r], heap[r], proven) /\ req[r].session \in Sessions /\ req[r].pc = "check"
      /\ req[r].user \in Users /\ req[r].identity \in Identities
      /\ heap' = [heap EXCEPT ![r] = heap[r]] /\ proven' = proven /\ heap' = heap
  BY Copies, Kinds DEF IInv, TypeOK, Decide, Good, history
<1>2. CASE /\ TooFew(heap[r].completed, req[r].challenges)
           /\ ~ req[r].challenges \subseteq heap[r].completed
  BY <1>1, <1>2, GoingOn DEF Decide
<1>3. CASE \/ ~ TooFew(heap[r].completed, req[r].challenges)
           \/ req[r].challenges \subseteq heap[r].completed
  <2>1. heap[r].completed # {}
    BY <1>1, <1>3 DEF TooFew, Good
  <2>2. PICK q : q = [pc |-> "issue", session |-> req[r].session,
                      user |-> req[r].user, identity |-> req[r].identity]
    OBVIOUS
  <2>3. q \in Request
    BY <1>1, <2>2 DEF Request
  <2>4. Good(q, heap[r], proven')
    BY <1>1, <2>1, <2>2 DEF Good
  <2>5. req' = [req EXCEPT ![r] = q]
    BY <1>1, <1>3, <2>2 DEF Decide
  <2> QED BY <1>1, <2>3, <2>4, <2>5 DEF Moves
<1> QED BY <1>2, <1>3

LEMMA Failing ==
  ASSUME IInv, ~ SharedObjects, NEW r \in Requests, Fail(r)
  PROVE  Moves(r)
<1>1. req[r].pc # "idle"
  BY Kinds DEF Fail, IInv, TypeOK
<1>2. CASE req[r].pc \in {"store", "delete"}
  BY <1>2, Ending DEF Fail
<1>3. CASE req[r].pc \notin {"store", "delete"}
  <2>1. proven' = proven /\ heap' = heap
    BY <1>3 DEF Fail, history
  <2> QED BY <1>1, <1>3, <2>1, GoingOn DEF Fail
<1> QED BY <1>2, <1>3

\* Whatever a request does, it keeps the invariant of requests.
LEMMA RequestMoves ==
  ASSUME IInv, ~ SharedObjects, NEW r \in Requests,
         \/ \E s \in Sessions, c \in Clients : StartNew(r, s, c) \/ StartContinue(r, s, c)
         \/ Step(r) \/ Fail(r)
  PROVE  Moves(r)
<1>1. CASE \E s \in Sessions, c \in Clients : StartNew(r, s, c) \/ StartContinue(r, s, c)
  BY <1>1, Starting
<1>2. CASE Context(r)
  BY <1>2, FindingUser
<1>3. CASE ContextUnknown(r)
  BY <1>3, GoingOn DEF ContextUnknown, history
<1>4. CASE Resume(r)
  BY <1>4, TellingSession
<1>5. CASE \E f \in Factors : Skip(r, f) \/ CheckRight(r, f) \/ CheckWrong(r, f)
  BY <1>5, Answering
<1>6. CASE Decide(r)
  BY <1>6, Deciding
<1>7. CASE Issue(r)
  BY <1>7, GoingOn DEF Issue
<1>8. CASE Delete(r) \/ Store(r)
  BY <1>8, Ending DEF Delete, Store
<1>9. CASE Fail(r)
  BY <1>9, Failing
<1> QED BY <1>1, <1>2, <1>3, <1>4, <1>5, <1>6, <1>7, <1>8, <1>9 DEF Step
-----------------------------------------------------------------------------
(* The rest of the state                                                   *)

\* What is stored is well-formed and earned.
StoredEarned ==
  /\ kv \in [Sessions -> LoginSession \cup {Null}]
  /\ \A s \in Sessions : kv[s] # Null => Earned(s, kv[s], proven)

LEMMA Storing ==
  ASSUME IInv, ~ SharedObjects, Next
  PROVE  StoredEarned' /\ proven \subseteq proven'
<1>1. /\ kv \in [Sessions -> LoginSession \cup {Null}]
      /\ \A s \in Sessions : kv[s] # Null => Earned(s, kv[s], proven)
  BY DEF IInv, TypeOK
<1>2. proven \subseteq proven'
  BY DEF Next, Step, StartNew, StartContinue, Context, ContextUnknown, Resume, Skip,
         CheckRight, CheckWrong, Decide, Issue, Delete, Store, Fail, Expire, SetActive,
         Restart, history
<1>3. \A s \in Sessions : kv[s] # Null => Earned(s, kv[s], proven')
  BY <1>1, <1>2 DEF Earned
<1>4. CASE kv' = kv
  BY <1>1, <1>2, <1>3, <1>4 DEF StoredEarned
<1>5. ASSUME NEW s \in Sessions, kv' = [kv EXCEPT ![s] = Null]
      PROVE  StoredEarned'
  BY <1>1, <1>3, <1>5 DEF StoredEarned
<1>6. ASSUME NEW r \in Requests, Store(r)
      PROVE  StoredEarned'
  <2>1. /\ req[r].session \in Sessions /\ heap[r] \in LoginSession
        /\ Earned(req[r].session, heap[r], proven) /\ Session(r) = heap[r]
    BY <1>6, Kinds, Copies DEF Store, IInv, TypeOK, Good
  <2>2. kv' = [kv EXCEPT ![req[r].session] = heap[r]]
    BY <1>6, <2>1 DEF Store
  <2>3. Earned(req[r].session, heap[r], proven')
    BY <1>2, <2>1 DEF Earned
  <2> QED BY <1>1, <1>3, <2>1, <2>2, <2>3 DEF StoredEarned
<1>7. ASSUME NEW r \in Requests, Delete(r)
      PROVE  StoredEarned'
  <2>1. req[r].session \in Sessions
    BY <1>7, Kinds DEF Delete, IInv, TypeOK
  <2> QED BY <1>5, <1>7, <2>1 DEF Delete
<1>8. \/ kv' = kv
      \/ \E r \in Requests : Store(r) \/ Delete(r)
      \/ \E s \in Sessions : kv' = [kv EXCEPT ![s] = Null]
  BY DEF Next, Step, StartNew, StartContinue, Context, ContextUnknown, Resume, Skip,
         CheckRight, CheckWrong, Decide, Issue, Fail, Expire, SetActive, Restart
<1> QED BY <1>2, <1>4, <1>5, <1>6, <1>7, <1>8

Code == [session : Sessions, user : Users, completed : SUBSET Factors]

LEMMA Issuing ==
  ASSUME IInv, ~ SharedObjects, Next
  PROVE  CodeIsEarned' /\ codes' \subseteq Code
<1>1. proven \subseteq proven'
  BY Storing
<1>2. CodeIsEarned /\ codes \subseteq Code
  BY DEF IInv, TypeOK, Code
<1>3. CASE codes' = codes
  BY <1>1, <1>2, <1>3 DEF CodeIsEarned
<1>4. ASSUME NEW r \in Requests, Issue(r)
      PROVE  CodeIsEarned' /\ codes' \subseteq Code
  <2>1. /\ req[r].session \in Sessions /\ req[r].user \in Users /\ heap[r] \in LoginSession
        /\ Good(req[r], heap[r], proven) /\ req[r].pc = "issue" /\ Session(r) = heap[r]
    BY <1>4, Kinds, Copies DEF Issue, IInv, TypeOK, Good
  <2>2. PICK k : k = [session |-> req[r].session, user |-> req[r].user,
                      completed |-> heap[r].completed]
    OBVIOUS
  <2>3. /\ k \in Code /\ k.completed # {}
        /\ \A f \in k.completed : <<k.session, k.user, f>> \in proven
    BY <2>1, <2>2 DEF Code, LoginSession, Good, Earned
  <2>4. codes' = codes \cup {k}
    BY <1>4, <2>1, <2>2 DEF Issue
  <2> QED BY <1>1, <1>2, <2>3, <2>4 DEF CodeIsEarned
<1>5. codes' = codes \/ \E r \in Requests : Issue(r)
  BY DEF Next, Step, StartNew, StartContinue, Context, ContextUnknown, Resume, Skip,
         CheckRight, CheckWrong, Decide, Delete, Store, Fail, Expire, SetActive, Restart,
         history
<1> QED BY <1>3, <1>4, <1>5

LEMMA Recording ==
  ASSUME IInv, ~ SharedObjects, Next
  PROVE  /\ started' \subseteq Sessions /\ active' \subseteq Users
         /\ verified' \subseteq Identities /\ proven' \subseteq Sessions \X Users \X Factors
<1>1. /\ started \subseteq Sessions /\ active \subseteq Users
      /\ verified \subseteq Identities /\ proven \subseteq Sessions \X Users \X Factors
  BY DEF IInv, TypeOK
<1>2. ASSUME NEW r \in Requests, NEW f \in Factors, CheckRight(r, f)
      PROVE  /\ verified' \subseteq Identities
             /\ proven' \subseteq Sessions \X Users \X Factors
             /\ started' = started /\ active' = active
  <2>1. /\ req[r].session \in Sessions /\ req[r].user \in Users
        /\ req[r].identity \in Identities
    BY <1>2, Kinds DEF CheckRight, Checking, IInv, TypeOK
  <2>2. \A ids \in Verifies(r, f) : ids \subseteq Identities
    BY <2>1 DEF Verifies
  <2> QED BY <1>1, <1>2, <2>1, <2>2 DEF CheckRight
<1>3. ASSUME ~ \E r \in Requests, f \in Factors : CheckRight(r, f)
      PROVE  verified' = verified /\ proven' = proven
  BY <1>3 DEF Next, Step, StartNew, StartContinue, Context, ContextUnknown, Resume, Skip,
         CheckWrong, Decide, Issue, Delete, Store, Fail, Expire, SetActive, Restart, history
<1>4. \/ started' = started
      \/ \E r \in Requests, s \in Sessions, c \in Clients : StartNew(r, s, c)
  BY DEF Next, Step, StartContinue, Context, ContextUnknown, Resume, Skip, CheckRight,
         CheckWrong, Decide, Issue, Delete, Store, Fail, Expire, SetActive, Restart
<1>5. active' = active \/ \E u \in Editable : SetActive(u)
  BY DEF Next, Step, StartNew, StartContinue, Context, ContextUnknown, Resume, Skip,
         CheckRight, CheckWrong, Decide, Issue, Delete, Store, Fail, Expire, Restart
<1>6. started' \subseteq Sessions
  BY <1>1, <1>4 DEF StartNew
<1>7. active' \subseteq Users
  BY <1>1, <1>5, UsersAssumption DEF SetActive
<1> QED BY <1>1, <1>2, <1>3, <1>6, <1>7
-----------------------------------------------------------------------------
LEMMA InitInvariant == ~ SharedObjects /\ Init => IInv
<1> SUFFICES ASSUME ~ SharedObjects, Init
             PROVE  IInv
  OBVIOUS
<1>1. TypeOK
  BY Copies DEF Init, TypeOK, Request, Idle
<1>2. \A r \in Requests : Good(req[r], heap[r], proven)
  BY DEF Init, Good, Idle
<1> QED BY <1>1, <1>2 DEF Init, IInv, CodeIsEarned

LEMMA NextInvariant == ~ SharedObjects /\ IInv /\ [Next]_vars => IInv'
<1> SUFFICES ASSUME ~ SharedObjects, IInv, [Next]_vars
             PROVE  IInv'
  OBVIOUS
<1>1. CASE UNCHANGED vars
  BY <1>1 DEF IInv, TypeOK, CodeIsEarned, vars
<1>2. CASE Next
  <2>1. StoredEarned' /\ proven \subseteq proven' /\ CodeIsEarned' /\ codes' \subseteq Code
    BY <1>2, Storing, Issuing
  <2>2. /\ started' \subseteq Sessions /\ active' \subseteq Users
        /\ verified' \subseteq Identities /\ proven' \subseteq Sessions \X Users \X Factors
    BY <1>2, Recording
  <2>3. /\ req \in [Requests -> Request] /\ heap \in [Requests -> LoginSession \cup {Null}]
        /\ \A x \in Requests : Good(req[x], heap[x], proven)
    BY Copies DEF IInv, TypeOK
  <2>4. /\ req' \in [Requests -> Request]
        /\ heap' \in [Requests -> LoginSession \cup {Null}]
        /\ \A x \in Requests : Good(req'[x], heap'[x], proven')
    <3>1. ASSUME NEW r \in Requests, Moves(r)
          PROVE  /\ req' \in [Requests -> Request]
                 /\ heap' \in [Requests -> LoginSession \cup {Null}]
                 /\ \A x \in Requests : Good(req'[x], heap'[x], proven')
      BY <2>1, <2>3, <3>1, OneMoves DEF Moves
    <3>2. CASE \/ \E s \in Sessions : Expire(s)
               \/ \E u \in Editable : SetActive(u)
      BY <2>3, <3>2 DEF Expire, SetActive, history
    <3>3. CASE Restart
      BY <3>3, Copies DEF Restart, Idle, Request, Good
    <3> QED BY <1>2, <3>1, <3>2, <3>3, RequestMoves DEF Next
  <2> QED BY <2>1, <2>2, <2>4, Copies DEF IInv, TypeOK, StoredEarned, Code
<1> QED BY <1>1, <1>2

\* The tables and the requests of LoginChallenge are well-formed, always, when every
\* request has its own copy of the session.
THEOREM TypeCorrect ==
  ASSUME ~ SharedObjects
  PROVE  Spec => []TypeOK
<1>1. Init => IInv
  BY InitInvariant
<1>2. IInv /\ [Next]_vars => IInv'
  BY NextInvariant
<1>3. IInv => TypeOK
  BY DEF IInv
<1> QED BY <1>1, <1>2, <1>3, PTL DEF Spec

\* A code is generated only for a user who answered, in this session, each of the
\* challenges it counts, and at least one, however the requests of the session
\* overlap, fail or are cut off by a restart.
THEOREM CodesAreEarned ==
  ASSUME ~ SharedObjects
  PROVE  Spec => []CodeIsEarned
<1>1. Init => IInv
  BY InitInvariant
<1>2. IInv /\ [Next]_vars => IInv'
  BY NextInvariant
<1>3. IInv => CodeIsEarned
  BY DEF IInv
<1> QED BY <1>1, <1>2, <1>3, PTL DEF Spec

\* What a login session is stored with was earned in it, also when a request that
\* failed stores its copy after another one deleted the session, and when the later of
\* two copies takes back what the earlier one had: passes get lost and are never lent.
THEOREM StoredPassesAreEarned ==
  ASSUME ~ SharedObjects
  PROVE  Spec => []StoredEarned
<1>1. Init => IInv
  BY InitInvariant
<1>2. IInv /\ [Next]_vars => IInv'
  BY NextInvariant
<1>3. IInv => StoredEarned
  BY DEF IInv, TypeOK, StoredEarned
<1> QED BY <1>1, <1>2, <1>3, PTL DEF Spec
=============================================================================
