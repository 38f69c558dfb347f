------------------------- MODULE BrowserLoginProofs -------------------------
(***************************************************************************)
(* Proofs about BrowserLogin, for any number of requests, browsers and     *)
(* users, any MAX_FAILURES and every value of the two settings.            *)
(*                                                                         *)
(* The parts of the invariant take as parameters what they depend on: p is *)
(* proven, e is exempt, t is totp and m the setting of TOTP.               *)
(***************************************************************************)
EXTENDS BrowserLogin, FiniteSetTheorems, TLAPS

\* User u may be logged in in browser b.
Logged(b, u, p, e, m) ==
  /\ <<b, u, "password">> \in p
  /\ u \notin Keys /\ m # "disabled" =>
       <<b, u, "totp">> \in p \/ (m = "enabled" /\ <<b, u>> \in e)

\* A session of browser b, stored or in a request's hands
Sound(b, s, p, e, m) ==
  /\ s.user # None => Logged(b, s.user, p, e, m)
  /\ s.mfa # None => <<b, s.mfa, "password">> \in p

\* What is known of a request by the time it is at step pc
Known(pc, b, u, p, e, t, m) ==
  /\ pc \notin {"find", "password", "insert"} => <<b, u, "password">> \in p
  /\ pc \in {"find", "password", "totp"} => t[u] # None \/ <<b, u>> \in e
  /\ pc = "webauthn" => m = "disabled" \/ (m = "enabled" /\ <<b, u>> \in e)
  /\ pc = "reset" => <<b, u, "totp">> \in p
  /\ pc = "counter" => u \in Keys
  /\ pc \in {"reset", "count"} => t[u] # None

Good(q, p, e, t, m) ==
  q.pc # "idle" => /\ Sound(q.browser, q.session, p, e, m)
                   /\ q.pc \in Steps => Known(q.pc, q.browser, q.user, p, e, t, m)

IInv == /\ TypeOK
        /\ \A r \in Requests : Good(req[r], proven, exempt, totp, setting.totp)
        /\ \A b \in Browsers : Sound(b, session[b], proven, exempt, setting.totp)
-----------------------------------------------------------------------------
LEMMA Kinds ==
  ASSUME NEW q \in Request
  PROVE  /\ q.pc \in {"idle"} \cup Pages \cup Steps
         /\ q.pc # "idle" => q.browser \in Browsers /\ q.session \in Session
         /\ q.pc \in Pages => q = [pc |-> q.pc, browser |-> q.browser, session |-> q.session]
         /\ q.pc \in Steps => q \in [pc : Steps, browser : Browsers, session : Session,
                                     user : Users]
BY DEF Request, Pages, Steps

LEMMA EmptyIsSession == Empty \in Session
BY DEF Empty, Session

\* What only grows from a state to the next
Grows == /\ proven \subseteq proven' /\ exempt \subseteq exempt'
         /\ setting' = setting
         /\ \A u \in Users : totp[u] # None => totp'[u] # None

\* What was known of a request or of a session stays true.
LEMMA StillSound ==
  ASSUME NEW STATE b, NEW STATE s, Grows, Sound(b, s, proven, exempt, setting.totp)
  PROVE  Sound(b, s, proven', exempt', setting'.totp)
BY DEF Grows, Sound, Logged

LEMMA StillGood ==
  ASSUME NEW STATE q, q \in Request, Grows, Good(q, proven, exempt, totp, setting.totp)
  PROVE  Good(q, proven', exempt', totp', setting'.totp)
<1>1. CASE q.pc \notin Steps
  <2>1. q.pc # "idle" => Sound(q.browser, q.session, proven', exempt', setting'.totp)
    BY StillSound DEF Good
  <2> QED BY <1>1, <2>1 DEF Good, Steps
<1>2. CASE q.pc \in Steps
  <2>1. q.pc # "idle" /\ q.user \in Users
    BY <1>2, Kinds DEF Steps
  <2>2. Sound(q.browser, q.session, proven', exempt', setting'.totp)
    BY <2>1, StillSound DEF Good
  <2> QED BY <2>1, <2>2 DEF Good, Known, Grows
<1> QED BY <1>1, <1>2

\* What a step of request r has to leave behind
Moves(r) == \E q \in Request : /\ req' = [req EXCEPT ![r] = q]
                               /\ Good(q, proven', exempt', totp', setting'.totp)

LEMMA OneMoves ==
  ASSUME IInv, Grows, NEW r \in Requests, Moves(r)
  PROVE  /\ req' \in [Requests -> Request]
         /\ \A x \in Requests : Good(req'[x], proven', exempt', totp', setting'.totp)
<1>1. PICK q \in Request : /\ req' = [req EXCEPT ![r] = q]
                           /\ Good(q, proven', exempt', totp', setting'.totp)
  BY DEF Moves
<1>2. req' \in [Requests -> Request]
  BY <1>1 DEF IInv, TypeOK
<1>3. ASSUME NEW x \in Requests
      PROVE  Good(req'[x], proven', exempt', totp', setting'.totp)
  <2>1. CASE x = r
    BY <1>1, <2>1 DEF IInv, TypeOK
  <2>2. CASE x # r
    <3>1. req'[x] = req[x] /\ req[x] \in Request
      BY <1>1, <2>2 DEF IInv, TypeOK
    <3>2. Good(req[x], proven', exempt', totp', setting'.totp)
      BY <3>1, StillGood DEF IInv
    <3> QED BY <3>1, <3>2
  <2> QED BY <2>1, <2>2
<1> QED BY <1>2, <1>3
-----------------------------------------------------------------------------
(* The ways in which a request moves on                                    *)

LEMMA Answering ==
  ASSUME IInv, NEW r \in Requests, req[r].pc # "idle", NEW STATE s, s \in Session,
         Sound(req[r].browser, s, proven', exempt', setting'.totp), Answer(r, s)
  PROVE  Moves(r)
<1>1. req[r] \in Request /\ req[r].browser \in Browsers
  BY Kinds DEF IInv, TypeOK
<1>2. PICK q : q = [pc |-> "save", browser |-> req[r].browser, session |-> s]
  OBVIOUS
<1>3. q \in Request
  BY <1>1, <1>2 DEF Request, Pages
<1>4. Good(q, proven', exempt', totp', setting'.totp)
  BY <1>2 DEF Good, Steps
<1> QED BY <1>2, <1>3, <1>4 DEF Moves, Answer

LEMMA Redirecting ==
  ASSUME IInv, Grows, NEW r \in Requests, req[r].pc # "idle", Redirect(r)
  PROVE  Moves(r)
<1>1. req[r].session \in Session /\ req[r].browser \in Browsers
  BY Kinds DEF IInv, TypeOK
<1>2. Sound(req[r].browser, req[r].session, proven', exempt', setting'.totp)
  BY StillSound DEF IInv, Good
<1> QED BY <1>1, <1>2, Answering DEF Redirect

LEMMA Spending ==
  ASSUME IInv, Grows, NEW r \in Requests, req[r].pc # "idle"
  PROVE  /\ Spent(r) \in Session
         /\ Sound(req[r].browser, Spent(r), proven', exempt', setting'.totp)
<1>1. req[r].session \in Session
  BY Kinds DEF IInv, TypeOK
<1>2. /\ Spent(r) \in Session
      /\ Spent(r).user = req[r].session.user /\ Spent(r).mfa = req[r].session.mfa
  BY <1>1 DEF Spent, Session
<1>3. Sound(req[r].browser, req[r].session, proven', exempt', setting'.totp)
  BY StillSound DEF IInv, Good
<1> QED BY <1>2, <1>3 DEF Sound

LEMMA LoggingIn ==
  ASSUME IInv, NEW r \in Requests, req[r].pc \in Steps,
         Logged(req[r].browser, req[r].user, proven', exempt', setting'.totp), LogIn(r)
  PROVE  Moves(r)
<1>1. req[r].user \in Users /\ req[r].pc # "idle"
  BY Kinds DEF IInv, TypeOK, Steps
<1>2. PICK s : s = [Empty EXCEPT !.user = req[r].user]
  OBVIOUS
<1>3. s \in Session /\ s.user = req[r].user /\ s.mfa = None
  BY <1>1, <1>2 DEF Empty, Session
<1>4. Sound(req[r].browser, s, proven', exempt', setting'.totp)
  BY <1>3 DEF Sound
<1> QED BY <1>1, <1>2, <1>3, <1>4, Answering DEF LogIn

LEMMA Awaiting ==
  ASSUME IInv, NEW r \in Requests, req[r].pc \in Steps,
         <<req[r].browser, req[r].user, "password">> \in proven', AwaitFactor(r)
  PROVE  Moves(r)
<1>1. req[r].user \in Users /\ req[r].pc # "idle"
  BY Kinds DEF IInv, TypeOK, Steps
<1>2. PICK s : s = [Empty EXCEPT !.mfa = req[r].user]
  OBVIOUS
<1>3. s \in Session /\ s.mfa = req[r].user /\ s.user = None
  BY <1>1, <1>2 DEF Empty, Session
<1>4. Sound(req[r].browser, s, proven', exempt', setting'.totp)
  BY <1>3 DEF Sound
<1> QED BY <1>1, <1>2, <1>3, <1>4, Answering DEF AwaitFactor

\* From a step of the handler to the next one
LEMMA GoingOn ==
  ASSUME IInv, Grows, NEW r \in Requests, req[r].pc \in Steps, NEW pc \in Steps, Goto(r, pc),
         Known(pc, req[r].browser, req[r].user, proven', exempt', totp', setting'.totp)
  PROVE  Moves(r)
<1>1. /\ req[r] \in [pc : Steps, browser : Browsers, session : Session, user : Users]
      /\ req[r].pc # "idle"
  BY Kinds DEF IInv, TypeOK, Steps
<1>2. PICK q : q = [req[r] EXCEPT !.pc = pc]
  OBVIOUS
<1>3. /\ q \in Request /\ q.pc = pc
      /\ q.browser = req[r].browser /\ q.session = req[r].session /\ q.user = req[r].user
  BY <1>1, <1>2 DEF Request
<1>4. Sound(q.browser, q.session, proven', exempt', setting'.totp)
  BY <1>1, <1>3, StillSound DEF IInv, Good
<1>5. Good(q, proven', exempt', totp', setting'.totp)
  BY <1>3, <1>4 DEF Good
<1>6. req' = [req EXCEPT ![r] = q]
  BY <1>2 DEF Goto, IInv, TypeOK
<1> QED BY <1>3, <1>5, <1>6 DEF Moves

LEMMA Beginning ==
  ASSUME IInv, Grows, NEW r \in Requests, NEW b \in Browsers, NEW STATE u, u \in Users,
         NEW pc \in Steps, Begin(r, b, pc, u),
         Known(pc, b, u, proven', exempt', totp', setting'.totp)
  PROVE  Moves(r)
<1>1. PICK q : q = [pc |-> pc, browser |-> b, session |-> session[b], user |-> u]
  OBVIOUS
<1>2. session[b] \in Session /\ Sound(b, session[b], proven', exempt', setting'.totp)
  BY StillSound DEF IInv, TypeOK
<1>3. q \in Request
  BY <1>1, <1>2 DEF Request
<1>4. Good(q, proven', exempt', totp', setting'.totp)
  BY <1>1, <1>2 DEF Good
<1> QED BY <1>1, <1>3, <1>4 DEF Moves, Begin
-----------------------------------------------------------------------------
(* The steps                                                               *)

\* The types of the tables and of the histories
Tables == /\ active \subseteq Users
          /\ totp \in [Users -> Nat \cup {None}]
          /\ proven \subseteq Browsers \X Users \X {"password", "totp", "webauthn"}
          /\ exempt \subseteq Browsers \X Users
          /\ guesses \in [Users -> Nat]
          /\ lost \in [Users -> Nat]

\* What a step of request r does, but for storing a session
Handles(r) == Grows /\ Moves(r) /\ Tables' /\ session' = session

LEMMA Handled ==
  ASSUME IInv, NEW r \in Requests, Handles(r)
  PROVE  IInv'
<1>1. /\ req' \in [Requests -> Request]
      /\ \A x \in Requests : Good(req'[x], proven', exempt', totp', setting'.totp)
  BY OneMoves DEF Handles
<1>2. \A b \in Browsers : Sound(b, session[b], proven', exempt', setting'.totp)
  BY StillSound DEF IInv, Handles
<1>3. TypeOK'
  BY <1>1 DEF IInv, TypeOK, Handles, Tables, Grows
<1> QED BY <1>1, <1>2, <1>3 DEF IInv, Handles

\* A step that changes no table and no history
LEMMA Unchanged ==
  ASSUME IInv, UNCHANGED <<setting, tables, history>>
  PROVE  Grows /\ Tables'
BY DEF IInv, TypeOK, tables, history, Grows, Tables

LEMMA Starting ==
  ASSUME IInv, NEW r \in Requests, NEW b \in Browsers, Start(r, b)
  PROVE  Handles(r)
<1>1. CASE \E u \in Users : StartLogin(r, b, u)
  <2>1. PICK u \in Users : StartLogin(r, b, u)
    BY <1>1
  <2>2. Grows /\ Tables'
    BY <2>1 DEF StartLogin, IInv, TypeOK, tables, Grows, Tables
  <2>3. Known("find", b, u, proven', exempt', totp', setting'.totp)
    BY <2>1 DEF StartLogin, tables, Known
  <2>4. Moves(r)
    BY <2>1, <2>2, <2>3, Beginning DEF StartLogin, Steps
  <2> QED BY <2>1, <2>2, <2>4 DEF StartLogin, Handles
<1>2. CASE \E u \in Users : StartAddTotp(r, b, u)
  <2>1. PICK u \in Users : StartAddTotp(r, b, u)
    BY <1>2
  <2>2. Grows /\ Tables'
    BY <2>1, Unchanged DEF StartAddTotp
  <2>3. Moves(r)
    BY <2>1, <2>2, Beginning DEF StartAddTotp, Steps, Known
  <2> QED BY <2>1, <2>2, <2>3 DEF StartAddTotp, Handles
<1>3. ASSUME NEW pc \in {"code", "options", "assert"}, session[b].mfa # None,
             Begin(r, b, pc, session[b].mfa), UNCHANGED <<setting, session, tables, history>>
      PROVE  Handles(r)
  <2>1. Grows /\ Tables'
    BY <1>3, Unchanged
  <2>2. session[b] \in Session /\ Sound(b, session[b], proven, exempt, setting.totp)
    BY DEF IInv, TypeOK
  <2>3. session[b].mfa \in Users
    BY <1>3, <2>2 DEF Session
  <2>4. Known(pc, b, session[b].mfa, proven', exempt', totp', setting'.totp)
    BY <1>3, <2>1, <2>2 DEF Sound, Grows, Known
  <2>5. Moves(r)
    BY <1>3, <2>1, <2>3, <2>4, Beginning DEF Steps
  <2> QED BY <1>3, <2>1, <2>5 DEF Handles
<1>4. CASE StartMfa(r, b)
  BY <1>3, <1>4 DEF StartMfa
<1>5. CASE \E pc \in {"options", "assert"} : StartWebauthn(r, b, pc)
  BY <1>3, <1>5 DEF StartWebauthn
<1>6. CASE \E pc \in Pages : StartPage(r, b, pc)
  <2>1. PICK pc \in Pages : StartPage(r, b, pc)
    BY <1>6
  <2>2. Grows /\ Tables'
    BY <2>1, Unchanged DEF StartPage
  <2>3. session[b] \in Session /\ Sound(b, session[b], proven', exempt', setting'.totp)
    BY <2>2, StillSound DEF IInv, TypeOK
  <2>4. PICK q : q = [pc |-> pc, browser |-> b, session |-> session[b]]
    OBVIOUS
  <2>5. q \in Request
    BY <2>3, <2>4 DEF Request
  <2>6. Good(q, proven', exempt', totp', setting'.totp)
    BY <2>3, <2>4 DEF Good, Steps, Pages
  <2> QED BY <2>1, <2>2, <2>4, <2>5, <2>6 DEF StartPage, Handles, Moves
<1> QED BY <1>1, <1>2, <1>3, <1>4, <1>5, <1>6 DEF Start

-----------------------------------------------------------------------------
(* The steps of a request that has begun                                   *)

\* What a step finds: the types of its request, and what is known of it.
LEMMA Found ==
  ASSUME IInv, NEW r \in Requests, req[r].pc \in Steps
  PROVE  /\ req[r].pc # "idle" /\ req[r].browser \in Browsers
         /\ req[r].session \in Session /\ req[r].user \in Users
         /\ Known(req[r].pc, req[r].browser, req[r].user, proven, exempt, totp, setting.totp)
<1>1. req[r] \in [pc : Steps, browser : Browsers, session : Session, user : Users]
  BY Kinds DEF IInv, TypeOK
<1>2. req[r].pc # "idle"
  BY DEF Steps
<1> QED BY <1>1, <1>2 DEF IInv, Good

\* A step that changes no table and no history, and only redirects
LEMMA OnlyRedirects ==
  ASSUME IInv, NEW r \in Requests, req[r].pc # "idle", Redirect(r),
         UNCHANGED <<setting, session, tables, history>>
  PROVE  Handles(r)
BY Unchanged, Redirecting DEF Handles

LEMMA LoginForm ==
  ASSUME IInv, NEW r \in Requests,
         FindUser(r) \/ PasswordRight(r) \/ PasswordRefused(r) \/ HasTotp(r) \/ HasWebauthn(r)
  PROVE  Handles(r)
<1>1. CASE FindUser(r)
  <2>1. req[r].pc = "find" /\ UNCHANGED <<setting, session, tables, history>>
    BY <1>1 DEF FindUser
  <2>2. CASE Goto(r, "password")
    <3>1. Grows /\ Tables'
      BY <2>1, Unchanged
    <3>2. Known("password", req[r].browser, req[r].user, proven', exempt', totp', setting'.totp)
      BY <2>1, Found DEF Steps, Known, tables, history
    <3> QED BY <2>1, <2>2, <3>1, <3>2, GoingOn DEF Steps, Handles
  <2> QED BY <1>1, <2>1, <2>2, OnlyRedirects DEF FindUser
<1>2. CASE PasswordRight(r)
  <2>1. Grows /\ Tables'
    BY <1>2, Found DEF PasswordRight, Steps, Prove, IInv, TypeOK, tables, Grows, Tables
  <2>2. Known("totp", req[r].browser, req[r].user, proven', exempt', totp', setting'.totp)
    BY <1>2, Found DEF PasswordRight, Steps, Prove, Known, tables
  <2> QED BY <1>2, <2>1, <2>2, GoingOn DEF PasswordRight, Steps, Handles
<1>3. CASE PasswordRefused(r)
  BY <1>3, OnlyRedirects DEF PasswordRefused
<1>4. CASE HasTotp(r)
  <2>1. req[r].pc = "totp" /\ UNCHANGED <<setting, session, tables, history>>
    BY <1>4 DEF HasTotp
  <2>2. Grows /\ Tables'
    BY <2>1, Unchanged
  <2>3. Known("totp", req[r].browser, req[r].user, proven, exempt, totp, setting.totp)
    BY <2>1, Found DEF Steps
  <2>4. CASE AwaitFactor(r)
    BY <2>1, <2>2, <2>3, <2>4, Awaiting DEF Steps, Handles, Known, Grows
  <2>5. ASSUME setting.totp = "disabled" \/ (setting.totp = "enabled" /\ totp[req[r].user] = None),
               Goto(r, "webauthn")
        PROVE  Handles(r)
    <3>1. Known("webauthn", req[r].browser, req[r].user, proven', exempt', totp', setting'.totp)
      BY <2>1, <2>3, <2>5 DEF Known, tables, history
    <3> QED BY <2>1, <2>2, <2>5, <3>1, GoingOn DEF Steps, Handles
  <2> QED BY <1>4, <2>1, <2>4, <2>5, OnlyRedirects DEF HasTotp, Demand
<1>5. CASE HasWebauthn(r)
  <2>1. req[r].pc = "webauthn" /\ UNCHANGED <<setting, session, tables, history>>
    BY <1>5 DEF HasWebauthn
  <2>2. Grows /\ Tables'
    BY <2>1, Unchanged
  <2>3. Known("webauthn", req[r].browser, req[r].user, proven, exempt, totp, setting.totp)
    BY <2>1, Found DEF Steps
  <2>4. CASE AwaitFactor(r)
    BY <2>1, <2>2, <2>3, <2>4, Awaiting DEF Steps, Handles, Known, Grows
  <2>5. CASE LogIn(r)
    <3>1. Logged(req[r].browser, req[r].user, proven', exempt', setting'.totp)
      BY <2>1, <2>3 DEF Known, Logged, history
    <3> QED BY <2>1, <2>2, <2>5, <3>1, LoggingIn DEF Steps, Handles
  <2> QED BY <1>5, <2>1, <2>4, <2>5, OnlyRedirects DEF HasWebauthn, Demand
<1> QED BY <1>1, <1>2, <1>3, <1>4, <1>5

\* CodeAccepted() at a step where the second factor is proven
LEMMA Accepting ==
  ASSUME IInv, Grows, NEW r \in Requests, req[r].pc \in {"code", "reset"}, CodeAccepted(r),
         <<req[r].browser, req[r].user, "totp">> \in proven'
  PROVE  Moves(r)
<1>1. req[r].pc \in Steps /\ req[r].pc # "idle"
  BY DEF Steps
<1>2. <<req[r].browser, req[r].user, "password">> \in proven'
  BY <1>1, Found DEF Known, Grows
<1>3. Logged(req[r].browser, req[r].user, proven', exempt', setting'.totp)
  BY <1>2 DEF Logged
<1> QED BY <1>1, <1>3, LoggingIn, Redirecting DEF CodeAccepted

LEMMA TotpCode ==
  ASSUME IInv, NEW r \in Requests,
         CodeRight(r) \/ CodeWrong(r) \/ CodeRefused(r) \/ ResetFailures(r) \/ CountFailure(r)
  PROVE  Handles(r)
<1>1. CASE CodeRight(r)
  <2>1. req[r].pc = "code" /\ totp[req[r].user] # None
    BY <1>1 DEF CodeRight, Open
  <2>2. Grows /\ Tables'
    BY <1>1, Found DEF CodeRight, Steps, Prove, IInv, TypeOK, tables, Grows, Tables
  <2>3. <<req[r].browser, req[r].user, "totp">> \in proven'
    BY <1>1 DEF CodeRight, Prove
  <2>4. CASE Goto(r, "reset")
    <3>1. Known("reset", req[r].browser, req[r].user, proven', exempt', totp', setting'.totp)
      BY <1>1, <2>1, <2>2, <2>3, Found DEF Steps, Known, Grows
    <3> QED BY <1>1, <2>1, <2>2, <2>4, <3>1, GoingOn DEF CodeRight, Steps, Handles
  <2>5. CASE CodeAccepted(r)
    BY <1>1, <2>1, <2>2, <2>3, <2>5, Accepting DEF CodeRight, Handles
  <2> QED BY <1>1, <2>4, <2>5 DEF CodeRight
<1>2. CASE CodeWrong(r)
  <2>1. req[r].pc = "code" /\ totp[req[r].user] # None /\ req[r].user \in Users
    BY <1>2, Found DEF CodeWrong, Open, Steps
  <2>2. Grows /\ Tables'
    BY <1>2, <2>1 DEF CodeWrong, IInv, TypeOK, tables, Grows, Tables
  <2>3. Known("count", req[r].browser, req[r].user, proven', exempt', totp', setting'.totp)
    BY <2>1, <2>2, Found DEF Steps, Known, Grows
  <2> QED BY <1>2, <2>1, <2>2, <2>3, GoingOn DEF CodeWrong, Steps, Handles
<1>3. CASE CodeRefused(r)
  BY <1>3, OnlyRedirects DEF CodeRefused
<1>4. CASE ResetFailures(r)
  <2>1. req[r].pc = "reset" /\ req[r].user \in Users
    BY <1>4, Found DEF ResetFailures, Steps
  <2>2. 0 # None
    BY NoneAssumption
  <2>3. Grows /\ Tables'
    BY <1>4, <2>1, <2>2 DEF ResetFailures, IInv, TypeOK, Grows, Tables
  <2>4. <<req[r].browser, req[r].user, "totp">> \in proven'
    BY <2>1, <2>3, Found DEF Steps, Known, Grows
  <2> QED BY <1>4, <2>1, <2>3, <2>4, Accepting DEF ResetFailures, Handles
<1>5. CASE CountFailure(r)
  <2>1. /\ req[r].pc = "count" /\ req[r].user \in Users
        /\ totp[req[r].user] # None
    BY <1>5, Found DEF CountFailure, Steps, Known
  <2>2. totp[req[r].user] \in Nat
    BY <2>1 DEF IInv, TypeOK
  <2>3. totp[req[r].user] + 1 \in Nat /\ totp[req[r].user] + 1 # None
    BY <2>2, NoneAssumption
  <2>4. Grows /\ Tables'
    BY <1>5, <2>1, <2>3 DEF CountFailure, IInv, TypeOK, history, Grows, Tables
  <2> QED BY <1>5, <2>1, <2>4, Redirecting DEF CountFailure, Handles
<1> QED BY <1>1, <1>2, <1>3, <1>4, <1>5

\* A user with a security key may be logged in once the password is proven.
LEMMA LoggingInByKey ==
  ASSUME IInv, Grows, NEW r \in Requests, req[r].pc \in {"assert", "counter"},
         req[r].user \in Keys, LogIn(r)
  PROVE  Moves(r)
<1>1. req[r].pc \in Steps
  BY DEF Steps
<1>2. Logged(req[r].browser, req[r].user, proven', exempt', setting'.totp)
  BY <1>1, Found DEF Known, Grows, Logged
<1> QED BY <1>1, <1>2, LoggingIn

LEMMA SecurityKey ==
  ASSUME IInv, NEW r \in Requests,
         \/ Options(r) \/ AssertionRefused(r) \/ AssertionVerified(r)
         \/ AssertionUnverified(r) \/ SaveCounter(r)
  PROVE  Handles(r)
<1>1. CASE Options(r)
  <2>1. req[r].pc = "options" /\ UNCHANGED <<setting, session, tables, history>>
    BY <1>1 DEF Options
  <2>2. Grows /\ Tables'
    BY <2>1, Unchanged
  <2>3. PICK s : s = [req[r].session EXCEPT !.challenge = TRUE]
    OBVIOUS
  <2>4. /\ s \in Session /\ req[r].pc # "idle"
        /\ s.user = req[r].session.user /\ s.mfa = req[r].session.mfa
    BY <2>1, <2>3, Found DEF Steps, Session
  <2>5. Sound(req[r].browser, req[r].session, proven', exempt', setting'.totp)
    BY <2>2, <2>4, StillSound DEF IInv, Good
  <2>6. Sound(req[r].browser, s, proven', exempt', setting'.totp)
    BY <2>4, <2>5 DEF Sound
  <2> QED BY <1>1, <2>1, <2>2, <2>3, <2>4, <2>6, Answering DEF Options, Handles
<1>2. CASE AssertionRefused(r)
  <2>1. Grows /\ Tables'
    BY <1>2, Unchanged DEF AssertionRefused
  <2> QED BY <1>2, <2>1, Spending, Answering DEF AssertionRefused, Handles
<1>3. CASE AssertionVerified(r)
  <2>1. req[r].pc = "assert" /\ req[r].user \in Keys
    BY <1>3 DEF AssertionVerified
  <2>2. Grows /\ Tables'
    BY <1>3, Found DEF AssertionVerified, Steps, Prove, IInv, TypeOK, tables, Grows, Tables
  <2>3. /\ req[r] \in [pc : Steps, browser : Browsers, session : Session, user : Users]
        /\ req[r].pc # "idle"
    BY <2>1, Kinds DEF IInv, TypeOK, Steps
  <2>4. PICK q : q = [req[r] EXCEPT !.pc = "counter", !.session = Spent(r)]
    OBVIOUS
  <2>5. /\ q \in Request /\ q.pc = "counter" /\ q.browser = req[r].browser
        /\ q.session = Spent(r) /\ q.user = req[r].user
    BY <2>2, <2>3, <2>4, Spending DEF Request, Steps
  <2>6. Known("counter", req[r].browser, req[r].user, proven', exempt', totp', setting'.totp)
    BY <2>1, <2>2, Found DEF Steps, Known, Grows
  <2>7. Good(q, proven', exempt', totp', setting'.totp)
    BY <2>2, <2>3, <2>5, <2>6, Spending DEF Good
  <2>8. req' = [req EXCEPT ![r] = q]
    BY <1>3, <2>4 DEF AssertionVerified, IInv, TypeOK
  <2> QED BY <1>3, <2>2, <2>5, <2>7, <2>8 DEF AssertionVerified, Handles, Moves
<1>4. CASE AssertionUnverified(r)
  <2>1. Grows /\ Tables'
    BY <1>4, Unchanged DEF AssertionUnverified
  <2> QED BY <1>4, <2>1, LoggingInByKey DEF AssertionUnverified, Handles
<1>5. CASE SaveCounter(r)
  <2>1. Grows /\ Tables'
    BY <1>5, Unchanged DEF SaveCounter
  <2>2. req[r].user \in Keys
    BY <1>5, Found DEF SaveCounter, Steps, Known
  <2> QED BY <1>5, <2>1, <2>2, LoggingInByKey DEF SaveCounter, Handles
<1> QED BY <1>1, <1>2, <1>3, <1>4, <1>5

LEMMA OtherPages ==
  ASSUME IInv, NEW r \in Requests, Logout(r) \/ InsertTotp(r)
  PROVE  Handles(r)
<1>1. CASE Logout(r)
  <2>1. Grows /\ Tables' /\ req[r].pc # "idle"
    BY <1>1, Unchanged DEF Logout
  <2>2. Sound(req[r].browser, Empty, proven', exempt', setting'.totp)
    BY DEF Sound, Empty
  <2> QED BY <1>1, <2>1, <2>2, EmptyIsSession, Answering DEF Logout, Handles
<1>2. CASE InsertTotp(r)
  <2>1. req[r].pc = "insert" /\ req[r].user \in Users
    BY <1>2, Found DEF InsertTotp, Steps
  <2>2. 0 # None
    BY NoneAssumption
  <2>3. Grows /\ Tables'
    BY <1>2, <2>1, <2>2 DEF InsertTotp, IInv, TypeOK, history, Grows, Tables
  <2> QED BY <1>2, <2>1, <2>3, Redirecting DEF InsertTotp, Handles
<1> QED BY <1>1, <1>2

\* A request that is answered holds no session any more.
LEMMA Resting ==
  ASSUME IInv, Grows, NEW r \in Requests, req' = [req EXCEPT ![r] = Idle]
  PROVE  Moves(r)
<1>1. Idle \in Request /\ Good(Idle, proven', exempt', totp', setting'.totp)
  BY DEF Idle, Request, Good
<1> QED BY <1>1 DEF Moves

LEMMA Failing ==
  ASSUME IInv, NEW r \in Requests, Fail(r)
  PROVE  Handles(r)
<1>1. req[r].pc # "idle"
  <2>1. req[r] \in Request /\ req[r] # Idle
    BY DEF IInv, TypeOK, Fail
  <2> QED BY <2>1 DEF Request, Idle, Pages, Steps
<1>2. lost' \in [Users -> Nat]
  <2>1. CASE req[r].pc = "count"
    BY <2>1, Found DEF Fail, Steps, IInv, TypeOK
  <2>2. CASE req[r].pc # "count"
    BY <2>2 DEF Fail, IInv, TypeOK
  <2> QED BY <2>1, <2>2
<1>3. Grows /\ Tables'
  BY <1>2 DEF Fail, IInv, TypeOK, tables, Grows, Tables
<1>4. Moves(r)
  <2>1. CASE req[r].pc = "save"
    BY <1>3, <2>1, Resting DEF Fail
  <2>2. CASE req[r].pc = "assert"
    BY <1>1, <1>3, <2>2, Spending, Answering DEF Fail
  <2>3. CASE req[r].pc \notin {"save", "assert"}
    BY <1>1, <1>3, <2>3, Redirecting DEF Fail
  <2> QED BY <2>1, <2>2, <2>3
<1> QED BY <1>3, <1>4 DEF Fail, Handles
-----------------------------------------------------------------------------
(* The theorems                                                            *)

LEMMA InitIInv ==
  ASSUME Init
  PROVE  IInv
<1>1. PICK enrolled \in SUBSET Enrolling :
        totp = [u \in Users |-> IF u \in enrolled THEN 0 ELSE None]
  BY DEF Init
<1>2. totp \in [Users -> Nat \cup {None}]
  BY <1>1
<1>3. setting \in [totp : Modes, webauthn : Modes]
  BY SettingsAssumption DEF Init
<1>4. /\ session \in [Browsers -> Session]
      /\ \A b \in Browsers : Sound(b, session[b], proven, exempt, setting.totp)
  BY EmptyIsSession DEF Init, Sound, Empty
<1>5. /\ req \in [Requests -> Request]
      /\ \A r \in Requests : Good(req[r], proven, exempt, totp, setting.totp)
  BY DEF Init, Idle, Request, Good
<1> QED BY <1>2, <1>3, <1>4, <1>5 DEF Init, IInv, TypeOK

LEMMA Saving ==
  ASSUME IInv, NEW r \in Requests, Save(r)
  PROVE  IInv'
<1>1. Grows /\ Tables'
  BY Unchanged DEF Save, IInv, TypeOK, Tables, Grows, tables, history
<1>2. /\ req' \in [Requests -> Request]
      /\ \A x \in Requests : Good(req'[x], proven', exempt', totp', setting'.totp)
  BY <1>1, Resting, OneMoves DEF Save
<1>3. req[r].browser \in Browsers /\ req[r].session \in Session
  BY Kinds DEF Save, IInv, TypeOK
<1>4. Sound(req[r].browser, req[r].session, proven', exempt', setting'.totp)
  BY <1>1, StillSound DEF Save, IInv, Good
<1>5. session' \in [Browsers -> Session]
  BY <1>3 DEF Save, IInv, TypeOK
<1>6. ASSUME NEW b \in Browsers
      PROVE  Sound(b, session'[b], proven', exempt', setting'.totp)
  <2>1. CASE b = req[r].browser
    BY <1>4, <2>1 DEF Save, IInv, TypeOK
  <2>2. CASE b # req[r].browser
    <3>1. session'[b] = session[b]
      BY <2>2 DEF Save, IInv, TypeOK
    <3>2. Sound(b, session[b], proven', exempt', setting'.totp)
      BY <1>1, StillSound DEF IInv
    <3> QED BY <3>1, <3>2
  <2> QED BY <2>1, <2>2
<1> QED BY <1>1, <1>2, <1>5, <1>6 DEF IInv, TypeOK, Tables, Grows

LEMMA NextIInv ==
  ASSUME IInv, [Next]_vars
  PROVE  IInv'
<1>1. ASSUME NEW r \in Requests, NEW b \in Browsers, Start(r, b)
      PROVE  IInv'
  BY <1>1, Starting, Handled
<1>2. ASSUME NEW r \in Requests, Step(r), ~ Save(r)
      PROVE  IInv'
  BY <1>2, LoginForm, TotpCode, SecurityKey, OtherPages, Failing, Handled DEF Step
<1>3. ASSUME NEW u \in Editable, Deactivate(u)
      PROVE  IInv'
  BY <1>3 DEF Deactivate, IInv, TypeOK, history
<1>4. CASE UNCHANGED vars
  BY <1>4 DEF vars, tables, history, IInv, TypeOK
<1> QED BY <1>1, <1>2, <1>3, <1>4, Saving DEF Next

LEMMA Invariant == Spec => []IInv
BY InitIInv, NextIInv, PTL DEF Spec

\* All state keeps its type: what a handler puts into a session is a session.
THEOREM TypeCorrect == Spec => []TypeOK
<1>1. IInv => TypeOK
  BY DEF IInv
<1> QED BY <1>1, Invariant, PTL

\* For every number of requests, browsers and users, and every setting: whoever
\* a session names has proven the factors that were asked for, in that browser.
THEOREM LoginsAreProven == Spec => []LoginIsProven
<1>1. IInv => LoginIsProven
  BY DEF IInv, LoginIsProven, Sound, Logged
<1> QED BY <1>1, Invariant, PTL
-----------------------------------------------------------------------------
(* How many wrong codes are compared                                       *)

\* The requests that are going to count a wrong code of user u
Pending(u) == {r \in Requests : req[r].pc = "count" /\ req[r].user = u}

\* Every wrong code is counted, about to be, or lost.
Accounted(u) ==
  /\ totp[u] = None => guesses[u] = 0
  /\ totp[u] # None => guesses[u] <= totp[u] + lost[u] + Cardinality(Pending(u))

Bounded(u) == guesses[u] < MaxFailures + Cardinality(Requests) + lost[u]

GInv == \A u \in Users : Accounted(u) /\ Bounded(u)

IsPending(r, u) == IF r \in Pending(u) THEN 1 ELSE 0

\* A step of request r changes the number of pending counts by r alone.
LEMMA PendingCount ==
  ASSUME NEW r \in Requests, NEW u, \A x \in Requests \ {r} : req'[x] = req[x]
  PROVE  \E c \in Nat : /\ c + 1 <= Cardinality(Requests)
                         /\ Cardinality(Pending(u)) = c + IsPending(r, u)
                         /\ Cardinality(Pending(u)') = c + IsPending(r, u)'
<1>1. PICK C : C = Pending(u) \ {r}
  OBVIOUS
<1>2. C = Pending(u)' \ {r}
  BY <1>1 DEF Pending
<1>3. IsFiniteSet(Requests \ {r}) /\ Cardinality(Requests \ {r}) = Cardinality(Requests) - 1
      /\ Cardinality(Requests) \in Nat
  BY RequestsAssumption, FS_RemoveElement, FS_CardinalityType
<1>4. C \subseteq Requests \ {r}
  BY <1>1 DEF Pending
<1>5. IsFiniteSet(C) /\ Cardinality(C) \in Nat /\ Cardinality(C) <= Cardinality(Requests) - 1
  BY <1>3, <1>4, FS_Subset, FS_CardinalityType
<1>6. Cardinality(Pending(u)) = Cardinality(C) + IsPending(r, u)
  <2>1. CASE r \in Pending(u)
    <3>1. Pending(u) = C \cup {r} /\ r \notin C
      BY <1>1, <2>1
    <3> QED BY <1>5, <2>1, <3>1, FS_AddElement DEF IsPending
  <2>2. CASE r \notin Pending(u)
    <3>1. Pending(u) = C
      BY <1>1, <2>2
    <3> QED BY <1>5, <2>2, <3>1 DEF IsPending
  <2> QED BY <2>1, <2>2
<1>7. Cardinality(Pending(u)') = Cardinality(C) + IsPending(r, u)'
  <2>1. CASE r \in Pending(u)'
    <3>1. Pending(u)' = C \cup {r} /\ r \notin C
      BY <1>1, <1>2, <2>1
    <3> QED BY <1>5, <2>1, <3>1, FS_AddElement DEF IsPending
  <2>2. CASE r \notin Pending(u)'
    <3>1. Pending(u)' = C
      BY <1>2, <2>2
    <3> QED BY <1>5, <2>2, <3>1 DEF IsPending
  <2> QED BY <2>1, <2>2
<1> QED BY <1>3, <1>5, <1>6, <1>7

\* A step of a request that has no wrong code to count
Bystands(r) ==
  /\ req[r].pc # "count" /\ req'[r].pc # "count"
  /\ UNCHANGED <<guesses, lost>>
  /\ \A u \in Users : totp[u] # None => totp'[u] = totp[u]

LEMMA Bystanding ==
  ASSUME TypeOK, TypeOK', GInv, NEW r \in Requests, Bystands(r),
         \A x \in Requests \ {r} : req'[x] = req[x]
  PROVE  GInv'
<1>1. ASSUME NEW u \in Users
      PROVE  Accounted(u)' /\ Bounded(u)'
  <2>1. PICK c \in Nat : /\ Cardinality(Pending(u)) = c + IsPending(r, u)
                         /\ Cardinality(Pending(u)') = c + IsPending(r, u)'
    BY PendingCount
  <2>2. IsPending(r, u) = 0 /\ IsPending(r, u)' = 0
    BY DEF Bystands, IsPending, Pending
  <2>3. Cardinality(Pending(u)) = c /\ Cardinality(Pending(u))' = c
    BY <2>1, <2>2
  <2>4. /\ guesses[u] \in Nat /\ lost[u] \in Nat /\ totp[u] \in Nat \cup {None}
        /\ totp'[u] \in Nat \cup {None}
        /\ guesses'[u] = guesses[u] /\ lost'[u] = lost[u]
    BY DEF TypeOK, Bystands
  <2>5. Accounted(u)'
    <3>1. CASE totp[u] = None
      BY <2>3, <2>4, <3>1 DEF GInv, Accounted
    <3>2. CASE totp[u] # None
      BY <2>3, <2>4, <3>2 DEF GInv, Accounted, Bystands
    <3> QED BY <3>1, <3>2
  <2>6. Bounded(u)'
    BY <2>4 DEF GInv, Bounded
  <2> QED BY <2>5, <2>6
<1> QED BY <1>1 DEF GInv

\* Where a request is after its step
LEMMA Whereto ==
  ASSUME IInv, NEW r \in Requests
  PROVE  /\ \A s : Answer(r, s) => req'[r].pc = "save"
         /\ Redirect(r) \/ LogIn(r) \/ AwaitFactor(r) \/ CodeAccepted(r) => req'[r].pc = "save"
         /\ \A pc : req[r].pc \in Steps /\ Goto(r, pc) => req'[r].pc = pc
<1>1. req \in [Requests -> Request]
  BY DEF IInv, TypeOK
<1>2. ASSUME NEW s, Answer(r, s)
      PROVE  req'[r].pc = "save"
  BY <1>1, <1>2 DEF Answer
<1>3. ASSUME NEW pc, req[r].pc \in Steps, Goto(r, pc)
      PROVE  req'[r].pc = pc
  <2>1. req[r] \in [pc : Steps, browser : Browsers, session : Session, user : Users]
    BY <1>1, <1>3, Kinds
  <2> QED BY <1>1, <1>3, <2>1 DEF Goto
<1> QED BY <1>2, <1>3 DEF Redirect, LogIn, AwaitFactor, CodeAccepted

\* A step that does not change the tables and the histories of wrong codes
LEMMA Quiet ==
  ASSUME NEW r \in Requests, req[r].pc # "count", req'[r].pc # "count",
         UNCHANGED <<totp, guesses, lost>>
  PROVE  Bystands(r)
BY DEF Bystands

\* The steps that touch neither the count nor the history of wrong codes
LEMMA MostBystand ==
  ASSUME IInv, NEW r \in Requests, (\E b \in Browsers : Start(r, b)) \/ Step(r),
         ~ CodeWrong(r), ~ CountFailure(r), ~ ResetFailures(r), ~ (Fail(r) /\ req[r].pc = "count")
  PROVE  Bystands(r)
<1>1. req \in [Requests -> Request] /\ Idle.pc = "idle"
  BY DEF IInv, TypeOK, Idle
<1>2. CASE \E b \in Browsers : Start(r, b)
  BY <1>1, <1>2 DEF Start, StartLogin, StartAddTotp, StartMfa, StartWebauthn, StartPage, Begin,
                    Pages, Bystands, tables, history
<1>3. CASE FindUser(r) \/ PasswordRight(r) \/ PasswordRefused(r)
  BY <1>3, Whereto, Quiet DEF FindUser, PasswordRight, PasswordRefused, Steps, tables, history
<1>4. CASE HasTotp(r) \/ HasWebauthn(r)
  BY <1>4, Whereto, Quiet DEF HasTotp, HasWebauthn, Demand, Steps, tables, history
<1>5. CASE CodeRight(r) \/ CodeRefused(r)
  BY <1>5, Whereto, Quiet DEF CodeRight, CodeRefused, Steps, tables, history
<1>6. CASE Options(r) \/ AssertionRefused(r) \/ AssertionUnverified(r) \/ SaveCounter(r) \/ Logout(r)
  BY <1>6, Whereto, Quiet DEF Options, AssertionRefused, AssertionUnverified, SaveCounter, Logout,
                              tables, history
<1>7. CASE AssertionVerified(r)
  <2>1. req[r].pc = "assert" /\ UNCHANGED <<totp, guesses, lost>>
    BY <1>7 DEF AssertionVerified, tables
  <2>2. req[r] \in [pc : Steps, browser : Browsers, session : Session, user : Users]
    BY <1>1, <2>1, Kinds DEF Steps
  <2>3. PICK q : q = [req[r] EXCEPT !.pc = "counter", !.session = Spent(r)]
    OBVIOUS
  <2>4. q.pc = "counter"
    BY <2>2, <2>3
  <2>5. req' = [req EXCEPT ![r] = q]
    BY <1>1, <1>7, <2>3 DEF AssertionVerified
  <2> QED BY <1>1, <2>1, <2>4, <2>5, Quiet
<1>8. CASE InsertTotp(r)
  BY <1>1, <1>8, Whereto DEF InsertTotp, IInv, TypeOK, Bystands, history
<1>9. CASE Save(r)
  BY <1>1, <1>9, Quiet DEF Save, tables, history
<1>10. CASE Fail(r)
  <2>1. CASE req[r].pc = "save"
    BY <1>1, <1>10, <2>1 DEF Fail, Bystands, tables
  <2>2. CASE req[r].pc = "assert"
    BY <1>1, <1>10, <2>2 DEF Fail, Answer, Bystands, tables
  <2>3. CASE req[r].pc \notin {"save", "assert"}
    BY <1>1, <1>10, <2>3 DEF Fail, Redirect, Answer, Bystands, tables
  <2> QED BY <2>1, <2>2, <2>3
<1> QED BY <1>2, <1>3, <1>4, <1>5, <1>6, <1>7, <1>8, <1>9, <1>10 DEF Step

\* A step of request r leaves the others alone.
LEMMA Alone ==
  ASSUME IInv, NEW r \in Requests, Handles(r) \/ Save(r)
  PROVE  \A x \in Requests \ {r} : req'[x] = req[x]
BY DEF Handles, Moves, Save, IInv, TypeOK

\* It is enough to look at the user of a step, who is not any other.
LEMMA OneUser ==
  ASSUME GInv, NEW r \in Requests, NEW v \in Users, req[r].user = v,
         \A x \in Requests \ {r} : req'[x] = req[x],
         req'[r].pc = "save" \/ (req'[r].pc = "count" /\ req'[r].user = v),
         \A u \in Users \ {v} :
           totp'[u] = totp[u] /\ guesses'[u] = guesses[u] /\ lost'[u] = lost[u],
         Accounted(v)', Bounded(v)'
  PROVE  GInv'
<1>1. ASSUME NEW u \in Users \ {v}
      PROVE  Accounted(u)' /\ Bounded(u)'
  <2>1. Pending(u)' = Pending(u)
    BY DEF Pending
  <2> QED BY <1>1, <2>1 DEF GInv, Accounted, Bounded
<1> QED BY <1>1 DEF GInv

\* The steps of a wrong code, and of a right one after wrong ones
LEMMA Counting ==
  ASSUME IInv, IInv', GInv, NEW r \in Requests, Handles(r),
         CodeWrong(r) \/ CountFailure(r) \/ ResetFailures(r) \/ (Fail(r) /\ req[r].pc = "count")
  PROVE  GInv'
<1>1. req[r].pc \in {"code", "count", "reset"}
  BY DEF CodeWrong, CountFailure, ResetFailures
<1>2. PICK v \in Users : v = req[r].user
  BY <1>1, Found DEF Steps
<1>3. PICK c \in Nat : /\ c + 1 <= Cardinality(Requests)
                       /\ Cardinality(Pending(v)) = c + IsPending(r, v)
                       /\ Cardinality(Pending(v)') = c + IsPending(r, v)'
  BY PendingCount, Alone
<1>4. Accounted(v) /\ Bounded(v) /\ \A x \in Requests \ {r} : req'[x] = req[x]
  BY Alone DEF GInv
<1>5. /\ guesses[v] \in Nat /\ lost[v] \in Nat /\ totp[v] \in Nat \cup {None}
      /\ guesses'[v] \in Nat /\ lost'[v] \in Nat /\ totp'[v] \in Nat \cup {None}
      /\ MaxFailures \in Nat \ {0} /\ Cardinality(Requests) \in Nat
  BY LimitsAssumption, RequestsAssumption, FS_CardinalityType DEF IInv, TypeOK
<1>6. CASE CodeWrong(r)
  <2>1. req'[r].pc = "count" /\ req'[r].user = v
    <3>1. req[r].pc \in Steps /\ Goto(r, "count")
      BY <1>6 DEF CodeWrong, Steps
    <3>2. req[r] \in [pc : Steps, browser : Browsers, session : Session, user : Users]
      BY <3>1, Kinds DEF IInv, TypeOK
    <3> QED BY <1>2, <3>1, <3>2 DEF Goto, IInv, TypeOK
  <2>2. IsPending(r, v) = 0 /\ IsPending(r, v)' = 1
    BY <1>6, <2>1 DEF CodeWrong, IsPending, Pending
  <2>3. /\ totp[v] # None /\ totp[v] < MaxFailures
        /\ totp'[v] = totp[v] /\ guesses'[v] = guesses[v] + 1 /\ lost'[v] = lost[v]
    BY <1>2, <1>6 DEF CodeWrong, Open, tables, IInv, TypeOK
  <2>4. Accounted(v)' /\ Bounded(v)'
    BY <1>3, <1>4, <1>5, <2>2, <2>3 DEF Accounted, Bounded
  <2>5. \A u \in Users \ {v} :
          totp'[u] = totp[u] /\ guesses'[u] = guesses[u] /\ lost'[u] = lost[u]
    BY <1>2, <1>6 DEF CodeWrong, tables, IInv, TypeOK
  <2> QED BY <1>2, <1>4, <2>1, <2>4, <2>5, OneUser
<1>7. CASE CountFailure(r)
  <2>1. req[r].pc = "count" /\ req'[r].pc = "save" /\ totp[v] # None
    BY <1>2, <1>7, Whereto, Found DEF CountFailure, Steps, Known
  <2>2. IsPending(r, v) = 1 /\ IsPending(r, v)' = 0
    BY <1>2, <2>1 DEF IsPending, Pending
  <2>3. totp'[v] = totp[v] + 1 /\ guesses'[v] = guesses[v] /\ lost'[v] = lost[v]
    BY <1>2, <1>7 DEF CountFailure, history, IInv, TypeOK
  <2>4. Accounted(v)'
    BY <1>3, <1>4, <1>5, <2>1, <2>2, <2>3, NoneAssumption DEF Accounted
  <2>5. Bounded(v)'
    BY <1>4, <2>3 DEF Bounded
  <2>6. \A u \in Users \ {v} :
          totp'[u] = totp[u] /\ guesses'[u] = guesses[u] /\ lost'[u] = lost[u]
    BY <1>2, <1>7 DEF CountFailure, history, IInv, TypeOK
  <2> QED BY <1>2, <1>4, <2>1, <2>4, <2>5, <2>6, OneUser
<1>8. CASE ResetFailures(r)
  <2>1. req'[r].pc = "save"
    BY <1>8, Whereto DEF ResetFailures
  <2>2. IsPending(r, v)' = 0
    BY <2>1 DEF IsPending, Pending
  <2>3. totp'[v] = 0 /\ guesses'[v] = 0 /\ lost'[v] = 0
    BY <1>2, <1>8 DEF ResetFailures, IInv, TypeOK
  <2>4. Accounted(v)' /\ Bounded(v)'
    BY <1>3, <1>5, <2>2, <2>3 DEF Accounted, Bounded
  <2>5. \A u \in Users \ {v} :
          totp'[u] = totp[u] /\ guesses'[u] = guesses[u] /\ lost'[u] = lost[u]
    BY <1>2, <1>8 DEF ResetFailures, IInv, TypeOK
  <2> QED BY <1>2, <1>4, <2>1, <2>4, <2>5, OneUser
<1>9. CASE Fail(r) /\ req[r].pc = "count"
  <2>1. req'[r].pc = "save" /\ totp[v] # None
    BY <1>2, <1>9, Whereto, Found DEF Fail, Steps, Known
  <2>2. IsPending(r, v) = 1 /\ IsPending(r, v)' = 0
    BY <1>2, <1>9, <2>1 DEF IsPending, Pending
  <2>3. totp'[v] = totp[v] /\ guesses'[v] = guesses[v] /\ lost'[v] = lost[v] + 1
    BY <1>2, <1>9 DEF Fail, tables, IInv, TypeOK
  <2>4. Accounted(v)' /\ Bounded(v)'
    BY <1>3, <1>4, <1>5, <2>1, <2>2, <2>3 DEF Accounted, Bounded
  <2>5. \A u \in Users \ {v} :
          totp'[u] = totp[u] /\ guesses'[u] = guesses[u] /\ lost'[u] = lost[u]
    BY <1>2, <1>9 DEF Fail, tables, IInv, TypeOK
  <2> QED BY <1>2, <1>4, <2>1, <2>4, <2>5, OneUser
<1> QED BY <1>6, <1>7, <1>8, <1>9

LEMMA InitGInv ==
  ASSUME Init
  PROVE  GInv
<1>1. ASSUME NEW u \in Users
      PROVE  Accounted(u) /\ Bounded(u)
  <2>1. Pending(u) = {}
    BY DEF Init, Idle, Pending
  <2>2. Cardinality(Pending(u)) = 0
    BY <2>1, FS_EmptySet
  <2>3. totp[u] \in {0, None} /\ guesses[u] = 0 /\ lost[u] = 0
    BY DEF Init
  <2>4. MaxFailures \in Nat \ {0} /\ Cardinality(Requests) \in Nat
    BY LimitsAssumption, RequestsAssumption, FS_CardinalityType
  <2> QED BY <2>2, <2>3, <2>4 DEF Accounted, Bounded
<1> QED BY <1>1 DEF GInv

LEMMA NextGInv ==
  ASSUME IInv, IInv', GInv, [Next]_vars
  PROVE  GInv'
<1>1. ASSUME NEW r \in Requests, NEW b \in Browsers, Start(r, b)
      PROVE  GInv'
  <2>1. Handles(r) /\ ~ (CodeWrong(r) \/ CountFailure(r) \/ ResetFailures(r) \/ Fail(r))
    BY <1>1, Starting DEF Start, StartLogin, StartAddTotp, StartMfa, StartWebauthn, StartPage,
         Begin, CodeWrong, CountFailure, ResetFailures, Fail, Idle
  <2> QED BY <1>1, <2>1, Alone, MostBystand, Bystanding DEF IInv
<1>2. ASSUME NEW r \in Requests, Step(r)
      PROVE  GInv'
  <2>1. Handles(r) \/ Save(r)
    BY <1>2, LoginForm, TotpCode, SecurityKey, OtherPages, Failing DEF Step
  <2>2. CASE CodeWrong(r) \/ CountFailure(r) \/ ResetFailures(r) \/ (Fail(r) /\ req[r].pc = "count")
    BY <2>2, TotpCode, Failing, Counting
  <2>3. CASE ~ (CodeWrong(r) \/ CountFailure(r) \/ ResetFailures(r)
                  \/ (Fail(r) /\ req[r].pc = "count"))
    BY <1>2, <2>1, <2>3, Alone, MostBystand, Bystanding DEF IInv
  <2> QED BY <2>2, <2>3
<1>3. CASE UNCHANGED <<totp, req, guesses, lost>>
  <2>1. \A u : Pending(u)' = Pending(u)
    BY <1>3 DEF Pending
  <2> QED BY <1>3, <2>1 DEF GInv, Accounted, Bounded
<1> QED BY <1>1, <1>2, <1>3 DEF Next, Deactivate, vars, tables, history

\* For every MAX_FAILURES and number of requests: the wrong codes that are compared
\* before the failures are reset are fewer than the two together, but for those
\* the server failed to count.
THEOREM CodesAreLimited == Spec => []CodeGuessesAreBounded
<1>1. GInv => CodeGuessesAreBounded
  BY DEF GInv, Bounded, CodeGuessesAreBounded
<1>2. Spec => []GInv
  BY Invariant, InitGInv, NextGInv, PTL DEF Spec
<1> QED BY <1>1, <1>2, PTL
-----------------------------------------------------------------------------
(* The order of the factors                                                *)

\* Whoever a browser's session awaits a second factor of, and whoever a request checks
\* one of, gave the password in that browser.
PasswordComesFirst ==
  /\ \A b \in Browsers : session[b].mfa # None => <<b, session[b].mfa, "password">> \in proven
  /\ \A r \in Requests :
       req[r].pc \in {"code", "reset", "count", "options", "assert", "counter"} =>
         <<req[r].browser, req[r].user, "password">> \in proven

\* Codes and keys are tried only after a password, however requests of the browser
\* overlap and overwrite each other's session: who has no password does not get to
\* the failure counter of a user.
THEOREM SecondFactorComesSecond == Spec => []PasswordComesFirst
<1>1. IInv => PasswordComesFirst
  BY DEF IInv, Good, Sound, Known, Steps, PasswordComesFirst
<1> QED BY <1>1, Invariant, PTL
=============================================================================
