---------------------------- MODULE BrowserLogin ----------------------------
(***************************************************************************)
(* Logging in with a browser: the login form, its second step with a TOTP  *)
(* code or a security key, and logging out (login/controller, mfa).        *)
(*                                                                         *)
(* The session middleware gives each request a copy of the browser's       *)
(* session and stores the copy when the request is answered, also with an  *)
(* error; of two requests that overlap the later one wins.  What a         *)
(* password, a code or a key is compared with is left out: the answer is   *)
(* right or wrong.                                                         *)
(***************************************************************************)
EXTENDS Naturals, FiniteSets

CONSTANTS
  Requests,       \* handler slots: requests the server works on at once
  Browsers,       \* browser session ids
  Users,
  Keys,           \* the users with a row in user_webauthn, made at registration
  Enrolling,      \* bound of the model: the users with a TOTP device, now or later
  Editable,       \* bound of the model: the users an administrator deactivates
  TotpModes,      \* bound of the model: values of the setting "totp"
  WebauthnModes,  \* bound of the model: values of the setting "webauthn"
  MaxFailures,    \* MAX_FAILURES
  MaxLost,        \* bound of the model: failures of the server that matter
  None

Modes == {"disabled", "enabled", "required"}

ASSUME SettingsAssumption == TotpModes \subseteq Modes /\ WebauthnModes \subseteq Modes
ASSUME LimitsAssumption == MaxFailures \in Nat \ {0} /\ MaxLost \in Nat
ASSUME NoneAssumption == None \notin Users \cup Nat
ASSUME UsersAssumption == Keys \subseteq Users /\ Enrolling \subseteq Users /\ Editable \subseteq Users
ASSUME RequestsAssumption == IsFiniteSet(Requests)

VARIABLES
  setting,  \* the two settings; they are read once, when the server starts
  session,  \* browser -> what the store has under its id; Empty if nothing
  active,   \* users who may log in: principals.active, and a verified identity
  totp,     \* user -> user_totp.failures, None without a row
  req,      \* what each slot holds between two awaits
  proven,   \* history: <<browser, user, factor>> for every answer that was right
  exempt,   \* history: <<browser, user>> of logins begun without a TOTP device
  guesses,  \* history: wrong codes compared since the failures were reset
  lost      \* history: those of them that were never counted

vars == <<setting, session, active, totp, req, proven, exempt, guesses, lost>>
tables == <<active, totp>>
history == <<proven, exempt, guesses, lost>>

Session == [user : Users \cup {None}, mfa : Users \cup {None}, challenge : BOOLEAN]
Empty == [user |-> None, mfa |-> None, challenge |-> FALSE]

Pages == {"save", "logout"}
Steps == {"find", "password", "totp", "webauthn",   \* the login form
          "code", "reset", "count",                 \* the TOTP step
          "options", "assert", "counter",           \* the security key
          "insert"}                                 \* a new TOTP device
Idle == [pc |-> "idle"]
Request == [pc : {"idle"}]
             \cup [pc : Pages, browser : Browsers, session : Session]
             \cup [pc : Steps, browser : Browsers, session : Session, user : Users]

Begin(r, b, pc, u) ==
  /\ req[r] = Idle
  /\ req' = [req EXCEPT ![r] =
       [pc |-> pc, browser |-> b, session |-> session[b], user |-> u]]

Goto(r, pc) == req' = [req EXCEPT ![r].pc = pc]

\* The handler is done, and s is what the middleware is going to store.
Answer(r, s) ==
  req' = [req EXCEPT ![r] = [pc |-> "save", browser |-> req[r].browser, session |-> s]]

Redirect(r) == Answer(r, req[r].session)

\* Mutant of LogIn: the session has the user and no other field.
LogInBare(r) == Answer(r, [user |-> req[r].user])

\* setLoginSession(): a new session, of which nothing older is kept
LogIn(r) == Answer(r, [Empty EXCEPT !.user = req[r].user])

\* A session that waits for the second factor
AwaitFactor(r) == Answer(r, [Empty EXCEPT !.mfa = req[r].user])

Prove(r, factor) == proven' = proven \cup {<<req[r].browser, req[r].user, factor>>}
-----------------------------------------------------------------------------
(* The login form: POST /login                                             *)

StartLogin(r, b, u) ==
  /\ Begin(r, b, "find", u)
  /\ exempt' = IF totp[u] = None THEN exempt \cup {<<b, u>>} ELSE exempt
  /\ UNCHANGED <<setting, session, tables, proven, guesses, lost>>

\* Mutant of FindUser: the second factor is asked for first.
FindUserMfaFirst(r) ==
  /\ req[r].pc = "find"
  /\ IF req[r].user \in active THEN Goto(r, "totp") ELSE Redirect(r)
  /\ UNCHANGED <<setting, session, tables, history>>

\* Inactive accounts and identities without verification are refused.
FindUser(r) ==
  /\ req[r].pc = "find"
  /\ IF req[r].user \in active THEN Goto(r, "password") ELSE Redirect(r)
  /\ UNCHANGED <<setting, session, tables, history>>

\* validateUserCredentials()
PasswordRight(r) ==
  /\ req[r].pc = "password"
  /\ Prove(r, "password")
  /\ Goto(r, "totp")
  /\ UNCHANGED <<setting, session, tables, exempt, guesses, lost>>

PasswordRefused(r) ==
  /\ req[r].pc = "password"
  /\ Redirect(r)
  /\ UNCHANGED <<setting, session, tables, history>>

\* The step after the password for a factor that the user has or not: on to the
\* second step (unless the URL to continue at is refused), refused, or passed by.
Demand(r, mode, has, next) ==
  \/ mode # "disabled" /\ has /\ (AwaitFactor(r) \/ Redirect(r))
  \/ mode = "required" /\ ~ has /\ Redirect(r)
  \/ (mode = "disabled" \/ (mode = "enabled" /\ ~ has)) /\ next

\* shouldUseTotp()
HasTotp(r) ==
  /\ req[r].pc = "totp"
  /\ Demand(r, setting.totp, totp[req[r].user] # None, Goto(r, "webauthn"))
  /\ UNCHANGED <<setting, session, tables, history>>

\* shouldUseWebauthn(), and the end of the login without a second step
HasWebauthn(r) ==
  /\ req[r].pc = "webauthn"
  /\ Demand(r, setting.webauthn, req[r].user \in Keys, LogIn(r))
  /\ UNCHANGED <<setting, session, tables, history>>
-----------------------------------------------------------------------------
(* The second step with a TOTP code: POST /login/mfa                       *)

StartMfa(r, b) ==
  /\ session[b].mfa # None
  /\ Begin(r, b, "code", session[b].mfa)
  /\ UNCHANGED <<setting, session, tables, history>>

\* Mutant of Open: one more than allowed.
OpenOnceMore(u) == totp[u] # None /\ totp[u] <= MaxFailures

\* validateTotp() throws without a device, and after MAX_FAILURES.
Open(u) == totp[u] # None /\ totp[u] < MaxFailures

\* The URL to continue at may still be refused.
CodeAccepted(r) == LogIn(r) \/ Redirect(r)

CodeRight(r) ==
  /\ req[r].pc = "code" /\ Open(req[r].user)
  /\ Prove(r, "totp")
  /\ IF totp[req[r].user] > 0 THEN Goto(r, "reset") ELSE CodeAccepted(r)
  /\ UNCHANGED <<setting, session, tables, exempt, guesses, lost>>

CodeWrong(r) ==
  /\ req[r].pc = "code" /\ Open(req[r].user)
  /\ guesses' = [guesses EXCEPT ![req[r].user] = @ + 1]
  /\ Goto(r, "count")
  /\ UNCHANGED <<setting, session, tables, proven, exempt, lost>>

\* No code in the request, or validateTotp() throws
CodeRefused(r) ==
  /\ req[r].pc = "code"
  /\ Redirect(r)
  /\ UNCHANGED <<setting, session, tables, history>>

ResetFailures(r) ==
  /\ req[r].pc = "reset"
  /\ LET u == req[r].user IN
       /\ totp'    = [totp EXCEPT ![u] = 0]
       /\ guesses' = [guesses EXCEPT ![u] = 0]
       /\ lost'    = [lost EXCEPT ![u] = 0]
  /\ CodeAccepted(r)
  /\ UNCHANGED <<setting, session, active, proven, exempt>>

CountFailure(r) ==
  /\ req[r].pc = "count"
  /\ totp' = [totp EXCEPT ![req[r].user] = @ + 1]
  /\ Redirect(r)
  /\ UNCHANGED <<setting, session, active, history>>
-----------------------------------------------------------------------------
(* The second step with a security key: GET and POST /login/mfa/webauthn   *)

StartWebauthn(r, b, pc) ==
  /\ session[b].mfa # None
  /\ Begin(r, b, pc, session[b].mfa)
  /\ UNCHANGED <<setting, session, tables, history>>

Options(r) ==
  /\ req[r].pc = "options"
  /\ Answer(r, [req[r].session EXCEPT !.challenge = TRUE])
  /\ UNCHANGED <<setting, session, tables, history>>

\* The handler takes the challenge out of its copy of the session at once.
Spent(r) == [req[r].session EXCEPT !.challenge = FALSE]

\* No such device, or verifyAuthenticationResponse() throws
AssertionRefused(r) ==
  /\ req[r].pc = "assert"
  /\ Answer(r, Spent(r))
  /\ UNCHANGED <<setting, session, tables, history>>

\* It returns: if verified the counter is saved, and the login goes on either way.
AssertionVerified(r) ==
  /\ req[r].pc = "assert" /\ req[r].user \in Keys /\ req[r].session.challenge
  /\ Prove(r, "webauthn")
  /\ req' = [req EXCEPT ![r].pc = "counter", ![r].session = Spent(r)]
  /\ UNCHANGED <<setting, session, tables, exempt, guesses, lost>>

AssertionUnverified(r) ==
  /\ req[r].pc = "assert" /\ req[r].user \in Keys /\ req[r].session.challenge
  /\ LogIn(r)
  /\ UNCHANGED <<setting, session, tables, history>>

SaveCounter(r) ==
  /\ req[r].pc = "counter"
  /\ LogIn(r)
  /\ UNCHANGED <<setting, session, tables, history>>
-----------------------------------------------------------------------------
(* Logging out, other pages, new devices                                   *)

\* Any other page only has its copy of the session stored again.
StartPage(r, b, pc) ==
  /\ req[r] = Idle
  /\ req' = [req EXCEPT ![r] = [pc |-> pc, browser |-> b, session |-> session[b]]]
  /\ UNCHANGED <<setting, session, tables, history>>

\* The tokens of the session are gone; so is the session.
Logout(r) ==
  /\ req[r].pc = "logout"
  /\ Answer(r, Empty)
  /\ UNCHANGED <<setting, session, tables, history>>

\* save() of mfa/totp/service.ts: a device is added to a user who has none.
StartAddTotp(r, b, u) ==
  /\ totp[u] = None /\ u \in Enrolling
  /\ Begin(r, b, "insert", u)
  /\ UNCHANGED <<setting, session, tables, history>>

\* The row's key is the user: the second INSERT of two fails.
InsertTotp(r) ==
  /\ req[r].pc = "insert"
  /\ totp' = [totp EXCEPT ![req[r].user] = IF @ = None THEN 0 ELSE @]
  /\ Redirect(r)
  /\ UNCHANGED <<setting, session, active, history>>

Deactivate(u) ==
  /\ active' = active \ {u}
  /\ UNCHANGED <<setting, session, totp, req, history>>

\* The middleware stores the session, whatever is stored by now.
Save(r) ==
  /\ req[r].pc = "save"
  /\ session' = [session EXCEPT ![req[r].browser] = req[r].session]
  /\ req' = [req EXCEPT ![r] = Idle]
  /\ UNCHANGED <<setting, tables, history>>

\* A statement fails: the session is stored as far as the handler came; if it is
\* that statement, nothing is.
Fail(r) ==
  /\ req[r] # Idle
  /\ CASE req[r].pc = "save"   -> req' = [req EXCEPT ![r] = Idle]
       [] req[r].pc = "assert" -> Answer(r, Spent(r))
       [] OTHER                -> Redirect(r)
  /\ IF req[r].pc = "count"
       THEN /\ lost[req[r].user] < MaxLost
            /\ lost' = [lost EXCEPT ![req[r].user] = @ + 1]
       ELSE UNCHANGED lost
  /\ UNCHANGED <<setting, session, tables, proven, exempt, guesses>>

Init ==
  /\ setting \in [totp : TotpModes, webauthn : WebauthnModes]
  /\ session = [b \in Browsers |-> Empty]
  /\ active = Users
  /\ \E enrolled \in SUBSET Enrolling :
       totp = [u \in Users |-> IF u \in enrolled THEN 0 ELSE None]
  /\ req = [r \in Requests |-> Idle]
  /\ proven = {} /\ exempt = {}
  /\ guesses = [u \in Users |-> 0]
  /\ lost = [u \in Users |-> 0]

Start(r, b) ==
  \/ \E u \in Users : StartLogin(r, b, u) \/ StartAddTotp(r, b, u)
  \/ StartMfa(r, b)
  \/ \E pc \in {"options", "assert"} : StartWebauthn(r, b, pc)
  \/ \E pc \in Pages : StartPage(r, b, pc)

Step(r) ==
  \/ FindUser(r) \/ PasswordRight(r) \/ PasswordRefused(r) \/ HasTotp(r) \/ HasWebauthn(r)
  \/ CodeRight(r) \/ CodeWrong(r) \/ CodeRefused(r) \/ ResetFailures(r) \/ CountFailure(r)
  \/ Options(r) \/ AssertionRefused(r) \/ AssertionVerified(r) \/ AssertionUnverified(r)
  \/ SaveCounter(r) \/ Logout(r) \/ InsertTotp(r)
  \/ Save(r) \/ Fail(r)

Next == \/ \E r \in Requests : (\E b \in Browsers : Start(r, b)) \/ Step(r)
        \/ \E u \in Editable : Deactivate(u)

Spec == Init /\ [][Next]_vars
-----------------------------------------------------------------------------
(* Properties                                                              *)

TypeOK ==
  /\ setting \in [totp : Modes, webauthn : Modes]
  /\ session \in [Browsers -> Session]
  /\ active \subseteq Users
  /\ totp \in [Users -> Nat \cup {None}]
  /\ req \in [Requests -> Request]
  /\ proven \subseteq Browsers \X Users \X {"password", "totp", "webauthn"}
  /\ exempt \subseteq Browsers \X Users
  /\ guesses \in [Users -> Nat]
  /\ lost \in [Users -> Nat]

\* Whoever a session names gave the password in that browser, and a user without
\* a security key the TOTP code as well: always if TOTP is required, and unless a
\* login of this browser began before there was a device if it is enabled.
\* Requests of one browser that overlap do not mix up two users.
LoginIsProven ==
  \A b \in Browsers :
    LET u == session[b].user IN
      u # None =>
        /\ <<b, u, "password">> \in proven
        /\ u \notin Keys /\ setting.totp # "disabled" =>
             \/ <<b, u, "totp">> \in proven
             \/ setting.totp = "enabled" /\ <<b, u>> \in exempt

\* How many wrong codes are compared before the failures are reset: all handlers
\* may read the last count below the limit, and what the server failed to count
\* is not counted.
CodeGuessesAreBounded ==
  \A u \in Users : guesses[u] < MaxFailures + Cardinality(Requests) + lost[u]
=============================================================================
