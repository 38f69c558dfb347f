------------------------------ MODULE Secrets -------------------------------
(***************************************************************************)
(* What the server hands out to be brought back: codes for a uri           *)
(* (verify-uri/service.ts, asked for by the identities of a user, by the   *)
(* email challenge of a login and by clients) and one-time tokens          *)
(* (verification-token, reset-password).                                   *)
(*                                                                         *)
(* A step is one await of one handler.  Codes and tokens are numbered in   *)
(* the order they are made, and nobody guesses one: who answers wrongly    *)
(* answers NoSecret.                                                       *)
(***************************************************************************)
EXTENDS Naturals, FiniteSets

CONSTANTS
  Requests,         \* handler slots: requests the server works on at once
  Users,
  Identities,       \* ids in principal_identities, of mailto: and tel: uris
  Owner,            \* identity -> user
  MfaIdentities,    \* those with a mailto: uri and is_mfa
  MaxSecrets,       \* bound of the model: how many codes and tokens are made
  None              \* no user, no identity

NoSecret == 0
Codes == 1..MaxSecrets
Tokens == 1..MaxSecrets

ASSUME IdentitiesAssumption ==
  /\ Owner \in [Identities -> Users]
  /\ MfaIdentities \subseteq Identities
ASSUME BoundAssumption == MaxSecrets \in Nat
ASSUME NoneAssumption == None \notin Users \cup Identities

VARIABLES
  lastCode,    \* codes made so far
  code,        \* uri of an identity -> what the key/value store has, NoSecret: nothing
  verified,    \* the identities with verified_at
  active,      \* the users with principals.active
  lastToken,   \* rows of verification_token made so far
  token,       \* those that are there: token -> [user, identity]
  resetUser,   \* session.resetPasswordUser of a browser
  req,         \* what each slot holds between two awaits
  mailed,      \* history: <<identity, code>> of the messages that went out
  proven,      \* history: <<"code" or "token", identity it was for>> of what came back
  spent        \* history: codes and tokens that were deleted by who answered

codeVars == <<lastCode, code, verified>>
tokenVars == <<lastToken, token, resetUser, active>>
history == <<mailed, proven, spent>>
vars == <<codeVars, tokenVars, req, history>>

\* Who asks: the page of an identity, a client, and the two challenges of a login
\* that work with a mail.  The last two send another code after a wrong answer.
Whys == {"identity", "client", "otp", "verification"}
Idle == [pc |-> "idle"]

\* A row of verification_token, for an identity or for none
TokenRow == [user : Users, identity : Identities \cup {None}]

\* A message is made: the code of 'mail' is in the store already.
Sending == [pc : {"send"}, identity : Identities]
             \cup [pc : {"mail"}, identity : Identities, code : Codes]
\* An answer, and what was in the store; and then an identity to be marked
Answering == [pc : {"del"}, why : Whys, identity : Identities,
              given : Codes \cup {NoSecret}, stored : Codes \cup {NoSecret}]
Marking == [pc : {"verify"}, why : Whys, identity : Identities]
\* A one-time token, with the row that was read; 'found': the identity to be marked
Using == [pc : {"spend"}, token : Tokens, how : {"exchange", "link"}, keep : BOOLEAN,
          activate : BOOLEAN, user : Users, identity : Identities \cup {None}]
Owning == [pc : {"owner"}, how : {"exchange", "link"}, activate : BOOLEAN,
           user : Users, identity : Identities \cup {None}]
Confirming == [pc : {"activate", "confirm", "finish"}, how : {"exchange", "link"},
               user : Users, identity : Identities \cup {None},
               found : Identities \cup {None}]
Request == {Idle} \cup Sending \cup Answering \cup Marking
             \cup Using \cup Owning \cup Confirming

Begin(r, f) == req[r] = Idle /\ req' = [req EXCEPT ![r] = f]
Goes(r, f) == req' = [req EXCEPT ![r] = f]
Done(r) == req' = [req EXCEPT ![r] = Idle]

\* Within the bound
MayMake == lastCode + lastToken < MaxSecrets
-----------------------------------------------------------------------------
(* Codes for a uri                                                         *)

\* sendVerificationRequest(), and sendOtpRequest(), which is for mail alone
SendCode(r, i) ==
  /\ Begin(r, [pc |-> "send", identity |-> i])
  /\ UNCHANGED <<codeVars, tokenVars, history>>

\* sendOtpRequest() of an identity: refused unless it is for MFA
SendOtp(r, i) == i \in MfaIdentities /\ SendCode(r, i)

\* POST /user/:id/identity/:id/verify
AskForCode(r, i) == SendCode(r, i)

\* POST /verify-uri, by a client for any uri: here only those of the identities
AskForCodeAsClient(r, i) == SendCode(r, i)

\* A login that found an identity for MFA
ChallengeOtp(r, i) == i \in MfaIdentities /\ SendOtp(r, i)

\* A login by an identity that was not verified
ChallengeVerification(r, i) == i \notin verified /\ SendCode(r, i)

\* Mutant of Key: one key for all the uris of a user.
KeyOfUser(i) == {j \in Identities : Owner[j] = Owner[i]}

\* The identities whose codes are under the key of this one
Key(i) == {i}

Under(i, c) == [j \in Identities |-> IF j \in Key(i) THEN c ELSE code[j]]

\* getCodeForUri(): the code is in the store before the message goes out.
MakeCode(r) ==
  /\ req[r].pc = "send" /\ MayMake
  /\ lastCode' = lastCode + 1
  /\ code' = Under(req[r].identity, lastCode')
  /\ Goes(r, [pc |-> "mail", identity |-> req[r].identity, code |-> lastCode'])
  /\ UNCHANGED <<verified, tokenVars, history>>

\* The message goes out.  (If it does not, see Fail, the code stays all the same.)
Deliver(r) ==
  /\ req[r].pc = "mail"
  /\ mailed' = mailed \cup {<<req[r].identity, req[r].code>>}
  /\ Done(r)
  /\ UNCHANGED <<codeVars, tokenVars, proven, spent>>

\* Its time to live is over.
CodeExpires(i) ==
  /\ code[i] # NoSecret
  /\ code' = Under(i, NoSecret)
  /\ UNCHANGED <<lastCode, verified, tokenVars, req, history>>

\* Who answers has read one of the messages, or has nothing.
Answers == {NoSecret} \cup {m[2] : m \in mailed}

\* verifyCode(): the store is asked.
Answer(r, why, i, c) ==
  /\ Begin(r, [pc |-> "del", why |-> why, identity |-> i, given |-> c, stored |-> code[i]])
  /\ UNCHANGED <<codeVars, tokenVars, history>>

\* POST /user/:id/identity/:id/verify-response
AnswerOnPage(r, i, c) == Answer(r, "identity", i, c)

\* POST /verify-uri/validate
AnswerAsClient(r, i, c) == Answer(r, "client", i, c)

AnswerOtp(r, i, c) == i \in MfaIdentities /\ Answer(r, "otp", i, c)

AnswerVerification(r, i, c) == i \notin verified /\ Answer(r, "verification", i, c)

Right(f) == f.stored # NoSecret /\ f.stored = f.given

\* Mutant of AfterAnswer: the code stays for another try.
AfterAnswerKept(f) == IF Right(f) THEN Under(f.identity, NoSecret) ELSE code

\* Mutant of AfterAnswer: the key stays, with null under it.
AfterAnswerNull(f) == [code EXCEPT ![f.identity] = None]

\* "Delete code after, whether it was correct or not": by the key, whatever is
\* under it by now
AfterAnswer(f) == Under(f.identity, NoSecret)

\* Then the code is compared; a login that fails here sends another one.
Compare(r) ==
  LET f == req[r] IN
  /\ f.pc = "del"
  /\ code' = AfterAnswer(f)
  /\ spent' = spent \cup ({<<"code", f.stored>>} \ {<<"code", NoSecret>>})
  /\ proven' = IF Right(f) /\ <<f.identity, f.given>> \in mailed
                 THEN proven \cup {<<"code", f.identity>>} ELSE proven
  /\ CASE Right(f) /\ f.why # "client" ->
            Goes(r, [pc |-> "verify", why |-> f.why, identity |-> f.identity])
       [] ~Right(f) /\ f.why \in {"otp", "verification"} ->
            Goes(r, [pc |-> "send", identity |-> f.identity])
       [] OTHER -> Done(r)
  /\ UNCHANGED <<lastCode, verified, tokenVars, mailed>>

\* markVerified(), which the verification challenge calls once more
Verify(r) ==
  /\ req[r].pc = "verify"
  /\ verified' = verified \cup {req[r].identity}
  /\ IF req[r].why = "verification"
       THEN Goes(r, [pc |-> "verify", why |-> "otp", identity |-> req[r].identity])
       ELSE Done(r)
  /\ UNCHANGED <<lastCode, code, tokenVars, history>>
-----------------------------------------------------------------------------
(* One-time tokens                                                         *)

\* createToken()
CreateToken(u, i) ==
  /\ MayMake
  /\ i # None => Owner[i] = u
  /\ lastToken' = lastToken + 1
  /\ token' = [t \in DOMAIN token \cup {lastToken'} |->
                 IF t = lastToken' THEN [user |-> u, identity |-> i] ELSE token[t]]
  /\ UNCHANGED <<resetUser, active, codeVars, req, history>>

\* POST /user/:id/one-time-token, for an identity of the user or none
Generate(u, i) == CreateToken(u, i)

\* getResetPasswordTokens(): before an identity that is no mail address is refused
ResetToken(u, i) == i # None /\ CreateToken(u, i)

\* POST /reset-password as a form: by a user, who has to be active
AskForReset(u, i) == u \in active /\ ResetToken(u, i)

\* The same as JSON: by a client
AskForResetAsClient(u, i) == ResetToken(u, i)

Without(t) == [s \in DOMAIN token \ {t} |-> token[s]]

TokenExpires(t) ==
  /\ t \in DOMAIN token
  /\ token' = Without(t)
  /\ UNCHANGED <<lastToken, resetUser, active, codeVars, req, history>>

\* validateToken(): the row is read.
Use(r, t, how, keep, activate) ==
  /\ t \in DOMAIN token
  /\ Begin(r, [pc |-> "spend", token |-> t, how |-> how, keep |-> keep,
               activate |-> activate, user |-> token[t].user, identity |-> token[t].identity])
  /\ UNCHANGED <<codeVars, tokenVars, history>>

\* POST .../exchange-one-time-token: the client may want the row kept, or the user to
\* become active.
Exchange(r, t, keep, activate) == Use(r, t, "exchange", keep, activate)

\* GET /reset-password/token/:token
FollowLink(r, t) == Use(r, t, "link", FALSE, FALSE)

AfterUse(f) == IF f.keep THEN token ELSE Without(f.token)

Spend(r) ==
  LET f == req[r] IN
  /\ f.pc = "spend"
  /\ token' = AfterUse(f)
  /\ spent' = IF f.keep THEN spent ELSE spent \cup {<<"token", f.token>>}
  /\ proven' = IF f.identity = None THEN proven ELSE proven \cup {<<"token", f.identity>>}
  /\ Goes(r, [pc |-> "owner", how |-> f.how, activate |-> f.activate, user |-> f.user,
               identity |-> f.identity])
  /\ UNCHANGED <<lastToken, resetUser, active, codeVars, mailed>>

\* findById(principal, id) asks for the principal alone and takes the first row of the
\* answer, in no order: it may be any identity of the user.
Found(f) == IF f.identity = None THEN {None}
            ELSE {i \in Identities : Owner[i] = f.user}

AfterOwner(f) ==
  CASE f.how = "link" -> "finish"
    [] f.how = "exchange" /\ f.user \in active -> "confirm"
    [] OTHER -> "activate"

\* The user is read and then the identity, in tables that no writer ties together.
\* Who is not active is refused, with the token spent, unless the client wants the
\* user to become active.
ReadOwner(r) ==
  LET f == req[r] IN
  /\ f.pc = "owner"
  /\ IF f.how = "exchange" /\ f.user \notin active /\ ~f.activate
       THEN Done(r)
       ELSE \E i \in Found(f) : Goes(r,
              [pc |-> AfterOwner(f), how |-> f.how, user |-> f.user, identity |-> f.identity,
               found |-> IF i \in verified THEN None ELSE i])
  /\ UNCHANGED <<codeVars, tokenVars, history>>

Activate(r) ==
  /\ req[r].pc = "activate"
  /\ active' = active \cup {req[r].user}
  /\ Goes(r, [req[r] EXCEPT !.pc = "confirm"])
  /\ UNCHANGED <<lastToken, token, resetUser, codeVars, history>>

\* An identity without verified_at is marked.
Confirm(r) ==
  /\ req[r].pc = "confirm"
  /\ verified' = verified \cup ({req[r].found} \ {None})
  /\ Goes(r, [req[r] EXCEPT !.pc = "finish"])
  /\ UNCHANGED <<lastCode, code, tokenVars, history>>

\* The client gets its OAuth2 token (OAuth2Tokens), or the browser the form.
Finish(r) ==
  /\ req[r].pc = "finish"
  /\ resetUser' = IF req[r].how = "link" THEN req[r].user ELSE resetUser
  /\ Done(r)
  /\ UNCHANGED <<lastToken, token, active, codeVars, history>>

\* A statement fails, or the process ends.
Fail(r) ==
  /\ req[r] # Idle
  /\ Done(r)
  /\ UNCHANGED <<codeVars, tokenVars, history>>

\* POST /reset-password/change-password.  The session has the pair of user and
\* identity where a user is expected, so that the id of the row is undefined: the
\* database refuses it, or takes an id of its own for it.
ChangePassword ==
  /\ resetUser # None
  /\ resetUser' = None
  /\ UNCHANGED <<lastToken, token, active, codeVars, req, history>>

\* An administrator switches a user on or off.
SetActive(u) ==
  /\ active' = IF u \in active THEN active \ {u} ELSE active \cup {u}
  /\ UNCHANGED <<lastToken, token, resetUser, codeVars, req, history>>
-----------------------------------------------------------------------------
Init ==
  /\ lastCode = 0 /\ code = [i \in Identities |-> NoSecret]
  /\ verified = {}
  /\ lastToken = 0 /\ token = <<>> /\ resetUser = None /\ active = Users
  /\ req = [r \in Requests |-> Idle]
  /\ mailed = {} /\ proven = {} /\ spent = {}

CodeStep(r) ==
  \/ \E i \in Identities :
       \/ AskForCode(r, i) \/ AskForCodeAsClient(r, i)
       \/ ChallengeOtp(r, i) \/ ChallengeVerification(r, i)
       \/ \E c \in Answers :
            \/ AnswerOnPage(r, i, c) \/ AnswerAsClient(r, i, c)
            \/ AnswerOtp(r, i, c) \/ AnswerVerification(r, i, c)
  \/ MakeCode(r) \/ Deliver(r) \/ Compare(r) \/ Verify(r)

TokenStep(r) ==
  \/ \E t \in Tokens :
       \/ FollowLink(r, t)
       \/ \E keep, activate \in BOOLEAN : Exchange(r, t, keep, activate)
  \/ Spend(r) \/ ReadOwner(r) \/ Activate(r) \/ Confirm(r) \/ Finish(r)

Elsewhere ==
  \/ \E i \in Identities : CodeExpires(i)
  \/ \E u \in Users, i \in Identities \cup {None} :
       Generate(u, i) \/ AskForReset(u, i) \/ AskForResetAsClient(u, i)
  \/ \E t \in Tokens : TokenExpires(t)
  \/ ChangePassword
  \/ \E u \in Users : SetActive(u)

Next == (\E r \in Requests : CodeStep(r) \/ TokenStep(r) \/ Fail(r)) \/ Elsewhere

Spec == Init /\ [][Next]_vars
-----------------------------------------------------------------------------
(* Properties                                                              *)

TypeOK ==
  /\ lastCode \in 0..MaxSecrets /\ code \in [Identities -> Codes \cup {NoSecret}]
  /\ verified \subseteq Identities
  /\ lastToken \in 0..MaxSecrets /\ DOMAIN token \subseteq 1..lastToken
  /\ token \in [DOMAIN token -> TokenRow]
  /\ resetUser \in Users \cup {None} /\ active \subseteq Users
  /\ req \in [Requests -> Request]

\* verified_at is set for an identity only after a code that was mailed to this very
\* identity came back, or a token for an identity of the same user.  (For the very
\* identity it is not: see TokenVerifiesItsIdentity.)
VerifiedWasProven == \A i \in verified :
  \/ <<"code", i>> \in proven
  \/ \E j \in Identities : Owner[j] = Owner[i] /\ <<"token", j>> \in proven

\* A code and a token are good once: after the request that brought one back has
\* deleted it (a token that was not to be kept), no other request reads it.
\* Only requests that read it before can use it too.
SpentStaysSpent ==
  [][\A r \in Requests : req[r] = Idle =>
       /\ req'[r].pc = "del" /\ req'[r].stored # NoSecret => <<"code", req'[r].stored>> \notin spent
       /\ req'[r].pc = "spend" => <<"token", req'[r].token>> \notin spent]_vars

\* "When this token is validated later, the email address or phone number will be
\* marked as 'verified' for the user" (api-types.ts:909)
TokenVerifiesItsIdentity ==
  \A r \in Requests :
    req[r].pc = "finish" /\ req[r].how = "exchange" /\ req[r].identity # None
      => req[r].identity \in verified
=============================================================================
