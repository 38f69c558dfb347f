---------------------------- MODULE SecretsProofs ----------------------------
(***************************************************************************)
(* Theorems about Secrets: codes and tokens that were brought back do not  *)
(* come again, and only what was proven is verified, for any number of     *)
(* requests, users and identities.  At the end, about the store that keeps *)
(* the codes, MemoryKvStore: it is collected, expires in time and makes up *)
(* nothing.                                                                *)
(***************************************************************************)
EXTENDS Secrets, MemoryKvStore, TLAPS

\* Names of sets and of calls that only wrap others, expanded wherever they occur
USE DEF TokenRow, NoSecret, SendOtp, MayMake

AllAssumptions == IdentitiesAssumption /\ BoundAssumption /\ NoneAssumption
-----------------------------------------------------------------------------
(* Types                                                                   *)

LEMMA Parts ==
  ASSUME TypeOK, NEW r \in Requests
  PROVE  /\ req[r] \in Request
         /\ req[r].pc \in {"send", "mail"} => req[r] \in Sending
         /\ req[r].pc = "del" => req[r] \in Answering
         /\ req[r].pc = "verify" => req[r] \in Marking
         /\ req[r].pc = "spend" => req[r] \in Using
         /\ req[r].pc = "owner" => req[r] \in Owning
         /\ req[r].pc \in {"activate", "confirm", "finish"} => req[r] \in Confirming
  BY DEF TypeOK, Request, Idle, Sending, Answering, Marking, Using, Owning, Confirming

\* A step of one slot to a request of a known type
LEMMA SlotType ==
  ASSUME TypeOK, NEW r \in Requests, NEW q \in Request, Goes(r, q)
  PROVE  req' \in [Requests -> Request]
  BY DEF TypeOK, Goes

\* That step, and what it leaves alone
LEMMA SlotIs ==
  ASSUME TypeOK, NEW r \in Requests, NEW q, Goes(r, q)
  PROVE  req'[r] = q /\ \A s \in Requests : s # r => req'[s] = req[s]
  BY DEF TypeOK, Goes

LEMMA DoneType ==
  ASSUME TypeOK, NEW r \in Requests, Done(r)
  PROVE  req' \in [Requests -> Request]
  BY SlotType DEF Done, Goes, Request

LEMMA DoneIs ==
  ASSUME TypeOK, NEW r \in Requests, Done(r)
  PROVE  req'[r] = Idle /\ \A s \in Requests : s # r => req'[s] = req[s]
  BY DEF TypeOK, Done

LEMMA TypeInit ==
  ASSUME AllAssumptions, Init
  PROVE  TypeOK
  BY DEF AllAssumptions, BoundAssumption, Init, TypeOK, Request

LEMMA UnderType ==
  ASSUME TypeOK, NEW i \in Identities, NEW c \in Codes \cup {0}
  PROVE  /\ Under(i, c) \in [Identities -> Codes \cup {0}]
         /\ Under(i, c)[i] = c
         /\ \A j \in Identities : j # i => Under(i, c)[j] = code[j]
  BY DEF TypeOK, Under, Key

\* What is done with codes
LEMMA CodeType ==
  ASSUME AllAssumptions, TypeOK, Answers \subseteq Codes \cup {0},
         NEW r \in Requests, CodeStep(r)
  PROVE  TypeOK'
<1>1. ASSUME NEW i \in Identities, SendCode(r, i) PROVE TypeOK'
  <2>1. [pc |-> "send", identity |-> i] \in Request
    BY DEF Request, Sending
  <2>2. req' \in [Requests -> Request]
    BY <1>1, <2>1, SlotType DEF SendCode, Begin, Goes
  <2>3. QED
    BY <1>1, <2>2 DEF SendCode, TypeOK, codeVars, tokenVars
<1>2. ASSUME NEW i \in Identities, NEW c \in Answers, NEW why \in Whys, Answer(r, why, i, c)
      PROVE  TypeOK'
  <2>1. [pc |-> "del", why |-> why, identity |-> i, given |-> c, stored |-> code[i]] \in Request
    BY DEF TypeOK, Request, Answering
  <2>2. req' \in [Requests -> Request]
    BY <1>2, <2>1, SlotType DEF Answer, Begin, Goes
  <2>3. QED
    BY <1>2, <2>2 DEF Answer, TypeOK, codeVars, tokenVars
<1>3. CASE MakeCode(r)
  <2>1. req[r].identity \in Identities
    BY <1>3, Parts DEF MakeCode, Sending
  <2>2. lastCode' \in Codes /\ lastCode' \in 0..MaxSecrets
    BY <1>3 DEF MakeCode, TypeOK, Codes, AllAssumptions, BoundAssumption
  <2>3. [pc |-> "mail", identity |-> req[r].identity, code |-> lastCode'] \in Request
    BY <2>1, <2>2 DEF Request, Sending
  <2>4. req' \in [Requests -> Request]
    BY <1>3, <2>3, SlotType DEF MakeCode
  <2>5. code' \in [Identities -> Codes \cup {0}]
    BY <1>3, <2>1, <2>2, UnderType DEF MakeCode
  <2>6. QED
    BY <1>3, <2>2, <2>4, <2>5 DEF MakeCode, TypeOK, tokenVars
<1>4. CASE Deliver(r)
  BY <1>4, DoneType DEF Deliver, TypeOK, codeVars, tokenVars
<1>5. CASE Compare(r)
  <2>1. req[r] \in Answering
    BY <1>5, Parts DEF Compare
  <2>2. code' \in [Identities -> Codes \cup {0}]
    BY <1>5, <2>1, UnderType DEF Compare, AfterAnswer, Answering
  <2>3. /\ [pc |-> "send", identity |-> req[r].identity] \in Request
        /\ [pc |-> "verify", why |-> req[r].why, identity |-> req[r].identity] \in Request
    BY <2>1 DEF Request, Sending, Answering, Marking
  <2>4. req' \in [Requests -> Request]
    BY <1>5, <2>3, SlotType, DoneType DEF Compare
  <2>5. QED
    BY <1>5, <2>2, <2>4 DEF Compare, TypeOK, tokenVars
<1>6. CASE Verify(r)
  <2>1. req[r] \in Marking
    BY <1>6, Parts DEF Verify
  <2>2. [pc |-> "verify", why |-> "otp", identity |-> req[r].identity] \in Request
    BY <2>1 DEF Request, Marking, Whys
  <2>3. req' \in [Requests -> Request]
    BY <1>6, <2>2, SlotType, DoneType DEF Verify
  <2>4. QED
    BY <1>6, <2>1, <2>3 DEF Verify, TypeOK, tokenVars, Marking
<1>7. QED
  BY <1>1, <1>2, <1>3, <1>4, <1>5, <1>6
     DEF CodeStep, AskForCode, AskForCodeAsClient, ChallengeOtp, ChallengeVerification,
         AnswerOnPage, AnswerAsClient, AnswerOtp, AnswerVerification, Whys

\* What ReadOwner does to its request
Owned(r, pc, i) ==
  [pc |-> pc, how |-> req[r].how, user |-> req[r].user, identity |-> req[r].identity,
   found |-> i]

LEMMA Refined ==
  ASSUME NEW r \in Requests, ReadOwner(r)
  PROVE  \/ Done(r)
         \/ \E i \in Found(req[r]) \cup {None}, pc \in {"finish", "confirm", "activate"} :
              Goes(r, Owned(r, pc, i))
<1>1. AfterOwner(req[r]) \in {"finish", "confirm", "activate"}
  <2> DEFINE pc == CASE req[r].how = "link" -> "finish"
                     [] req[r].how = "exchange" /\ req[r].user \in active -> "confirm"
                     [] OTHER -> "activate"
  <2>1. pc \in {"finish", "confirm", "activate"}
    OBVIOUS
  <2>2. QED
    BY <2>1 DEF AfterOwner
<1>2. SUFFICES ASSUME ~Done(r)
      PROVE  \E i \in Found(req[r]) \cup {None}, pc \in {"finish", "confirm", "activate"} :
               Goes(r, Owned(r, pc, i))
  OBVIOUS
<1>3. PICK i \in Found(req[r]) :
        Goes(r, Owned(r, AfterOwner(req[r]), IF i \in verified THEN None ELSE i))
  BY <1>2 DEF ReadOwner, Owned
<1>4. (IF i \in verified THEN None ELSE i) \in Found(req[r]) \cup {None}
  OBVIOUS
<1>5. QED
  BY <1>1, <1>3, <1>4

LEMMA FoundType ==
  ASSUME NEW f
  PROVE  Found(f) \subseteq Identities \cup {None}
  BY DEF Found

\* What is done with one-time tokens
LEMMA TokenType ==
  ASSUME AllAssumptions, TypeOK, NEW r \in Requests, TokenStep(r)
  PROVE  TypeOK'
<1>1. ASSUME NEW t \in Tokens, NEW how \in {"exchange", "link"}, NEW keep \in BOOLEAN,
             NEW activate \in BOOLEAN, Use(r, t, how, keep, activate)
      PROVE  TypeOK'
  <2>1. token[t] \in TokenRow
    BY <1>1 DEF Use, TypeOK
  <2>2. [pc |-> "spend", token |-> t, how |-> how, keep |-> keep, activate |-> activate,
         user |-> token[t].user, identity |-> token[t].identity] \in Request
    BY <2>1 DEF Request, Using
  <2>3. req' \in [Requests -> Request]
    BY <1>1, <2>2, SlotType DEF Use, Begin, Goes
  <2>4. QED
    BY <1>1, <2>3 DEF Use, TypeOK, codeVars, tokenVars
<1>2. CASE Spend(r)
  <2>0. req[r] \in Using
    BY <1>2, Parts DEF Spend
  <2>a. [pc |-> "owner", how |-> req[r].how, activate |-> req[r].activate,
         user |-> req[r].user, identity |-> req[r].identity] \in Request
    BY <2>0 DEF Using, Owning, Request
  <2>1. req' \in [Requests -> Request]
    BY <1>2, <2>a, SlotType DEF Spend
  <2>2. /\ DOMAIN token' \subseteq 1..lastToken
        /\ token' \in [DOMAIN token' -> TokenRow]
    BY <1>2 DEF Spend, AfterUse, Without, TypeOK
  <2>3. QED
    BY <1>2, <2>1, <2>2 DEF Spend, TypeOK, codeVars
<1>3. CASE ReadOwner(r)
  <2>1. req[r] \in Owning
    BY <1>3, Parts DEF ReadOwner
  <2>2. ASSUME NEW i \in Identities \cup {None}, NEW pc \in {"finish", "confirm", "activate"}
        PROVE  Owned(r, pc, i) \in Request
    BY <2>1 DEF Owning, Confirming, Request, Owned
  <2>3. \/ Done(r)
        \/ \E i \in Identities \cup {None}, pc \in {"finish", "confirm", "activate"} :
             Goes(r, Owned(r, pc, i))
    BY <1>3, Refined, FoundType
  <2>4. req' \in [Requests -> Request]
    BY <2>2, <2>3, DoneType, SlotType
  <2>5. QED
    BY <1>3, <2>4 DEF ReadOwner, TypeOK, codeVars, tokenVars
<1>4. CASE Activate(r)
  <2>0. req[r] \in Confirming
    BY <1>4, Parts DEF Activate
  <2>1. [req[r] EXCEPT !.pc = "confirm"] \in Request /\ req[r].user \in Users
    BY <2>0 DEF Confirming, Request
  <2>2. req' \in [Requests -> Request]
    BY <1>4, <2>1, SlotType DEF Activate
  <2>3. QED
    BY <1>4, <2>1, <2>2 DEF Activate, TypeOK, codeVars
<1>5. CASE Confirm(r)
  <2>0. req[r] \in Confirming
    BY <1>5, Parts DEF Confirm
  <2>1. /\ [req[r] EXCEPT !.pc = "finish"] \in Request
        /\ req[r].found \in Identities \cup {None}
    BY <2>0 DEF Confirming, Request
  <2>2. req' \in [Requests -> Request]
    BY <1>5, <2>1, SlotType DEF Confirm
  <2>3. QED
    BY <1>5, <2>1, <2>2 DEF Confirm, TypeOK, tokenVars
<1>6. CASE Finish(r)
  <2>1. req' \in [Requests -> Request]
    BY <1>6, DoneType DEF Finish
  <2>2. req[r].user \in Users
    BY <1>6, Parts DEF Finish, Confirming
  <2>3. QED
    BY <1>6, <2>1, <2>2 DEF Finish, TypeOK, codeVars
<1>7. QED
  BY <1>1, <1>2, <1>3, <1>4, <1>5, <1>6 DEF TokenStep, FollowLink, Exchange

LEMMA FailType ==
  ASSUME TypeOK, NEW r \in Requests, Fail(r)
  PROVE  TypeOK'
  BY DoneType DEF Fail, TypeOK, codeVars, tokenVars

\* What happens outside of the requests
LEMMA ElsewhereType ==
  ASSUME AllAssumptions, TypeOK, Elsewhere
  PROVE  TypeOK'
<1>1. ASSUME NEW i \in Identities, CodeExpires(i) PROVE TypeOK'
  <2>1. code' \in [Identities -> Codes \cup {0}]
    BY <1>1, UnderType DEF CodeExpires
  <2>2. QED
    BY <1>1, <2>1 DEF CodeExpires, TypeOK, tokenVars
<1>2. ASSUME NEW u \in Users, NEW i \in Identities \cup {None}, CreateToken(u, i) PROVE TypeOK'
  <2>1. lastToken' \in 0..MaxSecrets /\ lastToken' = lastToken + 1 /\ lastToken \in Nat
    BY <1>2 DEF CreateToken, TypeOK, AllAssumptions, BoundAssumption
  <2>2. [user |-> u, identity |-> i] \in TokenRow
    BY DEF AllAssumptions, IdentitiesAssumption
  <2>3. /\ DOMAIN token' \subseteq 1..lastToken'
        /\ token' \in [DOMAIN token' -> TokenRow]
    <3>1. DOMAIN token' = DOMAIN token \cup {lastToken'}
      BY <1>2 DEF CreateToken
    <3>2. \A t \in DOMAIN token' : token'[t] \in TokenRow
      BY <1>2, <2>2, <3>1 DEF CreateToken, TypeOK
    <3>3. token' = [t \in DOMAIN token' |-> token'[t]]
      BY <1>2 DEF CreateToken
    <3>4. DOMAIN token' \subseteq 1..lastToken'
      BY <2>1, <3>1 DEF TypeOK
    <3>5. QED
      BY <3>2, <3>3, <3>4
  <2>4. QED
    BY <1>2, <2>1, <2>3 DEF CreateToken, TypeOK, codeVars
<1>3. ASSUME NEW t \in Tokens, TokenExpires(t) PROVE TypeOK'
  BY <1>3 DEF TokenExpires, Without, TypeOK, codeVars
<1>4. CASE ChangePassword
  BY <1>4 DEF ChangePassword, TypeOK, codeVars
<1>5. ASSUME NEW u \in Users, SetActive(u) PROVE TypeOK'
  BY <1>5 DEF SetActive, TypeOK, codeVars
<1>6. QED
  BY <1>1, <1>2, <1>3, <1>4, <1>5
     DEF Elsewhere, Generate, ResetToken, AskForReset, AskForResetAsClient
-----------------------------------------------------------------------------
(* A code belongs to one identity, and a secret that is spent is gone.     *)

\* Identity i has code c: in a message, in the store, or in a request that is about
\* to send it or has read it.
Holds(i, c) ==
  \/ <<i, c>> \in mailed
  \/ code[i] = c
  \/ \E r \in Requests : req[r].pc = "mail" /\ req[r].identity = i /\ req[r].code = c
  \/ \E r \in Requests : req[r].pc = "del" /\ req[r].identity = i /\ req[r].stored = c

Numbered == \A i \in Identities, c \in Codes : Holds(i, c) => c <= lastCode
OneUri == \A i, j \in Identities, c \in Codes : Holds(i, c) /\ Holds(j, c) => i = j

CodeGone == \A c \in Codes : <<"code", c>> \in spent =>
              c <= lastCode /\ \A i \in Identities : code[i] # c
TokenGone == /\ \A t \in Tokens : <<"token", t>> \in spent =>
                  t <= lastToken /\ t \notin DOMAIN token
             /\ \A r \in Requests : req[r].pc = "spend" => req[r].token <= lastToken

IInv == /\ TypeOK
        /\ mailed \subseteq Identities \X Codes
        /\ Numbered /\ OneUri /\ CodeGone /\ TokenGone

LEMMA FewAnswers ==
  ASSUME IInv
  PROVE  Answers \subseteq Codes \cup {0}
  BY DEF IInv, Answers

LEMMA NextType ==
  ASSUME AllAssumptions, IInv, Next
  PROVE  TypeOK'
  BY CodeType, TokenType, FailType, ElsewhereType, FewAnswers DEF IInv, Next

\* Only slot r moves, and it brings no code that was not there.
Quiet(r) ==
  /\ \A s \in Requests : s # r => req'[s] = req[s]
  /\ req'[r].pc # "mail"
  /\ req'[r].pc = "del" => req'[r].stored = code[req'[r].identity]
  /\ req'[r].pc = "spend" => req'[r].token <= lastToken
  /\ \A i \in Identities : code'[i] \in {code[i], 0}
  /\ \A m \in mailed' : m \in mailed \/ (req[r].pc = "mail" /\ m = <<req[r].identity, req[r].code>>)
  /\ lastCode' = lastCode

LEMMA QuietKeeps ==
  ASSUME IInv, TypeOK', NEW r \in Requests, Quiet(r)
  PROVE  Numbered' /\ OneUri' /\ mailed' \subseteq Identities \X Codes
<1>1. ASSUME NEW i \in Identities, NEW c \in Codes, Holds(i, c)'
      PROVE  Holds(i, c)
  <2>1. c # 0
    BY DEF Codes
  <2>2. CASE <<i, c>> \in mailed'
    BY <2>2 DEF Quiet, Holds
  <2>3. CASE code'[i] = c
    BY <2>1, <2>3 DEF Quiet, Holds
  <2>4. CASE \E s \in Requests : req'[s].pc = "mail" /\ req'[s].identity = i /\ req'[s].code = c
    BY <2>4 DEF Quiet, Holds
  <2>5. CASE \E s \in Requests : req'[s].pc = "del" /\ req'[s].identity = i /\ req'[s].stored = c
    BY <2>5 DEF Quiet, Holds
  <2>6. QED
    BY <1>1, <2>2, <2>3, <2>4, <2>5 DEF Holds
<1>2. Numbered'
  BY <1>1 DEF IInv, Numbered, Quiet
<1>3. OneUri'
  BY <1>1 DEF IInv, OneUri
<1>4. mailed' \subseteq Identities \X Codes
  <2>1. req[r].pc = "mail" => <<req[r].identity, req[r].code>> \in Identities \X Codes
    BY Parts DEF IInv, Sending
  <2>2. QED
    BY <2>1 DEF IInv, Quiet
<1>5. QED
  BY <1>2, <1>3, <1>4

\* Nothing is spent and no token is made.
LEMMA QuietGone ==
  ASSUME IInv, NEW r \in Requests, Quiet(r), UNCHANGED <<spent, lastToken, token>>
  PROVE  CodeGone' /\ TokenGone'
<1>1. CodeGone'
  BY DEF IInv, CodeGone, Quiet, Codes
<1>2. TokenGone'
  BY DEF IInv, TokenGone, Quiet
<1>3. QED
  BY <1>1, <1>2

\* A step with a code changes its own slot and no token; a request that begins to
\* answer has read what is in the store.
LEMMA CodeMoves ==
  ASSUME TypeOK, NEW r \in Requests, CodeStep(r)
  PROVE  /\ \A s \in Requests : s # r => req'[s] = req[s]
         /\ req'[r].pc # "spend"
         /\ req[r] = Idle /\ req'[r].pc = "del" => \E i \in Identities : req'[r].stored = code[i]
<1>1. ASSUME NEW i \in Identities, SendCode(r, i)
      PROVE  /\ \A s \in Requests : s # r => req'[s] = req[s]
             /\ req'[r].pc = "send"
  BY <1>1 DEF SendCode, Begin, TypeOK
<1>2. ASSUME NEW i \in Identities, NEW c \in Answers, NEW why \in Whys, Answer(r, why, i, c)
      PROVE  /\ \A s \in Requests : s # r => req'[s] = req[s]
             /\ req'[r].pc = "del" /\ req'[r].stored = code[i]
  BY <1>2 DEF Answer, Begin, TypeOK
<1>3. CASE MakeCode(r) \/ Deliver(r)
  BY <1>3, SlotIs, DoneIs DEF MakeCode, Deliver, Idle
<1>4. CASE Compare(r)
  <2>1. req[r] # Idle
    BY <1>4 DEF Compare, Idle
  <2>2. \A s \in Requests : s # r => req'[s] = req[s]
    BY <1>4, SlotIs, DoneIs DEF Compare
  <2>3. req'[r].pc \in {"verify", "send", "idle"}
    BY <1>4, SlotIs, DoneIs DEF Compare, Idle
  <2>4. QED
    BY <2>1, <2>2, <2>3
<1>5. CASE Verify(r)
  <2>1. req[r] # Idle
    BY <1>5 DEF Verify, Idle
  <2>2. \A s \in Requests : s # r => req'[s] = req[s]
    BY <1>5, SlotIs, DoneIs DEF Verify
  <2>3. req'[r].pc \in {"verify", "idle"}
    BY <1>5, SlotIs, DoneIs DEF Verify, Idle
  <2>4. QED
    BY <2>1, <2>2, <2>3
<1>6. QED
  BY <1>1, <1>2, <1>3, <1>4, <1>5
     DEF CodeStep, AskForCode, AskForCodeAsClient, ChallengeOtp, ChallengeVerification,
         AnswerOnPage, AnswerAsClient, AnswerOtp, AnswerVerification, Whys

LEMMA CodeKeeps ==
  ASSUME AllAssumptions, IInv, NEW r \in Requests, CodeStep(r)
  PROVE  IInv'
<1>0. TypeOK /\ TypeOK'
  BY CodeType, FewAnswers DEF IInv
<1>1. ASSUME Quiet(r), UNCHANGED <<spent, lastToken, token>> PROVE IInv'
  BY <1>0, <1>1, QuietKeeps, QuietGone DEF IInv
<1>2. ASSUME NEW i \in Identities, SendCode(r, i) PROVE IInv'
  <2>1. Quiet(r)
    BY <1>0, <1>2 DEF SendCode, Begin, Quiet, codeVars, history, TypeOK
  <2>2. QED
    BY <1>1, <1>2, <2>1 DEF SendCode, tokenVars, history
<1>3. ASSUME NEW i \in Identities, NEW c \in Answers, NEW why \in Whys, Answer(r, why, i, c)
      PROVE  IInv'
  <2>1. Quiet(r)
    BY <1>0, <1>3 DEF Answer, Begin, Quiet, codeVars, history, TypeOK
  <2>2. QED
    BY <1>1, <1>3, <2>1 DEF Answer, tokenVars, history
<1>4. CASE MakeCode(r)
  <2>1. /\ lastCode' = lastCode + 1 /\ lastCode \in Nat
        /\ req[r].identity \in Identities
        /\ lastCode' \in Codes
        /\ UNCHANGED <<mailed, spent, token, lastToken>>
    BY <1>0, <1>4, Parts
       DEF MakeCode, TypeOK, Codes, tokenVars, history, Sending, AllAssumptions, BoundAssumption
  <2>2. /\ code'[req[r].identity] = lastCode'
        /\ \A j \in Identities : j # req[r].identity => code'[j] = code[j]
    BY <1>0, <1>4, <2>1, UnderType DEF MakeCode
  <2>3. /\ req'[r] = [pc |-> "mail", identity |-> req[r].identity, code |-> lastCode']
        /\ \A s \in Requests : s # r => req'[s] = req[s]
    BY <1>0, <1>4, SlotIs DEF MakeCode
  <2>4. ASSUME NEW i \in Identities, NEW c \in Codes, Holds(i, c)'
        PROVE  Holds(i, c) \/ (i = req[r].identity /\ c = lastCode')
    BY <2>1, <2>2, <2>3, <2>4 DEF Holds
  <2>5. Numbered'
    BY <2>1, <2>4 DEF Numbered, IInv, Codes
  <2>6. OneUri'
    <3>1. \A i \in Identities : ~ Holds(i, lastCode')
      BY <2>1 DEF IInv, Numbered, Codes
    <3>2. QED
      BY <2>4, <3>1 DEF OneUri, IInv
  <2>7. CodeGone'
    BY <2>1, <2>2 DEF IInv, CodeGone, Codes
  <2>8. TokenGone'
    BY <2>1, <2>3 DEF IInv, TokenGone
  <2>9. QED
    BY <1>0, <2>1, <2>5, <2>6, <2>7, <2>8 DEF IInv
<1>5. CASE Deliver(r)
  <2>1. Quiet(r)
    BY <1>0, <1>5 DEF Deliver, Done, Idle, Quiet, codeVars, TypeOK
  <2>2. QED
    BY <1>1, <1>5, <2>1 DEF Deliver, tokenVars
<1>6. CASE Compare(r)
  <2>1. req[r] \in Answering /\ req[r].pc = "del"
    BY <1>0, <1>6, Parts DEF Compare
  <2>2. /\ code'[req[r].identity] = 0
        /\ \A j \in Identities : j # req[r].identity => code'[j] = code[j]
    BY <1>0, <1>6, <2>1, UnderType DEF Compare, AfterAnswer, Answering
  <2>3. /\ req'[r].pc \in {"verify", "send", "idle"}
        /\ \A s \in Requests : s # r => req'[s] = req[s]
    BY <1>0, <1>6, SlotIs, DoneIs DEF Compare, Idle
  <2>4. Quiet(r)
    BY <1>6, <2>2, <2>3 DEF Quiet, Compare
  <2>5. Holds(req[r].identity, req[r].stored)
    BY <2>1 DEF Holds
  <2>6. CodeGone'
    <3> SUFFICES ASSUME NEW c \in Codes, <<"code", c>> \in spent'
                 PROVE  c <= lastCode' /\ \A i \in Identities : code'[i] # c
      BY DEF CodeGone
    <3>1. CASE <<"code", c>> \in spent
      BY <2>4, <3>1 DEF IInv, CodeGone, Quiet, Codes
    <3>2. CASE c = req[r].stored
      <4>1. c <= lastCode'
        BY <2>1, <2>4, <2>5, <3>2 DEF IInv, Numbered, Quiet, Answering
      <4>2. ASSUME NEW i \in Identities, code'[i] = c PROVE FALSE
        <5>1. i # req[r].identity /\ code[i] = c
          BY <2>2, <4>2 DEF Codes
        <5>2. Holds(i, c) /\ Holds(req[r].identity, c)
          BY <2>5, <3>2, <5>1 DEF Holds
        <5>3. req[r].identity \in Identities
          BY <2>1 DEF Answering
        <5>4. QED
          BY <5>1, <5>2, <5>3 DEF IInv, OneUri
      <4>3. QED
        BY <4>1, <4>2
    <3>3. QED
      BY <1>6, <3>1, <3>2 DEF Compare
  <2>7. TokenGone'
    BY <1>6, <2>3 DEF IInv, TokenGone, Compare, tokenVars
  <2>8. QED
    BY <1>0, <2>4, <2>6, <2>7, QuietKeeps DEF IInv
<1>7. CASE Verify(r)
  <2>0. /\ req'[r].pc \in {"verify", "idle"}
        /\ \A s \in Requests : s # r => req'[s] = req[s]
    BY <1>0, <1>7, SlotIs, DoneIs DEF Verify, Idle
  <2>1. Quiet(r)
    BY <1>7, <2>0 DEF Verify, Quiet, history
  <2>2. QED
    BY <1>1, <1>7, <2>1 DEF Verify, tokenVars, history
<1>8. QED
  BY <1>2, <1>3, <1>4, <1>5, <1>6, <1>7
     DEF CodeStep, AskForCode, AskForCodeAsClient, ChallengeOtp, ChallengeVerification,
         AnswerOnPage, AnswerAsClient, AnswerOtp, AnswerVerification, Whys

\* A step with a one-time token changes its own slot and no code.
LEMMA TokenMoves ==
  ASSUME TypeOK, NEW r \in Requests, TokenStep(r)
  PROVE  /\ \A q \in Requests : q # r => req'[q] = req[q]
         /\ UNCHANGED <<lastCode, code, mailed, lastToken>>
         /\ \/ /\ \E t \in Tokens : t \in DOMAIN token /\ req'[r].token = t
               /\ req'[r].pc = "spend" /\ req[r] = Idle
               /\ UNCHANGED <<spent, token>>
            \/ /\ Spend(r) /\ req'[r].pc = "owner"
            \/ /\ req'[r].pc \in {"idle", "confirm", "activate", "finish"}
               /\ UNCHANGED <<spent, token>>
<1>1. ASSUME NEW t \in Tokens, NEW how \in {"exchange", "link"}, NEW keep \in BOOLEAN,
             NEW activate \in BOOLEAN, Use(r, t, how, keep, activate)
      PROVE  /\ \A q \in Requests : q # r => req'[q] = req[q]
             /\ UNCHANGED <<lastCode, code, mailed, lastToken, spent, token>>
             /\ t \in DOMAIN token /\ req'[r].token = t
             /\ req'[r].pc = "spend" /\ req[r] = Idle
  BY <1>1 DEF Use, Begin, TypeOK, codeVars, tokenVars, history
<1>2. CASE Spend(r)
  BY <1>2, SlotIs DEF Spend, codeVars
<1>3. CASE ReadOwner(r)
  <2>1. CASE Done(r)
    BY <1>3, <2>1, DoneIs DEF ReadOwner, Idle, codeVars, tokenVars, history
  <2>2. ASSUME NEW i, NEW pc \in {"finish", "confirm", "activate"}, Goes(r, Owned(r, pc, i))
        PROVE  /\ \A q \in Requests : q # r => req'[q] = req[q]
               /\ req'[r].pc \in {"confirm", "activate", "finish"}
    BY <2>2, SlotIs DEF Owned
  <2>3. QED
    BY <1>3, <2>1, <2>2, Refined DEF ReadOwner, codeVars, tokenVars, history
<1>4. CASE Activate(r) \/ Confirm(r) \/ Finish(r)
  <2>1. req[r] \in Confirming
    BY <1>4, Parts DEF Activate, Confirm, Finish
  <2>2. ASSUME NEW pc \in {"confirm", "finish"}, Goes(r, [req[r] EXCEPT !.pc = pc])
        PROVE  /\ \A q \in Requests : q # r => req'[q] = req[q]
               /\ req'[r].pc \in {"confirm", "finish"}
    BY <2>1, <2>2, SlotIs DEF Confirming
  <2>3. /\ \A q \in Requests : q # r => req'[q] = req[q]
        /\ req'[r].pc \in {"idle", "confirm", "finish"}
    BY <1>4, <2>2, DoneIs DEF Activate, Confirm, Finish, Idle
  <2>4. UNCHANGED <<lastCode, code, mailed, lastToken, spent, token>>
    BY <1>4 DEF Activate, Confirm, Finish, codeVars, tokenVars, history
  <2>5. QED
    BY <2>3, <2>4
<1>5. QED
  BY <1>1, <1>2, <1>3, <1>4 DEF TokenStep, FollowLink, Exchange

LEMMA TokenKeeps ==
  ASSUME AllAssumptions, IInv, NEW r \in Requests, TokenStep(r)
  PROVE  IInv'
<1>0. TypeOK /\ TypeOK'
  BY TokenType DEF IInv
<1>1. /\ \A q \in Requests : q # r => req'[q] = req[q]
      /\ UNCHANGED <<lastCode, code, mailed, lastToken>>
  BY <1>0, TokenMoves
<1>2. CASE /\ \E t \in Tokens : t \in DOMAIN token /\ req'[r].token = t
           /\ req'[r].pc = "spend" /\ req[r] = Idle
           /\ UNCHANGED <<spent, token>>
  <2>1. Quiet(r)
    BY <1>0, <1>1, <1>2 DEF Quiet, TypeOK
  <2>2. QED
    BY <1>0, <1>1, <1>2, <2>1, QuietKeeps, QuietGone DEF IInv
<1>3. CASE Spend(r) /\ req'[r].pc = "owner"
  <2>1. Quiet(r)
    BY <1>1, <1>3 DEF Quiet
  <2>2. CodeGone'
    BY <1>1, <1>3 DEF IInv, CodeGone, Spend
  <2>3. TokenGone'
    <3>1. DOMAIN token' \subseteq DOMAIN token
      BY <1>3 DEF Spend, AfterUse, Without
    <3>2. ASSUME NEW t \in Tokens, <<"token", t>> \in spent'
          PROVE  t <= lastToken' /\ t \notin DOMAIN token'
      <4>1. CASE <<"token", t>> \in spent
        BY <1>1, <3>1, <4>1 DEF IInv, TokenGone
      <4>2. CASE <<"token", t>> \notin spent
        <5>1. ~req[r].keep /\ t = req[r].token
          BY <1>3, <3>2, <4>2 DEF Spend
        <5>2. t \notin DOMAIN token'
          BY <1>3, <5>1 DEF Spend, AfterUse, Without
        <5>3. t <= lastToken'
          BY <1>1, <1>3, <5>1 DEF Spend, IInv, TokenGone
        <5>4. QED
          BY <5>2, <5>3
      <4>3. QED
        BY <4>1, <4>2
    <3>3. QED
      BY <1>1, <1>3, <3>2 DEF IInv, TokenGone
  <2>4. QED
    BY <1>0, <2>1, <2>2, <2>3, QuietKeeps DEF IInv
<1>4. CASE /\ req'[r].pc \in {"idle", "confirm", "activate", "finish"}
           /\ UNCHANGED <<spent, token>>
  <2>1. Quiet(r)
    BY <1>1, <1>4 DEF Quiet
  <2>2. QED
    BY <1>0, <1>1, <1>4, <2>1, QuietKeeps, QuietGone DEF IInv
<1>5. QED
  BY <1>0, <1>2, <1>3, <1>4, TokenMoves

LEMMA FailKeeps ==
  ASSUME IInv, NEW r \in Requests, Fail(r)
  PROVE  IInv'
<1>1. TypeOK' /\ req'[r] = Idle /\ \A s \in Requests : s # r => req'[s] = req[s]
  BY FailType, DoneIs DEF IInv, Fail
<1>2. Quiet(r)
  BY <1>1 DEF Quiet, Fail, Idle, codeVars, history
<1>3. QED
  BY <1>1, <1>2, QuietKeeps, QuietGone DEF IInv, Fail, tokenVars, history

LEMMA ElsewhereKeeps ==
  ASSUME AllAssumptions, IInv, Elsewhere
  PROVE  IInv'
<1>0. TypeOK /\ TypeOK'
  BY ElsewhereType DEF IInv
<1>1. ASSUME UNCHANGED <<lastCode, mailed, req, spent>>,
             \A i \in Identities : code'[i] \in {code[i], 0}
      PROVE  Numbered' /\ OneUri' /\ CodeGone'
  <2>1. ASSUME NEW i \in Identities, NEW c \in Codes, Holds(i, c)'
        PROVE  Holds(i, c)
    BY <1>1, <2>1 DEF Holds, Codes
  <2>2. Numbered' /\ OneUri'
    BY <1>1, <2>1 DEF IInv, Numbered, OneUri
  <2>3. CodeGone'
    BY <1>1 DEF IInv, CodeGone, Codes
  <2>4. QED
    BY <2>2, <2>3
<1>2. ASSUME NEW i \in Identities, CodeExpires(i) PROVE IInv'
  <2>1. \A j \in Identities : code'[j] \in {code[j], 0}
    BY <1>0, <1>2, UnderType DEF CodeExpires
  <2>2. Numbered' /\ OneUri' /\ CodeGone'
    BY <1>1, <1>2, <2>1 DEF CodeExpires, history
  <2>3. QED
    BY <1>0, <1>2, <2>2 DEF CodeExpires, history, tokenVars, IInv, TokenGone
<1>3. ASSUME NEW u \in Users, NEW i \in Identities \cup {None}, CreateToken(u, i) PROVE IInv'
  <2>1. Numbered' /\ OneUri' /\ CodeGone'
    BY <1>1, <1>3 DEF CreateToken, codeVars, history
  <2>2. /\ lastToken' = lastToken + 1 /\ lastToken \in Nat
        /\ DOMAIN token' = DOMAIN token \cup {lastToken'}
        /\ UNCHANGED <<spent, req>>
    BY <1>0, <1>3 DEF CreateToken, TypeOK, history
  <2>3. ASSUME NEW t \in Tokens, <<"token", t>> \in spent'
        PROVE  t <= lastToken' /\ t \notin DOMAIN token'
    <3>1. t <= lastToken /\ t \notin DOMAIN token
      BY <2>2, <2>3 DEF IInv, TokenGone
    <3>2. QED
      BY <2>2, <3>1 DEF Tokens
  <2>4. \A r \in Requests : req'[r].pc = "spend" => req'[r].token <= lastToken'
    BY <1>0, <2>2, Parts DEF IInv, TokenGone, Using, Tokens
  <2>5. QED
    BY <1>0, <1>3, <2>1, <2>3, <2>4 DEF IInv, TokenGone, CreateToken, history
<1>4. ASSUME NEW t \in Tokens, TokenExpires(t) PROVE IInv'
  <2>1. Numbered' /\ OneUri' /\ CodeGone'
    BY <1>1, <1>4 DEF TokenExpires, codeVars, history
  <2>2. QED
    BY <1>0, <1>4, <2>1 DEF IInv, TokenGone, TokenExpires, Without, history
<1>5. ASSUME ChangePassword \/ \E u \in Users : SetActive(u) PROVE IInv'
  <2>1. UNCHANGED <<codeVars, req, history, token, lastToken>>
    BY <1>5 DEF ChangePassword, SetActive
  <2>2. Numbered' /\ OneUri' /\ CodeGone'
    BY <1>1, <2>1 DEF codeVars, history
  <2>3. QED
    BY <1>0, <2>1, <2>2 DEF IInv, TokenGone, history
<1>6. QED
  BY <1>2, <1>3, <1>4, <1>5
     DEF Elsewhere, Generate, ResetToken, AskForReset, AskForResetAsClient

LEMMA Inductive ==
  ASSUME AllAssumptions
  PROVE  /\ Init => IInv
         /\ IInv /\ [Next]_vars => IInv'
<1>1. ASSUME Init PROVE IInv
  <2>1. \A i \in Identities, c \in Codes : ~Holds(i, c)
    BY <1>1 DEF Init, Holds, Idle, Codes
  <2>2. QED
    BY <1>1, <2>1, TypeInit DEF Init, IInv, Numbered, OneUri, CodeGone, TokenGone, Idle
<1>2. ASSUME IInv, UNCHANGED vars PROVE IInv'
  BY <1>2 DEF IInv, TypeOK, Numbered, OneUri, Holds, CodeGone, TokenGone,
              vars, codeVars, tokenVars, history
<1>3. ASSUME IInv, Next PROVE IInv'
  BY <1>3, CodeKeeps, TokenKeeps, FailKeeps, ElsewhereKeeps DEF Next
<1>4. QED
  BY <1>1, <1>2, <1>3

LEMMA Assumed == AllAssumptions
  BY IdentitiesAssumption, BoundAssumption, NoneAssumption DEF AllAssumptions

\* The assumptions hold: what follows no longer names them.
USE Assumed

\* The store, the tables and what every request holds are well-formed (TypeOK), for
\* any number of requests, users, identities, codes and tokens.
THEOREM TypeCorrect == Spec => []TypeOK
<1>1. IInv => TypeOK
  BY DEF IInv
<1>2. QED
  BY <1>1, Inductive, PTL DEF Spec

\* SpentStaysSpent: verifyCode() deletes a code with the answer that it read it for,
\* and validateToken() a token, and no later request finds them again.
THEOREM NoSecondUse == Spec => SpentStaysSpent
<1> DEFINE Fresh(r) ==
      req[r] = Idle =>
        /\ req'[r].pc = "del" /\ req'[r].stored # NoSecret => <<"code", req'[r].stored>> \notin spent
        /\ req'[r].pc = "spend" => <<"token", req'[r].token>> \notin spent
<1>1. ASSUME IInv, [Next]_vars, NEW r \in Requests, req[r] = Idle, req'[r] # req[r]
      PROVE  CodeStep(r) \/ TokenStep(r)
  <2>1. ASSUME NEW s \in Requests, CodeStep(s), s # r PROVE FALSE
    <3>1. req'[r] = req[r]
      BY <1>1, <2>1, CodeMoves DEF IInv
    <3>2. QED
      BY <1>1, <3>1
  <2>2. ASSUME NEW s \in Requests, TokenStep(s), s # r PROVE FALSE
    <3>1. req'[r] = req[r]
      BY <1>1, <2>2, TokenMoves DEF IInv
    <3>2. QED
      BY <1>1, <3>1
  <2>a. ASSUME NEW s \in Requests, Fail(s) PROVE FALSE
    BY <1>1, <2>a, DoneIs DEF Fail, IInv
  <2>3. ASSUME Elsewhere \/ UNCHANGED vars PROVE FALSE
    <3>1. req' = req
      BY <2>3 DEF Elsewhere, CodeExpires, Generate, ResetToken, AskForReset, AskForResetAsClient,
                  CreateToken, TokenExpires, ChangePassword, SetActive, vars
    <3>2. QED
      BY <1>1, <3>1
  <2>4. QED
    BY <1>1, <2>1, <2>2, <2>a, <2>3 DEF Next
<1>2. ASSUME IInv, [Next]_vars, NEW r \in Requests PROVE Fresh(r)
  <2>1. CASE req'[r] = req[r]
    BY <2>1 DEF Idle
  <2>2. CASE req'[r] # req[r] /\ req[r] = Idle /\ CodeStep(r)
    <3>1. req'[r].pc # "spend" /\ (req'[r].pc = "del" => \E i \in Identities : req'[r].stored = code[i])
      BY <1>2, <2>2, CodeMoves DEF IInv
    <3>2. \A i \in Identities : code[i] # NoSecret => <<"code", code[i]>> \notin spent
      BY <1>2 DEF IInv, TypeOK, CodeGone
    <3>3. QED
      BY <3>1, <3>2
  <2>3. CASE req'[r] # req[r] /\ req[r] = Idle /\ TokenStep(r)
    <3>1. req'[r].pc = "spend" => req'[r].token \in Tokens \cap DOMAIN token
      BY <1>2, <2>3, TokenMoves DEF IInv
    <3>2. req'[r].pc # "del"
      BY <1>2, <2>3, TokenMoves DEF IInv
    <3>3. QED
      BY <1>2, <3>1, <3>2 DEF IInv, TokenGone
  <2>4. QED
    BY <1>1, <1>2, <2>1, <2>2, <2>3
<1>3. IInv /\ [Next]_vars => [\A r \in Requests : Fresh(r)]_vars
  BY <1>2
<1>4. QED
  BY <1>3, Inductive, PTL DEF Spec, SpentStaysSpent
-----------------------------------------------------------------------------
(* What is verified was proven.                                            *)

\* Something came back that speaks for identity i, when p was proven.
Backed(i, p) ==
  \/ <<"code", i>> \in p
  \/ \E j \in Identities : Owner[j] = Owner[i] /\ <<"token", j>> \in p

\* What request q relies on, when the messages m went out and p was proven
Good(q, m, p) ==
  /\ q.pc = "del" /\ q.given # 0 => \E j \in Identities : <<j, q.given>> \in m
  /\ q.pc = "verify" => <<"code", q.identity>> \in p
  /\ q.pc \in {"spend", "owner"} /\ q.identity # None => Owner[q.identity] = q.user
  /\ q.pc = "owner" /\ q.identity # None => <<"token", q.identity>> \in p
  /\ q.pc \in {"activate", "confirm"} /\ q.found # None => Backed(q.found, p)

\* A token is for an identity of its user.
Mine == \A t \in DOMAIN token : token[t].identity # None =>
          Owner[token[t].identity] = token[t].user

ProvenInv == /\ IInv /\ Mine /\ \A i \in verified : Backed(i, proven)
             /\ \A r \in Requests : Good(req[r], mailed, proven)

\* A step of one slot, after which messages and proofs are there as before
LEMMA OneMoves ==
  ASSUME NEW r \in Requests, \A s \in Requests : s # r => req'[s] = req[s],
         \A s \in Requests : Good(req[s], mailed, proven),
         mailed \subseteq mailed', proven \subseteq proven',
         Good(req'[r], mailed', proven')
  PROVE  \A s \in Requests : Good(req'[s], mailed', proven')
<1>1. ASSUME NEW s \in Requests, s # r PROVE Good(req'[s], mailed', proven')
  <2>1. Good(req[s], mailed, proven) /\ req'[s] = req[s]
    BY <1>1
  <2>2. Good(req[s], mailed', proven')
    BY <2>1 DEF Good, Backed
  <2>3. QED
    BY <2>1, <2>2
<1>2. QED
  BY <1>1

LEMMA CodeProves ==
  ASSUME ProvenInv, NEW r \in Requests, CodeStep(r)
  PROVE  ProvenInv'
<1>b. (proven \subseteq proven' /\ UNCHANGED verified) =>
        \A i \in verified' : Backed(i, proven')
  BY DEF ProvenInv, Backed
<1>0. TypeOK /\ IInv' /\ \A s \in Requests : s # r => req'[s] = req[s]
  BY CodeKeeps, CodeMoves DEF ProvenInv, IInv
<1>a. ASSUME Good(req'[r], mailed', proven'), mailed \subseteq mailed', proven \subseteq proven',
             UNCHANGED token, \A i \in verified' : Backed(i, proven')
      PROVE  ProvenInv'
  <2>1. \A s \in Requests : Good(req'[s], mailed', proven')
    BY <1>0, <1>a, OneMoves DEF ProvenInv
  <2>2. QED
    BY <1>0, <1>a, <2>1 DEF ProvenInv, Mine
<1>1. ASSUME NEW i \in Identities, SendCode(r, i) PROVE ProvenInv'
  <2>1. req'[r] = [pc |-> "send", identity |-> i]
    BY <1>0, <1>1 DEF SendCode, Begin, TypeOK
  <2>2. Good(req'[r], mailed', proven')
    BY <2>1 DEF Good
  <2>3. QED
    BY <1>1, <1>a, <1>b, <2>2 DEF SendCode, codeVars, tokenVars, history
<1>2. ASSUME NEW i \in Identities, NEW c \in Answers, NEW why \in Whys, Answer(r, why, i, c)
      PROVE  ProvenInv'
  <2>1. req'[r] = [pc |-> "del", why |-> why, identity |-> i, given |-> c, stored |-> code[i]]
    BY <1>0, <1>2 DEF Answer, Begin, TypeOK
  <2>2. c # 0 => \E j \in Identities : <<j, c>> \in mailed
    BY DEF Answers, ProvenInv, IInv
  <2>3. Good(req'[r], mailed', proven')
    BY <1>2, <2>1, <2>2 DEF Good, Answer, history
  <2>4. QED
    BY <1>2, <1>a, <1>b, <2>3 DEF Answer, codeVars, tokenVars, history
<1>3. CASE MakeCode(r)
  <2>1. req'[r] = [pc |-> "mail", identity |-> req[r].identity, code |-> lastCode']
    BY <1>0, <1>3, SlotIs DEF MakeCode
  <2>2. Good(req'[r], mailed', proven')
    BY <2>1 DEF Good
  <2>3. QED
    BY <1>3, <1>a, <1>b, <2>2 DEF MakeCode, tokenVars, history
<1>4. CASE Deliver(r)
  <2>1. Good(req'[r], mailed', proven')
    BY <1>0, <1>4, DoneIs DEF Deliver, Idle, Good
  <2>2. QED
    BY <1>4, <1>a, <1>b, <2>1 DEF Deliver, codeVars, tokenVars
<1>5. CASE Compare(r)
  <2>1. req[r] \in Answering /\ req[r].pc = "del" /\ Good(req[r], mailed, proven)
    BY <1>0, <1>5, Parts DEF Compare, ProvenInv
  <2>2. mailed' = mailed /\ proven \subseteq proven' /\ UNCHANGED <<token, verified>>
    BY <1>5 DEF Compare, tokenVars
  <2>3. Right(req[r]) => <<"code", req[r].identity>> \in proven'
    <3> SUFFICES ASSUME Right(req[r]) PROVE <<"code", req[r].identity>> \in proven'
      OBVIOUS
    <3>1. PICK j \in Identities : <<j, req[r].given>> \in mailed
      BY <2>1 DEF Right, Good
    <3>2. req[r].given = req[r].stored /\ req[r].given \in Codes /\ req[r].identity \in Identities
      BY <2>1 DEF Right, Answering
    <3>3. Holds(j, req[r].given) /\ Holds(req[r].identity, req[r].given)
      BY <2>1, <3>1, <3>2 DEF Holds
    <3>4. j = req[r].identity
      BY <3>2, <3>3 DEF ProvenInv, IInv, OneUri
    <3>5. QED
      BY <1>5, <3>1, <3>4 DEF Compare
  <2>4. Good(req'[r], mailed', proven')
    <3>1. CASE /\ Right(req[r])
               /\ Goes(r, [pc |-> "verify", why |-> req[r].why, identity |-> req[r].identity])
      BY <1>0, <2>3, <3>1, SlotIs DEF Good
    <3>2. CASE Goes(r, [pc |-> "send", identity |-> req[r].identity])
      BY <1>0, <3>2, SlotIs DEF Good
    <3>3. CASE Done(r)
      BY <1>0, <3>3, DoneIs DEF Good, Idle
    <3>4. QED
      BY <1>5, <3>1, <3>2, <3>3 DEF Compare
  <2>5. QED
    BY <1>a, <1>b, <2>2, <2>4
<1>6. CASE Verify(r)
  <2>1. req[r].pc = "verify" /\ Good(req[r], mailed, proven)
    BY <1>6 DEF Verify, ProvenInv
  <2>2. <<"code", req[r].identity>> \in proven
    BY <2>1 DEF Good
  <2>3. Good(req'[r], mailed', proven')
    <3>1. CASE Goes(r, [pc |-> "verify", why |-> "otp", identity |-> req[r].identity])
      BY <1>0, <1>6, <2>2, <3>1, SlotIs DEF Good, Verify, history
    <3>2. CASE Done(r)
      BY <1>0, <3>2, DoneIs DEF Good, Idle
    <3>3. QED
      BY <1>6, <3>1, <3>2 DEF Verify
  <2>4. \A i \in verified' : Backed(i, proven')
    BY <1>6, <2>2 DEF Verify, history, ProvenInv, Backed
  <2>5. QED
    BY <1>6, <1>a, <2>3, <2>4 DEF Verify, tokenVars, history
<1>7. QED
  BY <1>1, <1>2, <1>3, <1>4, <1>5, <1>6
     DEF CodeStep, AskForCode, AskForCodeAsClient, ChallengeOtp, ChallengeVerification,
         AnswerOnPage, AnswerAsClient, AnswerOtp, AnswerVerification, Whys

LEMMA TokenProves ==
  ASSUME ProvenInv, NEW r \in Requests, TokenStep(r)
  PROVE  ProvenInv'
<1>0. TypeOK /\ IInv' /\ mailed' = mailed /\ \A s \in Requests : s # r => req'[s] = req[s]
  BY TokenKeeps, TokenMoves DEF ProvenInv, IInv
<1>a. ASSUME Good(req'[r], mailed', proven'), proven \subseteq proven', Mine',
             \A i \in verified' : Backed(i, proven')
      PROVE  ProvenInv'
  <2>1. \A s \in Requests : Good(req'[s], mailed', proven')
    BY <1>0, <1>a, OneMoves DEF ProvenInv
  <2>2. QED
    BY <1>0, <1>a, <2>1 DEF ProvenInv
<1>b. (proven \subseteq proven' /\ UNCHANGED verified) =>
        \A i \in verified' : Backed(i, proven')
  BY DEF ProvenInv, Backed
<1>c. UNCHANGED token => Mine'
  BY DEF ProvenInv, Mine
<1>1. ASSUME NEW t \in Tokens, NEW how \in {"exchange", "link"}, NEW keep \in BOOLEAN,
             NEW activate \in BOOLEAN, Use(r, t, how, keep, activate)
      PROVE  ProvenInv'
  <2>1. req'[r] = [pc |-> "spend", token |-> t, how |-> how, keep |-> keep,
                   activate |-> activate, user |-> token[t].user,
                   identity |-> token[t].identity]
    BY <1>0, <1>1 DEF Use, Begin, TypeOK
  <2>2. Good(req'[r], mailed', proven')
    BY <1>1, <2>1 DEF Good, Use, ProvenInv, Mine
  <2>3. QED
    BY <1>1, <1>a, <1>b, <1>c, <2>2 DEF Use, codeVars, tokenVars, history
<1>2. CASE Spend(r)
  <2>1. req[r].pc = "spend" /\ Good(req[r], mailed, proven)
    BY <1>2 DEF Spend, ProvenInv
  <2>2. req'[r] = [pc |-> "owner", how |-> req[r].how, activate |-> req[r].activate,
                   user |-> req[r].user, identity |-> req[r].identity]
    BY <1>0, <1>2, SlotIs DEF Spend
  <2>3. proven \subseteq proven' /\ (req[r].identity # None => <<"token", req[r].identity>> \in proven')
    BY <1>2 DEF Spend
  <2>4. Good(req'[r], mailed', proven')
    BY <2>1, <2>2, <2>3 DEF Good
  <2>5. Mine'
    BY <1>2 DEF Spend, AfterUse, Without, ProvenInv, Mine
  <2>6. QED
    BY <1>2, <1>a, <1>b, <2>3, <2>4, <2>5 DEF Spend, codeVars
<1>3. CASE ReadOwner(r)
  <2>1. req[r] \in Owning /\ req[r].pc = "owner" /\ Good(req[r], mailed, proven)
    BY <1>0, <1>3, Parts DEF ReadOwner, ProvenInv
  <2>2. UNCHANGED <<mailed, proven, verified, token>>
    BY <1>3 DEF ReadOwner, codeVars, tokenVars, history
  <2>3. ASSUME NEW i \in Found(req[r]), i # None
        PROVE  Backed(i, proven)
    <3>1. req[r].identity # None /\ Owner[i] = req[r].user
      BY <2>3 DEF Found
    <3>2. /\ Owner[req[r].identity] = req[r].user /\ req[r].identity \in Identities
          /\ <<"token", req[r].identity>> \in proven
      BY <2>1, <3>1 DEF Good, Owning
    <3>3. QED
      BY <3>1, <3>2 DEF Backed
  <2>4. Good(req'[r], mailed', proven')
    <3>1. CASE Done(r)
      BY <1>0, <3>1, DoneIs DEF Idle, Good
    <3>2. ASSUME NEW i \in Found(req[r]) \cup {None},
                 NEW pc \in {"finish", "confirm", "activate"}, Goes(r, Owned(r, pc, i))
          PROVE  Good(req'[r], mailed', proven')
      <4>1. req'[r].pc = pc /\ req'[r].found = i
        BY <1>0, <3>2, SlotIs DEF Owned
      <4>2. QED
        BY <2>2, <2>3, <4>1 DEF Good
    <3>3. QED
      BY <1>3, <3>1, <3>2, Refined
  <2>5. QED
    BY <1>a, <1>b, <1>c, <2>2, <2>4
<1>4. CASE Activate(r)
  <2>1. req[r] \in Confirming /\ req[r].pc = "activate" /\ Good(req[r], mailed, proven)
    BY <1>0, <1>4, Parts DEF Activate, ProvenInv
  <2>2. req'[r] = [req[r] EXCEPT !.pc = "confirm"]
    BY <1>0, <1>4, SlotIs DEF Activate
  <2>3. req'[r].pc = "confirm" /\ req'[r].found = req[r].found
    BY <2>1, <2>2 DEF Confirming
  <2>4. Good(req'[r], mailed', proven')
    BY <1>4, <2>1, <2>3 DEF Good, Activate, history
  <2>5. QED
    BY <1>4, <1>a, <1>b, <1>c, <2>4 DEF Activate, codeVars, history
<1>5. CASE Confirm(r)
  <2>1. req[r] \in Confirming /\ req[r].pc = "confirm" /\ Good(req[r], mailed, proven)
    BY <1>0, <1>5, Parts DEF Confirm, ProvenInv
  <2>2. req'[r] = [req[r] EXCEPT !.pc = "finish"]
    BY <1>0, <1>5, SlotIs DEF Confirm
  <2>3. req'[r].pc = "finish"
    BY <2>1, <2>2 DEF Confirming
  <2>4. Good(req'[r], mailed', proven')
    BY <2>3 DEF Good
  <2>5. \A i \in verified' : Backed(i, proven')
    BY <1>5, <2>1 DEF Confirm, Good, history, ProvenInv, Backed
  <2>6. QED
    BY <1>5, <1>a, <1>c, <2>4, <2>5 DEF Confirm, tokenVars, history
<1>6. CASE Finish(r)
  <2>1. Good(req'[r], mailed', proven')
    BY <1>0, <1>6, DoneIs DEF Finish, Idle, Good
  <2>2. QED
    BY <1>6, <1>a, <1>b, <1>c, <2>1 DEF Finish, codeVars, history
<1>7. QED
  BY <1>1, <1>2, <1>3, <1>4, <1>5, <1>6 DEF TokenStep, FollowLink, Exchange

LEMMA FailProves ==
  ASSUME ProvenInv, NEW r \in Requests, Fail(r)
  PROVE  ProvenInv'
<1>1. IInv' /\ req'[r] = Idle /\ \A s \in Requests : s # r => req'[s] = req[s]
  BY FailKeeps, DoneIs DEF ProvenInv, IInv, Fail
<1>2. UNCHANGED <<mailed, proven, verified, token>>
  BY DEF Fail, codeVars, tokenVars, history
<1>3. Good(req'[r], mailed', proven')
  BY <1>1 DEF Good, Idle
<1>4. \A s \in Requests : Good(req'[s], mailed', proven')
  BY <1>1, <1>2, <1>3, OneMoves DEF ProvenInv
<1>5. QED
  BY <1>1, <1>2, <1>4 DEF ProvenInv, Mine, Backed

LEMMA ElsewhereProves ==
  ASSUME ProvenInv, Elsewhere
  PROVE  ProvenInv'
<1>0. IInv'
  BY ElsewhereKeeps DEF ProvenInv
<1>1. UNCHANGED <<req, mailed, proven, verified>>
  BY DEF Elsewhere, CodeExpires, Generate, ResetToken, AskForReset, AskForResetAsClient, CreateToken,
         TokenExpires, ChangePassword, SetActive, history, codeVars
<1>2. Mine'
  <2>1. ASSUME NEW u \in Users, NEW i \in Identities \cup {None}, CreateToken(u, i) PROVE Mine'
    BY <2>1 DEF CreateToken, ProvenInv, Mine
  <2>2. ASSUME NEW t \in Tokens, TokenExpires(t) PROVE Mine'
    BY <2>2 DEF TokenExpires, Without, ProvenInv, Mine
  <2>3. CASE UNCHANGED token
    BY <2>3 DEF ProvenInv, Mine
  <2>4. QED
    BY <2>1, <2>2, <2>3
       DEF Elsewhere, Generate, ResetToken, AskForReset, AskForResetAsClient, CodeExpires, tokenVars,
           ChangePassword, SetActive
<1>3. QED
  BY <1>0, <1>1, <1>2 DEF ProvenInv, Backed

\* VerifiedWasProven: markVerified() is called for what a code proved, or for an
\* identity of the user whose token came back, whichever findById() found.  No token
\* verifies an identity of another user, however its row and the user are read.
THEOREM OnlyProvenIsVerified == Spec => []VerifiedWasProven
<1>1. Init => ProvenInv
  <2> SUFFICES ASSUME Init PROVE ProvenInv
    OBVIOUS
  <2>1. IInv
    BY Inductive
  <2>2. QED
    BY <2>1 DEF Init, ProvenInv, Mine, Good, Idle
<1>2. ProvenInv /\ [Next]_vars => ProvenInv'
  <2>1. ASSUME ProvenInv, UNCHANGED vars PROVE ProvenInv'
    <3>1. IInv'
      BY <2>1, Inductive DEF ProvenInv
    <3>2. QED
      BY <2>1, <3>1 DEF ProvenInv, Mine, Backed, vars, codeVars, tokenVars, history
  <2>2. ASSUME ProvenInv, Next PROVE ProvenInv'
    BY <2>2, CodeProves, TokenProves, FailProves, ElsewhereProves DEF Next
  <2>3. QED
    BY <2>1, <2>2
<1>3. ProvenInv => VerifiedWasProven
  BY DEF ProvenInv, Backed, VerifiedWasProven
<1>4. QED
  BY <1>1, <1>2, <1>3, PTL DEF Spec
-----------------------------------------------------------------------------
(* The store that keeps codes and sessions when there is no redis, for any *)
(* keys, values and times to live.                                         *)

LEMMA StoreTypeInit == StoreInit => StoreTypeOK
BY TimesAssumption DEF StoreInit, StoreTypeOK

LEMMA StoreTypeStep == StoreTypeOK /\ [StoreNext]_storeVars => StoreTypeOK'
<1> SUFFICES ASSUME StoreTypeOK, [StoreNext]_storeVars
             PROVE  StoreTypeOK'
  OBVIOUS
<1>1. ASSUME NEW k \in Keys, NEW v \in Values, NEW ttl \in Ttls \cup {Null}, Set(k, v, ttl)
      PROVE  StoreTypeOK'
  <2>1. ttl # Null => now + ttl \in Int
    BY TimesAssumption DEF StoreTypeOK
  <2>2. now + GcInterval \in Int
    BY TimesAssumption DEF StoreTypeOK
  <2>3. [value |-> v, expires |-> IF ttl \in {Null, 0} THEN Null ELSE now + ttl] \in ValueMeta
    BY <2>1 DEF ValueMeta
  <2>4. store' \in [Keys -> ValueMeta \cup {Null}]
    BY <1>1, <2>3 DEF Set, StoreTypeOK
  <2>5. gcTimer' \in Int \cup {Null}
    BY <1>1, <2>2 DEF Set, Scheduled, StoreTypeOK
  <2>6. deadline' \in [Keys -> Int \cup {Null}]
    BY <1>1, <2>1 DEF Set, StoreTypeOK
  <2> QED BY <1>1, <2>4, <2>5, <2>6 DEF Set, StoreTypeOK
<1>2. CASE Gc
  <2>1. now + GcInterval \in Int
    BY TimesAssumption DEF StoreTypeOK
  <2> QED BY <1>2, <2>1 DEF Gc, StoreTypeOK
<1>3. CASE Tick \/ Restart \/ UNCHANGED storeVars \/ \E k \in Keys : Delete(k)
  BY <1>3 DEF Tick, Restart, Delete, storeVars, StoreTypeOK
<1> QED BY <1>1, <1>2, <1>3 DEF StoreNext

\* Items, times of expiry and the timer keep their shapes, for any keys, values,
\* times to live and interval of the collector.
THEOREM StoreTypeCorrect == StoreSpec => []StoreTypeOK
BY StoreTypeInit, StoreTypeStep, PTL DEF StoreSpec

\* Collecting arms the timer again exactly when something is left to expire, and
\* nothing but set() adds an item.
LEMMA StoreCollectorStep ==
  ASSUME StoreTypeOK, CollectorIsScheduled, [StoreNext]_storeVars
  PROVE  CollectorIsScheduled'
<1>1. now + GcInterval # Null
  BY TimesAssumption DEF StoreTypeOK
<1>2. ASSUME NEW k \in Keys, NEW v \in Values, NEW ttl \in Ttls \cup {Null}, Set(k, v, ttl)
      PROVE  CollectorIsScheduled'
  <2>1. CASE ttl \notin {Null, 0}
    BY <1>1, <1>2, <2>1 DEF Set, Scheduled, CollectorIsScheduled
  <2>2. CASE ttl \in {Null, 0}
    <3>1. store'[k].expires = Null /\ \A x \in Keys \ {k} : store'[x] = store[x]
      BY <1>2, <2>2 DEF Set, StoreTypeOK
    <3>2. NextExpiry(store') => NextExpiry(store)
      BY <3>1 DEF NextExpiry
    <3> QED BY <1>2, <2>2, <3>2 DEF Set, CollectorIsScheduled, NextExpiry
  <2> QED BY <2>1, <2>2
<1>3. CASE Gc
  BY <1>1, <1>3 DEF Gc, CollectorIsScheduled, NextExpiry
<1>4. CASE Restart \/ \E k \in Keys : Delete(k)
  <2>1. NextExpiry(store') => NextExpiry(store) /\ gcTimer' = gcTimer
    BY <1>4 DEF Restart, Delete, NextExpiry, StoreTypeOK
  <2> QED BY <2>1 DEF CollectorIsScheduled, NextExpiry
<1>5. CASE Tick \/ UNCHANGED storeVars
  BY <1>5 DEF Tick, storeVars, CollectorIsScheduled
<1> QED BY <1>2, <1>3, <1>4, <1>5 DEF StoreNext

\* The map never holds an item that expires without a timer to collect it.
THEOREM CollectorStaysScheduled == StoreSpec => []CollectorIsScheduled
<1>1. StoreInit => CollectorIsScheduled
  BY DEF StoreInit, CollectorIsScheduled, NextExpiry
<1> QED BY <1>1, StoreTypeInit, StoreTypeStep, StoreCollectorStep, PTL DEF StoreSpec
-----------------------------------------------------------------------------
(* The store keeps the promise of TtlStore                                 *)

\* Without a time to live of 0, an item expires when its setter said.
Punctual == \A k \in Keys : store[k] # Null => store[k].expires = deadline[k]

Inv == StoreTypeOK /\ Punctual

LEMMA StorePunctualStep ==
  ASSUME 0 \notin Ttls, StoreTypeOK, Punctual, [StoreNext]_storeVars
  PROVE  Punctual'
<1>1. ASSUME NEW k \in Keys, NEW v \in Values, NEW ttl \in Ttls \cup {Null}, Set(k, v, ttl)
      PROVE  Punctual'
  <2>1. ttl \in {Null, 0} <=> ttl = Null
    BY TimesAssumption
  <2>2. store'[k].expires = deadline'[k]
    BY <1>1, <2>1 DEF Set, StoreTypeOK
  <2>3. \A x \in Keys \ {k} : store'[x] = store[x] /\ deadline'[x] = deadline[x]
    BY <1>1 DEF Set, StoreTypeOK
  <2> QED BY <2>2, <2>3 DEF Punctual
<1>2. CASE Gc \/ Tick \/ Restart \/ UNCHANGED storeVars \/ \E k \in Keys : Delete(k)
  BY <1>2 DEF Gc, Tick, Restart, Delete, storeVars, StoreTypeOK, Punctual
<1> QED BY <1>1, <1>2 DEF StoreNext

\* The abstract variables
Shown == [k \in Keys |-> Get(k)]
Deadline == [k \in Keys |-> IF Get(k) = Null THEN Null ELSE deadline[k]]


\* A set() or delete() of k shows as an assignment to k alone.
LEMMA OneKey ==
  ASSUME NEW k \in Keys, StoreTypeOK, NEW v, NEW d,
         \A x \in Keys \ {k} : store'[x] = store[x] /\ deadline'[x] = deadline[x],
         now' = now, Get(k)' = v, (IF Get(k)' = Null THEN Null ELSE deadline'[k]) = d
  PROVE  Ttl!Assign(k, v, d)
<1>1. \A x \in Keys \ {k} : Get(x)' = Get(x)
  BY DEF Get, Expired
<1>2. Shown' = [Shown EXCEPT ![k] = v]
  BY <1>1 DEF Shown
<1>3. Deadline' = [Deadline EXCEPT ![k] = d]
  BY <1>1 DEF Deadline
<1> QED BY <1>2, <1>3 DEF Ttl!Assign, Shown, Deadline

LEMMA StoreSetRefines ==
  ASSUME 0 \notin Ttls, StoreTypeOK, NEW k \in Keys, NEW v \in Values, NEW ttl \in Ttls \cup {Null},
         Set(k, v, ttl)
  PROVE  Ttl!Next
<1>1. /\ store'[k] = [value |-> v, expires |-> IF ttl = Null THEN Null ELSE now + ttl]
      /\ deadline'[k] = (IF ttl = Null THEN Null ELSE now + ttl)
      /\ \A x \in Keys \ {k} : store'[x] = store[x] /\ deadline'[x] = deadline[x]
      /\ now' = now
  BY TimesAssumption DEF Set, StoreTypeOK
<1>2. store'[k] # Null /\ v # Null /\ (ttl # Null => ttl \in Int /\ now + ttl \in Int)
  <2>1. ttl # Null => ttl \in Int /\ now + ttl \in Int
    BY TimesAssumption DEF StoreTypeOK
  <2>2. (IF ttl = Null THEN Null ELSE now + ttl) \in Int \cup {Null}
    BY <2>1
  <2>3. store'[k] \in ValueMeta
    BY <1>1, <2>2 DEF ValueMeta
  <2> QED BY <2>1, <2>3, TimesAssumption
<1>3. CASE ttl = Null
  <2>1. Get(k)' = v /\ deadline'[k] = Null
    BY <1>1, <1>2, <1>3 DEF Get, Expired
  <2>2. Ttl!Assign(k, v, Null)
    BY <1>1, <1>2, <2>1, OneKey
  <2> QED BY <2>2 DEF Ttl!Next
<1>4. CASE ttl # Null /\ ttl < 0
  <2>1. Get(k)' = Null
    <3>1. now + ttl < now /\ now + ttl # Null
      BY <1>2, <1>4, TimesAssumption DEF StoreTypeOK
    <3>2. store'[k].expires = now + ttl
      BY <1>1, <1>4
    <3> QED BY <1>1, <3>1, <3>2 DEF Get, Expired
  <2>2. Ttl!Assign(k, Null, Null)
    BY <1>1, <2>1, OneKey
  <2> QED BY <2>2 DEF Ttl!Next, Ttl!Forget
<1>5. CASE ttl # Null /\ ~ ttl < 0
  <2>0. PICK d : d = now + ttl
    OBVIOUS
  <2>1. Get(k)' = v
    <3>1. ~ (now + ttl < now)
      BY <1>2, <1>5 DEF StoreTypeOK
    <3>2. store'[k].expires = now + ttl /\ store'[k].value = v
      BY <1>1, <1>5
    <3> QED BY <1>1, <1>2, <3>1, <3>2 DEF Get, Expired
  <2>2. (IF Get(k)' = Null THEN Null ELSE deadline'[k]) = d
    BY <1>1, <1>2, <1>5, <2>0, <2>1
  <2>3. Ttl!Assign(k, v, d)
    BY <1>1, <2>1, <2>2, OneKey
  <2>4. Ttl!Set(k, v, ttl)
    BY <1>5, <2>0, <2>3 DEF Ttl!Set, Ttl!Assign
  <2> QED BY <1>5, <2>4 DEF Ttl!Next
<1> QED BY <1>3, <1>4, <1>5

LEMMA StoreTickRefines ==
  ASSUME 0 \notin Ttls, StoreTypeOK, StoreTypeOK', Punctual, Tick
  PROVE  Ttl!Tick
<1> DEFINE over(k) == Deadline[k] # Null /\ Deadline[k] <= now
<1>1. ASSUME NEW k \in Keys
      PROVE  /\ Get(k)' = IF over(k) THEN Null ELSE Get(k)
             /\ Deadline'[k] = IF over(k) THEN Null ELSE Deadline[k]
  <2>1. store'[k] = store[k] /\ deadline'[k] = deadline[k] /\ now' = now + 1 /\ now \in Int
    BY DEF Tick, StoreTypeOK
  <2>2. CASE Get(k) = Null
    <3>1. Get(k)' = Null
      <4>1. CASE store[k] = Null
        BY <2>1, <4>1 DEF Get
      <4>2. CASE store[k] # Null
        <5>1. store[k].expires \in Int \cup {Null} /\ store[k].value # Null
          BY <4>2, TimesAssumption DEF StoreTypeOK, ValueMeta
        <5>2. store[k].expires # Null /\ store[k].expires < now
          BY <2>2, <4>2, <5>1 DEF Get, Expired
        <5> QED BY <2>1, <5>1, <5>2 DEF Get, Expired
      <4> QED BY <4>1, <4>2
    <3>2. Deadline[k] = Null /\ Deadline'[k] = Null
      BY <2>2, <3>1 DEF Deadline
    <3> QED BY <2>2, <3>1, <3>2
  <2>3. CASE Get(k) # Null
    <3>1. /\ store[k] # Null /\ Get(k) = store[k].value
          /\ store[k].expires \in Int \cup {Null}
          /\ store[k].expires = Null \/ store[k].expires >= now
      BY <2>1, <2>3 DEF Get, Expired, StoreTypeOK, ValueMeta
    <3>2. Deadline[k] = store[k].expires /\ deadline[k] = store[k].expires
      BY <2>3, <3>1 DEF Deadline, Punctual
    <3>3. CASE over(k)
      <4>1. Get(k)' = Null
        BY <2>1, <3>1, <3>2, <3>3 DEF Get, Expired
      <4>2. Deadline'[k] = Null
        BY <4>1 DEF Deadline
      <4> QED BY <3>3, <4>1, <4>2
    <3>4. CASE ~ over(k)
      <4>1. store[k].expires = Null \/ store[k].expires >= now + 1
        BY <2>1, <3>1, <3>2, <3>4
      <4>2. Get(k)' = Get(k)
        BY <2>1, <3>1, <4>1 DEF Get, Expired
      <4>3. Deadline'[k] = Deadline[k]
        BY <2>1, <2>3, <4>2 DEF Deadline
      <4> QED BY <3>4, <4>2, <4>3
    <3> QED BY <3>3, <3>4
  <2> QED BY <2>2, <2>3
<1>2. Shown' = [k \in Keys |-> IF over(k) THEN Null ELSE Shown[k]]
  BY <1>1 DEF Shown
<1>3. Deadline' = [k \in Keys |-> IF over(k) THEN Null ELSE Deadline[k]]
  BY <1>1 DEF Deadline
<1> QED BY <1>2, <1>3 DEF Tick, Ttl!Tick, Shown, Deadline

LEMMA StoreStepRefines ==
  ASSUME 0 \notin Ttls, StoreTypeOK, StoreTypeOK', Punctual, [StoreNext]_storeVars
  PROVE  [Ttl!Next]_(Ttl!ttlVars)
<1>1. ASSUME NEW k \in Keys, NEW v \in Values, NEW ttl \in Ttls \cup {Null}, Set(k, v, ttl)
      PROVE  Ttl!Next
  BY <1>1, StoreSetRefines
<1>2. ASSUME NEW k \in Keys, Delete(k)
      PROVE  Ttl!Next
  <2>1. /\ \A x \in Keys \ {k} : store'[x] = store[x] /\ deadline'[x] = deadline[x]
        /\ store'[k] = Null /\ now' = now
    BY <1>2 DEF Delete, StoreTypeOK
  <2>2. Get(k)' = Null
    BY <2>1 DEF Get
  <2>3. Ttl!Assign(k, Null, Null)
    BY <2>1, <2>2, OneKey
  <2> QED BY <2>3 DEF Ttl!Next, Ttl!Forget
<1>3. CASE Gc
  <2>1. ASSUME NEW k \in Keys
        PROVE  Get(k)' = Get(k)
    BY <1>3 DEF Gc, Get, Kept, Expired
  <2>2. Shown' = Shown /\ Deadline' = Deadline /\ now' = now
    BY <1>3, <2>1 DEF Gc, Shown, Deadline
  <2> QED BY <2>2 DEF Ttl!ttlVars, Shown, Deadline
<1>4. CASE Tick
  BY <1>4, StoreTickRefines DEF Ttl!Next
<1>5. CASE Restart
  <2>1. \A k \in Keys : Get(k)' = Null
    BY <1>5 DEF Restart, Get
  <2> QED BY <1>5, <2>1 DEF Restart, Ttl!Next, Ttl!Restart
<1>6. CASE UNCHANGED storeVars
  BY <1>6 DEF storeVars, Ttl!ttlVars, Get, Expired
<1> QED BY <1>1, <1>2, <1>3, <1>4, <1>5, <1>6 DEF StoreNext

\* For callers that never ask for a time to live of 0, the map with its collector
\* answers as TtlStore says: values until their time is over, and no longer.
THEOREM StoreKeepsItsPromise ==
  ASSUME 0 \notin Ttls
  PROVE  StoreSpec => ImplementsTtlStore
<1>1. StoreInit => Inv /\ Ttl!Init
  <2>1. StoreInit => Punctual
    BY DEF StoreInit, Punctual
  <2>2. StoreInit => Ttl!Init
    BY DEF StoreInit, Ttl!Init, Get
  <2> QED BY <2>1, <2>2, StoreTypeInit DEF Inv
<1>2. Inv /\ [StoreNext]_storeVars => Inv'
  BY StoreTypeStep, StorePunctualStep DEF Inv
<1>3. Inv /\ Inv' /\ [StoreNext]_storeVars => [Ttl!Next]_(Ttl!ttlVars)
  BY StoreStepRefines DEF Inv
<1> QED BY <1>1, <1>2, <1>3, PTL DEF StoreSpec, Ttl!Spec, ImplementsTtlStore
-----------------------------------------------------------------------------
\* Between two readings, what is under a key was set, or it is what was there before,
\* or it is gone.
AnswersAreStored == \A k \in Keys :
  \/ Get(k)' \in {Get(k), Null}
  \/ \E v \in Values, ttl \in Ttls \cup {Null} : Set(k, v, ttl) /\ Get(k)' = v

LEMMA StoreAnswers ==
  ASSUME StoreTypeOK, StoreTypeOK', [StoreNext]_storeVars
  PROVE  AnswersAreStored
<1> SUFFICES ASSUME NEW k \in Keys
             PROVE  \/ Get(k)' \in {Get(k), Null}
                    \/ \E v \in Values, ttl \in Ttls \cup {Null} :
                         Set(k, v, ttl) /\ Get(k)' = v
  BY DEF AnswersAreStored
<1>1. ASSUME NEW x \in Keys, NEW v \in Values, NEW ttl \in Ttls \cup {Null}, Set(x, v, ttl)
      PROVE  (x = k /\ Get(k)' \in {v, Null}) \/ Get(k)' = Get(k)
  <2>1. CASE x = k
    <3>1. store'[k].value = v
      BY <1>1, <2>1 DEF Set, StoreTypeOK
    <3> QED BY <2>1, <3>1 DEF Get
  <2>2. CASE x # k
    BY <1>1, <2>2 DEF Set, StoreTypeOK, Get, Expired
  <2> QED BY <2>1, <2>2
<1>2. CASE Tick
  <2>1. store' = store /\ now' = now + 1 /\ now \in Nat
    BY <1>2 DEF Tick, StoreTypeOK
  <2>2. CASE store[k] = Null
    BY <2>1, <2>2 DEF Get
  <2>3. CASE store[k] # Null
    <3>1. store[k].expires \in Int \cup {Null}
      BY <2>3 DEF StoreTypeOK, ValueMeta
    <3>2. Expired(store[k]) => Expired(store[k])'
      BY <2>1, <3>1, TimesAssumption DEF Expired
    <3> QED BY <2>1, <3>2 DEF Get
  <2> QED BY <2>2, <2>3
<1>3. CASE Gc \/ Restart \/ UNCHANGED storeVars \/ \E x \in Keys : Delete(x)
  BY <1>3 DEF Gc, Restart, Delete, storeVars, StoreTypeOK, Get, Kept, Expired
<1> QED BY <1>1, <1>2, <1>3 DEF StoreNext

\* The store forgets and never makes up: whatever is done to it, the answer for a key
\* stays, becomes nothing, or becomes what somebody just set.
THEOREM StoreOnlyForgets == StoreSpec => [][AnswersAreStored]_storeVars
<1>1. StoreTypeOK /\ StoreTypeOK' /\ [StoreNext]_storeVars => [AnswersAreStored]_storeVars
  BY StoreAnswers
<1> QED BY <1>1, StoreTypeCorrect, PTL DEF StoreSpec
-----------------------------------------------------------------------------
\* The timer is due within an interval, or it is over and about to run.
TimerIsSoon == gcTimer # Null => gcTimer <= now + GcInterval

\* An item that expires leaves with a collection that is due an interval after it
\* expired; an item set with a time to live of 'least' below 0, so much later.
CollectedBy(least) == \A k \in Keys : store[k] # Null /\ store[k].expires # Null =>
  gcTimer # Null /\ gcTimer <= store[k].expires - least + GcInterval

LEMMA TimerStep ==
  ASSUME StoreTypeOK, TimerIsSoon, [StoreNext]_storeVars
  PROVE  TimerIsSoon'
<1>1. GcInterval \in Nat /\ now \in Nat /\ gcTimer \in Int \cup {Null} /\ Null \notin Int
  BY TimesAssumption DEF StoreTypeOK
<1>2. CASE \E k \in Keys, v \in Values, ttl \in Ttls \cup {Null} : Set(k, v, ttl)
  BY <1>1, <1>2 DEF Set, Scheduled, TimerIsSoon
<1>3. CASE Gc
  <2>1. now' = now /\ (gcTimer' # Null => gcTimer' = now + GcInterval)
    BY <1>3 DEF Gc
  <2> QED BY <1>1, <2>1 DEF TimerIsSoon
<1>4. CASE Tick
  BY <1>1, <1>4 DEF Tick, TimerIsSoon
<1>5. CASE Restart \/ UNCHANGED storeVars \/ \E k \in Keys : Delete(k)
  BY <1>5 DEF Restart, Delete, storeVars, TimerIsSoon
<1> QED BY <1>2, <1>3, <1>4, <1>5 DEF StoreNext

LEMMA CollectedStep ==
  ASSUME NEW least \in Int, least <= 0, \A ttl \in Ttls : least <= ttl,
         StoreTypeOK, TimerIsSoon, CollectedBy(least), [StoreNext]_storeVars
  PROVE  CollectedBy(least)'
<1>1. /\ GcInterval \in Nat /\ now \in Nat /\ gcTimer \in Int \cup {Null} /\ Null \notin Int
      /\ \A k \in Keys : store[k] # Null => store[k].expires \in Int \cup {Null}
  BY TimesAssumption DEF StoreTypeOK, ValueMeta
<1>2. ASSUME NEW k \in Keys, NEW v \in Values, NEW ttl \in Ttls \cup {Null}, Set(k, v, ttl)
      PROVE  CollectedBy(least)'
  <2>1. CASE ttl \in {Null, 0}
    <3>1. store'[k].expires = Null /\ \A x \in Keys \ {k} : store'[x] = store[x]
      BY <1>2, <2>1 DEF Set, StoreTypeOK
    <3> QED BY <1>2, <2>1, <3>1 DEF Set, CollectedBy
  <2>2. CASE ttl \notin {Null, 0}
    <3>1. ttl \in Int /\ least <= ttl /\ now + ttl \in Int
      BY <1>1, <2>2, TimesAssumption
    <3>2. gcTimer' # Null /\ gcTimer' <= now + GcInterval
      BY <1>1, <1>2, <2>2 DEF Set, Scheduled, TimerIsSoon
    <3>3. gcTimer' \in Int /\ (gcTimer # Null => gcTimer' = gcTimer)
      BY <1>1, <1>2, <2>2 DEF Set, Scheduled
    <3>4. store'[k].expires = now + ttl /\ \A x \in Keys \ {k} : store'[x] = store[x]
      BY <1>2, <2>2 DEF Set, StoreTypeOK
    <3>5. gcTimer' <= (now + ttl) - least + GcInterval
      BY <1>1, <3>1, <3>2, <3>3
    <3>6. ASSUME NEW x \in Keys, x # k, store[x] # Null, store[x].expires # Null
          PROVE  gcTimer' <= store[x].expires - least + GcInterval
      BY <3>3, <3>6 DEF CollectedBy
    <3>7. ASSUME NEW x \in Keys, store'[x] # Null, store'[x].expires # Null
          PROVE  gcTimer' # Null /\ gcTimer' <= store'[x].expires - least + GcInterval
      <4>1. CASE x = k
        <5>1. store'[x].expires = now + ttl
          BY <3>4, <4>1
        <5> QED BY <3>2, <3>5, <5>1
      <4>2. CASE x # k
        <5>1. store'[x] = store[x]
          BY <3>4, <4>2
        <5> QED BY <3>2, <3>6, <3>7, <4>2, <5>1
      <4> QED BY <4>1, <4>2
    <3> QED BY <3>7 DEF CollectedBy
  <2> QED BY <2>1, <2>2
<1>3. CASE Gc
  <2>1. ASSUME NEW k \in Keys, store'[k] # Null, store'[k].expires # Null
        PROVE  gcTimer' # Null /\ gcTimer' <= store'[k].expires - least + GcInterval
    <3>1. store'[k] = store[k] /\ ~ Expired(store[k])
      BY <1>3, <2>1 DEF Gc, Kept
    <3>2. store[k].expires \in Int /\ now <= store[k].expires
      BY <1>1, <2>1, <3>1 DEF Expired
    <3>3. gcTimer' = now + GcInterval
      BY <1>3, <2>1 DEF Gc, NextExpiry
    <3> QED BY <1>1, <3>1, <3>2, <3>3
  <2> QED BY <2>1 DEF CollectedBy
<1>4. CASE Restart \/ Tick \/ UNCHANGED storeVars \/ \E k \in Keys : Delete(k)
  BY <1>4 DEF Restart, Tick, Delete, storeVars, StoreTypeOK, CollectedBy
<1> QED BY <1>2, <1>3, <1>4 DEF StoreNext

\* How long the memory keeps what has expired: until a collection that is due an
\* interval of the collector later, whichever sets, deletes and late timers came in
\* between.  The event loop's own delay comes on top.
THEOREM ItemsAreCollectedInTime ==
  ASSUME NEW least \in Int, least <= 0, \A ttl \in Ttls : least <= ttl
  PROVE  StoreSpec => []CollectedBy(least)
<1>1. StoreInit => TimerIsSoon /\ CollectedBy(least)
  BY DEF StoreInit, TimerIsSoon, CollectedBy
<1>2. StoreTypeOK /\ TimerIsSoon /\ [StoreNext]_storeVars => TimerIsSoon'
  BY TimerStep
<1>3. StoreTypeOK /\ TimerIsSoon /\ CollectedBy(least) /\ [StoreNext]_storeVars
        => CollectedBy(least)'
  BY CollectedStep
<1> QED BY <1>1, <1>2, <1>3, StoreTypeCorrect, PTL DEF StoreSpec
=============================================================================
