---------------------------- MODULE GrantLedger ----------------------------
(***************************************************************************)
(* What the token service promises about the secrets it hands out: a       *)
(* secret (an authorization code, or an access/refresh token pair) is      *)
(* entered once in the ledger, is live until it is killed, and never lives *)
(* again.  A secret issued in exchange for another one inherits the user,  *)
(* the client and the scope of its parent, and is issued only once the     *)
(* parent is dead.                                                         *)
(***************************************************************************)
EXTENDS Naturals

CONSTANTS Principals, ClientIds, GrantedScopes, NoParent, SecretBound

VARIABLES
  ledger,   \* entries [secret, parent, user, client, scope], one per secret issued
  live      \* the secrets the service still accepts

ledgerVars == <<ledger, live>>

Secret == 1..SecretBound

Root == [secret : Secret, parent : {NoParent}, user : Principals,
         client : ClientIds, scope : GrantedScopes]

Recorded == {e.secret : e \in ledger}

Init == ledger = {} /\ live = {}

\* A grant made by the user (or by the client for itself): a new root.
IssueRoot(s) ==
  \E u \in Principals, c \in ClientIds, sc \in GrantedScopes :
    ledger' = ledger \cup {[secret |-> s, parent |-> NoParent, user |-> u,
                            client |-> c, scope |-> sc]}

\* A secret issued for another one, which is dead by then.
IssueChild(s) ==
  \E p \in ledger :
    /\ p.secret \notin live
    /\ ledger' = ledger \cup {[p EXCEPT !.secret = s, !.parent = p.secret]}

Issue == \E s \in Secret \ Recorded :
  /\ live' = live \cup {s}
  /\ IssueRoot(s) \/ IssueChild(s)

\* Spending a code, refreshing, revoking, logging out.
Kill ==
  /\ live' \in SUBSET live
  /\ UNCHANGED ledger

Next == Issue \/ Kill

Spec == Init /\ [][Next]_ledgerVars
=============================================================================
