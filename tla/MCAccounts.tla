----------------------------- MODULE MCAccounts -----------------------------
(* Small instances of Accounts for TLC.                                     *)
EXTENDS Accounts, TLC

CONSTANTS a, a_upper

\* Two spellings of one address
TwoSpellings == a :> a @@ a_upper :> a

\* A user with everything, a user with a password alone, an app, a group
FourForms == {
  [kind |-> "user", uri |-> a, password |-> "good", mark |-> TRUE],
  [kind |-> "user", uri |-> NoUri, password |-> "good", mark |-> FALSE],
  [kind |-> "app", uri |-> a, password |-> "none", mark |-> FALSE],
  [kind |-> "group", uri |-> NoUri, password |-> "none", mark |-> FALSE]}

Permuted == Permutations(Requests)
=============================================================================
