------------------------------- MODULE MCApps -------------------------------
(* Small instances of Apps for TLC.                                         *)
EXTENDS Apps, TLC

TwoForms ==
  {[boxes |-> {"authorization_challenge", "refresh_token", "implicit", "client_credentials"},
    pkce |-> TRUE, uris |-> Uris],
   [boxes |-> {"password"}, pkce |-> FALSE, uris |-> {}]}

TwoLists == {{}, {2}}
ThreeLists == {{}, {1, 2}, {2}}

Permuted == Permutations(Requests) \cup Permutations(Users)
=============================================================================
