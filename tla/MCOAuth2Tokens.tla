--------------------------- MODULE MCOAuth2Tokens ---------------------------
(* Small instances of OAuth2Tokens for TLC.                                 *)
EXTENDS OAuth2Tokens, TLC

CONSTANTS r1, r2, c1, c2

HandlerSymmetry == Permutations(Requests)

MCDigest == [v \in Verifiers |-> <<"sha256", v>>]

AllGrants == TokenGrants \cup {"refresh_token", "authorization_challenge"}

\* Every client may use every flow and may redirect everywhere.
EveryGrant == [c \in Clients |-> AllGrants]
EveryUri == [c \in Clients |-> RedirectUris]

\* Grants that live off a principal alone are left to the other runs.
CodeGrants == [c \in Clients |-> {"authorization_code", "refresh_token", "authorization_challenge"}]
=============================================================================
