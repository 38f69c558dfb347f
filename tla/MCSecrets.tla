------------------------------ MODULE MCSecrets ------------------------------
(* Small instances of Secrets for TLC.                                      *)
EXTENDS Secrets, TLC

CONSTANTS u1, u2, i1, i2, i3

\* Two identities of one user, and one of another
TwoUsers == i1 :> u1 @@ i2 :> u1 @@ i3 :> u2

Permuted == Permutations(Requests) \cup Permutations({i1, i2})
=============================================================================
