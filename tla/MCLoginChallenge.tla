-------------------------- MODULE MCLoginChallenge -------------------------
(* An instance of LoginChallenge for TLC: alice and bob, with one address  *)
(* and one factor each.                                                    *)
EXTENDS LoginChallenge, TLC

CONSTANTS alice, bob, a1, b1

OneOwner == (a1 :> alice) @@ (b1 :> bob)

\* With email verification that is two for a new address.
OneCredential == (alice :> {"password"}) @@ (bob :> {"email-otp"})

HandlerSymmetry == Permutations(Requests)
=============================================================================
