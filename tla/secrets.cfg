\* Two requests, a user with two mail addresses for MFA and one with another; two codes,
\* two tokens or one of each.
CONSTANTS
  u1 = u1
  u2 = u2
  i1 = i1
  i2 = i2
  i3 = i3
  Requests = {h1, h2}
  Users = {u1, u2}
  Identities = {i1, i2, i3}
  Owner <- TwoUsers
  MfaIdentities = {i1, i2}
  MaxSecrets = 2
  None = none
SYMMETRY Permuted
SPECIFICATION Spec
INVARIANTS TypeOK VerifiedWasProven
PROPERTIES SpentStaysSpent
