\* A one-time token is made for an identity of a user who has two.
CONSTANTS
  u1 = u1
  u2 = u2
  i1 = i1
  i2 = i2
  i3 = i3
  Requests = {h1}
  Users = {u1, u2}
  Identities = {i1, i2, i3}
  Owner <- TwoUsers
  MfaIdentities = {i1, i2}
  MaxSecrets = 1
  None = none
SPECIFICATION Spec
INVARIANT TokenVerifiesItsIdentity
