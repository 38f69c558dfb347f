\* Two requests at once of one session, each with its own copy of it.
CONSTANTS
  alice = alice
  bob = bob
  a1 = a1
  b1 = b1
  Requests = {h1, h2}
  Sessions = {s1}
  Clients = {c1}
  Users = {alice, bob}
  Identities = {a1, b1}
  Owner <- OneOwner
  Credentials <- OneCredential
  Editable = {bob}
  Null = Null
SPECIFICATION Spec
SYMMETRY HandlerSymmetry
CONSTANT SharedObjects = FALSE
INVARIANTS TypeOK CodeIsEarned
