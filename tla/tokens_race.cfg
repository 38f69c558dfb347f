CONSTANTS
  r1 = r1
  r2 = r2
  c1 = c1
  c2 = c2
  Nil = Nil
  Requests = {r1, r2}
  Users = {u1}
  Clients = {c1}
  BrowserSessions = {s1}
  Scopes = {profile}
  RedirectUris = {web}
  Verifiers = {}
  Digest <- MCDigest
  Registered <- EveryUri
  Allowed <- CodeGrants
  RequirePkce = {}
  Editable = {}
  DurableSessions = TRUE
  CodeExpiry = 0
  AccessExpiry = 1
  RefreshExpiry = 1
  MaxSecrets = 3
  MaxTime = 0
SYMMETRY HandlerSymmetry
SPECIFICATION Spec
INVARIANTS
  TypeOK
  SpentSecretsAreGone
  OneChildPerHandler
PROPERTIES
  ImplementsLedger
