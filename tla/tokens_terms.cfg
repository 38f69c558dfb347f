CONSTANTS
  r1 = r1
  r2 = r2
  c1 = c1
  c2 = c2
  Nil = Nil
  Requests = {r1}
  Users = {u1}
  Clients = {c1, c2}
  BrowserSessions = {s1}
  Scopes = {profile}
  RedirectUris = {web, app}
  Verifiers = {v1}
  Digest <- MCDigest
  Registered <- EveryUri
  Allowed <- EveryGrant
  RequirePkce = {c1}
  Editable = {u1}
  DurableSessions = FALSE
  CodeExpiry = 0
  AccessExpiry = 1
  RefreshExpiry = 1
  MaxSecrets = 2
  MaxTime = 1
SPECIFICATION Spec
INVARIANTS
  CodeGrantsWhatWasAuthorized
  CodeTermsWereMet
  RequiredPkceIsProven
  RefreshKeepsTheGrant
