\* Two requests, two users of one app with one client, two scopes.
CONSTANTS
  None = none
  Requests = {h1, h2}
  Users = {u1, u2}
  Apps = {a1}
  ClientIds = {k1}
  Uris = {x}
  Forms <- TwoForms
  Scopes = {1, 2}
  ScopeLists <- TwoLists
  Editable = {a1}
  AccessExpiry = 1
  RefreshExpiry = 2
  MaxToken = 1
  MaxTime = 2
SYMMETRY Permuted
SPECIFICATION Spec
INVARIANTS TypeOK PermissionsMatchTokens ActiveIsListed ClientMatchesForm
