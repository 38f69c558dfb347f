\* One request at a time is enough.
CONSTANTS
  None = none
  Requests = {h1}
  Users = {u1, u2}
  Apps = {a1}
  ClientIds = {k1}
  Uris = {x, y}
  Forms <- TwoForms
  Scopes = {1, 2}
  ScopeLists <- ThreeLists
  Editable = {a1}
  AccessExpiry = 1
  RefreshExpiry = 2
  MaxToken = 1
  MaxTime = 1
SPECIFICATION Spec
PROPERTY ConsentIsOnesOwn
