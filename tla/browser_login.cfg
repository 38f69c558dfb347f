\* One browser; alice may have a TOTP device, bob has a security key.
CONSTANTS
  Requests = {h1, h2}
  Browsers = {b1}
  Users = {alice, bob}
  Keys = {bob}
  Enrolling = {alice}
  Editable = {alice}
  TotpModes = {"disabled", "enabled", "required"}
  WebauthnModes = {"enabled", "required"}
  MaxFailures = 2
  MaxLost = 1
  None = None
SPECIFICATION Spec
SYMMETRY HandlerSymmetry
INVARIANTS TypeOK LoginIsProven CodeGuessesAreBounded
