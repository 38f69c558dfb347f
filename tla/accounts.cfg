\* Two requests, two more principals than $all, one address, pages of one user.
CONSTANTS
  a = a
  a_upper = a_upper
  Requests = {h1, h2}
  Uris = {a, a_upper}
  NoUri = none
  Canon <- TwoSpellings
  Open = TRUE
  Forms <- FourForms
  PageSize = 1
  MaxId = 3
SYMMETRY Permuted
SPECIFICATION Spec
INVARIANTS TypeOK SetupLeavesAnAdmin SuccessIsComplete ListIsLongEnough
PROPERTIES SetupEnds UriKeepsItsOwner DeactivationLasts
