\* Three overlapping tries on an account that locks after two failures.
CONSTANTS
  Requests = {h1, h2, h3}
  Users = {alice}
  MaxFailedAttempts = 2
  MaxCount = 4
  MaxLost = 1
  Nobody = Nobody
SPECIFICATION FairSpec
INVARIANTS TypeOK NoFailureIsOverwritten GuessesAreBounded
PROPERTIES EveryTryEnds
