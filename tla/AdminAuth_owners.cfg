SPECIFICATION Spec
CONSTANTS
  o1 = o1
  o2 = o2
  r1 = r1
  r2 = r2
  Owners <- TwoOwners
  Bypassing <- OneOwner
  Requests <- TwoRequests
  MaxSecrets = 2
  MaxChallenges = 2
  MaxResets = 1
SYMMETRY Alike
INVARIANTS ResetHolds EnrolledOwnersCanAnswer
CHECK_DEADLOCK FALSE
