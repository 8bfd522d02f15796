SPECIFICATION Spec
CONSTANTS
  Users = {u1}
  Threshold = 1
  Increment = 1
  PlainLimit = 0
  BatchLimit = 2
  ModeInLiveRules = FALSE
  MaxAttempts = 1
  Requests = {}
  MaxUsed = 2
  MaxStrikes = 2
  MaxLosses = 0
  MaxSwitches = 0
  MaxAdmin = 0
INVARIANT EnforceModeSends
CHECK_DEADLOCK FALSE
