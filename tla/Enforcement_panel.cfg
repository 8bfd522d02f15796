SPECIFICATION MCSpec
CONSTANTS
  u1 = u1
  Users <- OneUser
  Threshold = 1
  Increment = 1
  PlainLimit = 0
  BatchLimit = 2
  ModeInLiveRules = TRUE
  MaxAttempts = 2
  Requests <- NoRequests
  MaxUsed = 1
  MaxStrikes = 2
  MaxLosses = 2
  MaxSwitches = 2
  MaxAdmin = 0
INVARIANTS StaleModeWindow AppliedTookEffect RestrictionIsRecorded
PROPERTIES JobsSettle BanReachesPanel
CHECK_DEADLOCK FALSE
