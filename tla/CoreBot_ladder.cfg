SPECIFICATION MCSpec
CONSTANTS
  u1 = u1
  Users <- OneUser
  Ips = {"ip1"}
  Tags = {"tag1", "tag2"}
  Lines <- TwoTags
  Tasks = {1, 2}
  UsageThreshold = 0
  WarningTimeout = 1
  WarningsBeforeBan = 1
  Durations <- TwoDurations
  ForgiveAfter = 2
  TrackerIdle = 1
  LockLimit = 1000
  StrikeModes = {"CAP"}
  Approvals = {TRUE, FALSE}
  ConfigDry = FALSE
  ConfigExempt <- Nobody
  Commands <- SomeCommands
  StrikeCounts = {2}
  MaxClock = 2
  MaxLines = 3
  MaxDisturbances = 1
INVARIANTS RestrictionHasEnd StrikesAreEarned
PROPERTY RestrictionsEnd
CHECK_DEADLOCK FALSE
