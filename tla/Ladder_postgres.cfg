SPECIFICATION MCSpec
CONSTANTS
  u1 = u1  w1 = w1  w2 = w2
  Users <- OneUser
  i1 = i1  i2 = i2
  Ips <- TwoIps
  Workers <- TwoWorkers
  Serialized = FALSE
  SettingsInUse <- Trial
  UsageThreshold = 1
  ThresholdCount = 1
  Tolerance = 1
  WindowSeconds = 1
  CooldownSeconds = 1
  IgnoreSeconds = 1
  Durations <- OneDuration
  MaxClock = 3
  MaxEvents = 3
  MaxChanges = 1
  Keys <- MCKeys
  Lists <- MCLists
  ApiIps = {"ip1", "ip2", "ip3"}
  MaxCounts = 3
  MaxMidnights = 2
  MaxFailures = 1
  LineTags = {"LTE", "WIFI"}
  Lookup = "ipinfo"
  UnsureIps = {"ip1"}
  Admins = {"owner"}
  CacheLife = 1
  AnswerLife = 2
  MaxDays = 2
  MaxAnswers = 2
  MaxClears = 1
  MaxToggles = 1
INVARIANTS CooldownsAreKept StrikesAreNumbered NothingIsOverlooked QuestionsAreAsked AnswersStand
PROPERTY TriggersAreEarned
CHECK_DEADLOCK FALSE
SYMMETRY Symmetry
