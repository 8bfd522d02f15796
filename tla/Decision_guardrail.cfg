SPECIFICATION MCSpec
CONSTANTS
  w1 = w1  w2 = w2  u1 = u1  u2 = u2  d1 = d1  d2 = d2
  NoDevice = "none"
  Settings <- DefaultSettings
  Workers <- TwoWorkers
  Users <- OneUser
  Devices <- OneDevice
  Histories <- Unseen
  Enrolled <- NotEnrolled
  Tags <- AnyTag
  Signals <- SomeSignals
  RuleSets <- OnAndOff
  AdminOps <- Everything
  MaxEvidence = 1
  MaxEvents = 2
  MaxAdmin = 2
INVARIANT GuardrailBlocks
SYMMETRY Alike
CHECK_DEADLOCK FALSE
