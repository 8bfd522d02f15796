SPECIFICATION Spec
CONSTANTS
  a1 = a1  a2 = a2  w1 = w1  w2 = w2  s1 = s1  s2 = s2  ip1 = ip1  p1 = p1
  Scopes <- TwoScopes
  Addresses <- OneAddress
  AddressOf <- SameAddress
  Patterns <- OnePattern
  Workers <- TwoWorkers
  Agents <- TwoAgents
  MinSupport = 1
  MinPrecision = 90
  AdminOps <- Everything
  MaxEvents = 2
  MaxResolutions = 2
  MaxSuggestions = 1
  MaxAdmin = 2
INVARIANT SplitOnlyByRace
INVARIANT ClosedAsJudged
INVARIANT LabelsFollowVerdicts
INVARIANT OverrideIsLastWord
INVARIANT AcceptedStaysActive
SYMMETRY AgentSymmetry
CHECK_DEADLOCK FALSE
