SPECIFICATION MCSpec
CONSTANTS
  s1 = s1
  s2 = s2
  d1 = d1
  a1 = a1
  a2 = a2
  Scopes <- MCScopes
  Devices <- MCDevices
  DeviceOf <- MCDeviceOf
  Agents <- MCAgents
  Legacy <- MCLegacy
  Gap = 1
  MaxSightings = 3
  MaxSeconds = 2
  MaxFaults = 1
  StaleAfter = 1
  RefreshInterval = 1
  OverviewInterval = 3
  MaxDepth = 1
  MaxTime = 3
SYMMETRY Alike
CHECK_DEADLOCK FALSE
INVARIANTS CurrentProfiles HitsAddUp FreshOrMarked
