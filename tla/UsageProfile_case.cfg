SPECIFICATION MCSpec
CONSTANTS
  u1 = u1
  Visitors <- MCVisitors
  SubnetOf <- MCSubnetOf
  Thresholds <- MCThresholds
  HistoryLimit = 3
  MaxRows = 4
  MaxMinutes = 3
  Observations <- MCObservations
  CountryOf <- MCCountryOf
  Km <- MCKm
  Located <- MCLocated
  Nowhere = "unknown"
  Panels <- MCPanels
  EventLimit = 3
  Lookback = 1
  RotationLimit = 1
  BurstWindow = 1
  BurstBytes = 3
  MaxObserved = 3
  MaxHours = 2
CHECK_DEADLOCK FALSE
INVARIANTS BurstIsHeaviest SamplesAreMost
PROPERTIES SignalsAccumulate BurstIsRemembered
