SPECIFICATION FairSpec
CONSTANTS
  e1 = e1
  e2 = e2
  w1 = w1
  w2 = w2
  Events <- TwoEvents
  Malformed <- JustE2
  Workers <- TwoWorkers
  BatchLimit = 2
  MaxAttempts = 2
  Bounds <- MCBounds
INVARIANTS EffectsOnce RowsAreSound
PROPERTIES Delivery ReopenedOnlyAfterEffects Drains
CHECK_DEADLOCK FALSE
