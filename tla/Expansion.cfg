SPECIFICATION FairSpec
CONSTANTS
  Target = 3
  FirstBatch = 2
  MaxExtra = 2
  Slots = 8
  MaxFaults = 3
INVARIANTS TypeOK PoolWithinTarget NeverRejoins
PROPERTIES HealthyUntouched FillsUp
CHECK_DEADLOCK FALSE
