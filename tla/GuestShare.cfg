SPECIFICATION FairSpec
CONSTANTS
  c1 = c1
  Controls = {c1}
  NoControl = NoControl
  Depth = 2
  MaxPushes = 4
  MaxCodes = 2
INVARIANTS NewestPushRuns ShareFileCurrent
PROPERTY PushesServed
CHECK_DEADLOCK FALSE
