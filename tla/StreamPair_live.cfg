SPECIFICATION FairSpec
CONSTANTS
  Window = 1
  InboxCap = 1
  OpenerChunks = 2
  TargetChunks = 0
  Chunks <- MCChunks
  Faults = {"reject", "dial", "write", "timeout"}
PROPERTIES NeitherEndOutlives HalfClosedEnds EverythingArrives
CHECK_DEADLOCK FALSE
