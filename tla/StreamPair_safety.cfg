SPECIFICATION Spec
CONSTANTS
  Window = 2
  InboxCap = 2
  OpenerChunks = 3
  TargetChunks = 1
  Chunks <- MCChunks
  Faults = {"write", "session"}
INVARIANTS WindowConserved DataNeverWaitsForApplication NoOrphanAtOpener
PROPERTY ImplementsPipe
CHECK_DEADLOCK FALSE
