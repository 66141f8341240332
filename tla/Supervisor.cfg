SPECIFICATION FairSpec
CONSTANTS
  Size = 2
  MaxFaults = 2
INVARIANTS TypeOK SessionsClosed FallbackJustified
PROPERTIES SignalEnds LossEndsAttempt Recovers
CHECK_DEADLOCK FALSE
