SPECIFICATION FairSpec
CONSTANTS
  Controllers = 2
  Candidates = 1
  Texts = 2
  MaxPending = 1
INVARIANTS ConnectionConsistent RelayVerified OpenNotMissed TextConserved
PROPERTY ReplacementSeen
CHECK_DEADLOCK FALSE
