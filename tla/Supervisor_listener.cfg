SPECIFICATION Spec
CONSTANTS
  Size = 2
  MaxFaults = 2
INVARIANT ListenersClosed
CHECK_DEADLOCK FALSE
