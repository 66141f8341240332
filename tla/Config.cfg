SPECIFICATION Spec
CONSTANTS
  MaxPort = 5
  DefaultLimit = 3
  HardLimit = 4
  DefaultTarget = 2
  Unset = Unset
  Automatic = Automatic
  Files <- MCFiles
  Commands <- MCCommands
INVARIANTS NoRuleIgnored ShownIsEnforced
PROPERTY RewriteKeepsTunnel
CHECK_DEADLOCK FALSE
