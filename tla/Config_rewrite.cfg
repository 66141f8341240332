SPECIFICATION Spec
CONSTANTS
  MaxPort = 5
  DefaultLimit = 3
  HardLimit = 4
  DefaultTarget = 2
  Unset = Unset
  Automatic = Automatic
  Files <- MCFiles
  Commands <- MCCommands
PROPERTY RewriteKeepsPolicy
CHECK_DEADLOCK FALSE
