SPECIFICATION MachineSpec
CONSTANTS
  Byte = 12
  Links <- MCLinks
INVARIANTS
  BlocksDisjoint
  ReferencesLand
  OverflowIffFull
  ReadyForMain
PROPERTIES
  StartupConfined
  Boots
CHECK_DEADLOCK FALSE
