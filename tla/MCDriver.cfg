SPECIFICATION Spec
CONSTANTS
  Commands <- MCCommands
  FirstCap = 2
  Unknown = Unknown
INVARIANTS
  FlowSound
  AllBuilt
PROPERTIES
  EndsClean
CHECK_DEADLOCK FALSE
