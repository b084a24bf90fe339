SPECIFICATION Spec
CONSTANTS
  Byte = 8
  Programs <- MCPrograms
INVARIANTS
  ReadsBack
CHECK_DEADLOCK FALSE
