SPECIFICATION Spec
CONSTANTS
  StackBase = 16
  Top = 90
  Restricted = FALSE
  Programs <- MCSkipping
  Inputs <- MCInputs
INVARIANT LevelOnReturn
