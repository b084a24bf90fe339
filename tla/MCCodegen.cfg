SPECIFICATION Spec
CONSTANTS
  StackBase = 16
  Top = 160
  Restricted = TRUE
  Programs <- MCPrograms
  Inputs <- MCInputs
INVARIANTS ResultsRight FrameAgrees LevelOnReturn
PROPERTY Finishes
