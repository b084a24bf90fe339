SPECIFICATION Spec
CONSTANTS
  StackBase = 16
  Top = 90
  Restricted = FALSE
  Programs <- MCSwap
  Inputs <- MCInputs
INVARIANT ResultsRight
