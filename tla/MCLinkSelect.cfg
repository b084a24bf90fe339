SPECIFICATION FairSpec
CONSTANTS
  Symbols <- MCSymbols
  Inputs <- MCInputs
INVARIANTS
  NothingMissed
  EachForAReason
  Bound
PROPERTIES
  SelectsClosure
  Ends
CHECK_DEADLOCK FALSE
