SPECIFICATION FairSpec
CONSTANTS
  Programs <- MCPrograms
  MaxPass = 12
INVARIANTS
  ShortFormsFit
  StableLayout
  LeastShortening
PROPERTIES
  AddressesOnlyFall
  ReachesFixpoint
CHECK_DEADLOCK FALSE
