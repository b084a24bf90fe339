SPECIFICATION ResolutionSpec
CONSTANTS
  TypeOf <- Types
  Declarations <- MCDeclarations
  Calls <- MCCalls
  Expected <- MCExpected
  MaxOverloads = 3
INVARIANTS
  AnswerIsLeast
  BestKindFirst
  OneSymbolEach
CHECK_DEADLOCK FALSE
