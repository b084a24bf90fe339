SPECIFICATION Spec
CONSTANTS
    Regions <- MCRegions
    Ack <- MCAck
    Scratch <- MCScratch
    Scenarios <- MCScenarios
INVARIANTS
    LoadsExactly
    ExitRight
    NotReentered
PROPERTIES
    Transparent
    ArithmeticExact
    HostCallReturns
CHECK_DEADLOCK FALSE
