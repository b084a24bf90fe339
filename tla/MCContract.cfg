SPECIFICATION Spec
CONSTANTS
    Programs <- MCPrograms
    Memory <- MCMemory
    TopAddress <- MCTopAddress
    RecordsOfFunction <- FunctionRecords
    RecordsOfGlobal <- GlobalRecords
INVARIANTS
    ComponentsRight
    AcceptedAcyclic
    AcceptedAgree
    RefusedForCause
