SPECIFICATION Spec
CONSTANTS
    c1 = c1
    c2 = c2
    nil = nil
    Caller <- MCCaller
    Nil = nil
    MaxPaths = 2
    RootCount = 2
    Changes <- MCChanges
    MaxOps = 2
    MaxFaults = 1
INVARIANTS
    TypeOK
    LogInOrder
    OnRecord
    NobodyIsStuck
PROPERTIES
    CleanRouteIsSeen
    ImplementsVaultTurns
SYMMETRY Interchangeable
CHECK_DEADLOCK FALSE
