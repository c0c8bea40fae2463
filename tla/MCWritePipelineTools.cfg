SPECIFICATION Spec
CONSTANTS
    c1 = c1
    c2 = c2
    nil = nil
    Caller <- MCCaller
    Nil = nil
    MaxPaths = 2
    RootCount = 1
    Changes <- MCChanges
    MaxOps = 1
    MaxFaults = 0
INVARIANTS
    EveryWriteIsRouted
CHECK_DEADLOCK FALSE
