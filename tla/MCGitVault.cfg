SPECIFICATION FairSpec
CONSTANTS
    a = a
    b = b
    d = d
    v = v
    absent = absent
    unborn = unborn
    nil = nil
    File <- MCFile
    Path <- MCFile
    Below <- MCBelow
    Content = {v}
    Absent = absent
    Unborn = unborn
    Nil = nil
    MaxStage = 2
    MaxCrash = 1
    MaxAct = 2
INVARIANTS
    TypeOK
    StagedWorkRecorded
PROPERTIES
    QuietPeriod
    RecoveryComplete
    ImplementsVaultHistory
    EventuallyCommitted
CHECK_DEADLOCK FALSE
