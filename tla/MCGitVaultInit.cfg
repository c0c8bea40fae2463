SPECIFICATION Spec
CONSTANTS
    a = a
    b = b
    d = d
    v = v
    absent = absent
    unborn = unborn
    nil = nil
    File <- MCFile
    Path <- MCFile
    Below <- MCBelow
    Content = {v}
    Absent = absent
    Unborn = unborn
    Nil = nil
    MaxStage = 2
    MaxCrash = 1
    MaxAct = 2
PROPERTY DebounceAcrossInit
CHECK_DEADLOCK FALSE
