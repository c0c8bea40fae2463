SPECIFICATION Spec
CONSTANTS
    a = a
    b = b
    d = d
    v = v
    absent = absent
    unborn = unborn
    nil = nil
    File <- MCFile
    Path <- MCPathWithDir
    Below <- MCBelowWithDir
    Content = {v}
    Absent = absent
    Unborn = unborn
    Nil = nil
    MaxStage = 2
    MaxCrash = 1
    MaxAct = 2
PROPERTY RecoveryComplete
CHECK_DEADLOCK FALSE
