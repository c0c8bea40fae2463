SPECIFICATION Spec
CONSTANTS
    p = p
    q = q
    x = x
    y = y
    bare = bare
    path = path
    absent = absent
    nil = nil
    Proc = {p, q}
    Note = {x, y}
    Target <- MCTarget
    Tried <- MCTried
    Named <- MCNamed
    LinkLists <- MCLinkLists
    Moves <- MCMoves
    Absent = absent
    Nil = nil
    Retention = 2
    Serial = FALSE
    MaxGen = 3
    MaxFail = 0
    MaxCrash = 0
PROPERTY NoEdgeOverwritten
CHECK_DEADLOCK FALSE
