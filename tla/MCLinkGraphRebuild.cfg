SPECIFICATION Spec
CONSTANTS
    p = p
    q = q
    x = x
    y = y
    bare = bare
    path = path
    absent = absent
    nil = nil
    Proc = {p, q}
    Note = {x, y}
    Target <- MCTarget
    Tried <- MCTried
    Named <- MCNamed
    LinkLists <- MCLinkLists
    Moves <- MCMoves
    Absent = absent
    Nil = nil
    Retention = 2
    Serial = TRUE
    MaxGen = 3
    MaxFail = 0
    MaxCrash = 1
INVARIANT SeenIsApplied
CHECK_DEADLOCK FALSE
