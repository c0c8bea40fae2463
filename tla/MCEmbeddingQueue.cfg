SPECIFICATION FairSpec
CONSTANTS
    x = x
    y = y
    bg = bg
    tool = tool
    g = g
    h = h
    absent = absent
    nil = nil
    File = {x, y}
    Content <- MCContent
    Moves <- MCMoves
    Absent = absent
    Nil = nil
    Drainer = {bg, tool}
    Background = bg
    Alone = TRUE
    MaxChunks = 2
    MaxEdit = 3
    MaxRebuild = 1
    MaxFail = 1
    MaxStop = 1
INVARIANTS
    TypeOK
    UnqueuedIsFresh
PROPERTIES EventuallyFresh ImplementsFreshIndex
CHECK_DEADLOCK FALSE
