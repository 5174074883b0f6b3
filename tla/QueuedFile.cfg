SPECIFICATION MCSpec
CONSTANTS
    o1 = o1
    o2 = o2
    o3 = o3
    k1 = k1
    Ops = {o1, o2, o3}
    Keys = {k1}
    None = None
    Torn = Torn
    MaxFailures = 2
    Unloads = TRUE
INVARIANTS
    InOrder
    LastWins
PROPERTIES
    ImplementsAtomicFile
    DrainLeavesNothing
    WritesEnd
CHECK_DEADLOCK FALSE
