SPECIFICATION MCSpec
CONSTANTS
    t = t
    x = x
    y = y
    Tasks = {t}
    Sources = {x, y}
    Owner <- MCOwner
    Local <- MCLocal
    Window = 1
    Retention = 3
    Delays <- MCDelays
    MaxDelay = 2
    MaxTime = 3
    MaxQueue = 1
    Bounds <- MCBounds
    NoFile = NoFile
INVARIANTS
    NothingStranded
    DestroyedIsQuiet
PROPERTIES
    ToldOnce
    ReopenedSilent
    HeldNotLost
CHECK_DEADLOCK FALSE
