SPECIFICATION Spec
CONSTANTS
    f = f
    g = g
    Fields = {f, g}
    Nothing = Nothing
    edits = 2
    pinChanges = 1
    syncs = 1
    reloads = 1
    faults = 1
    Bounds <- MCBounds
INVARIANTS
    PinsKept
    UpdatesSurvive
    AgreeAtRest
    NeverStuck
PROPERTIES
    UnreadIsKept
CHECK_DEADLOCK FALSE
