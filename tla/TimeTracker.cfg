SPECIFICATION Spec
CONSTANTS
    a = a
    b = b
    Tasks = {a, b}
    NoTask = NoTask
    Gone = Gone
    MaxTime = 1
    transitions = 3
    faults = 2
    departures = 1
    Bounds <- MCBounds
INVARIANTS
    CountedOnce
PROPERTIES
    StopSaves
    TransitionsEnd
CHECK_DEADLOCK FALSE
