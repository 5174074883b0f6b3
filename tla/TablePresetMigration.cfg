SPECIFICATION Spec
CONSTANTS
    a = a
    b = b
    Presets = {a, b}
    Default = a
    NoOne = NoOne
    Bounds <- MCBounds
INVARIANTS
    VersionMeansMoved
    ContentKept
PROPERTIES
    Completes
CHECK_DEADLOCK FALSE
