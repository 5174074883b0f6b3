SPECIFICATION Spec
CONSTANTS
    a = a
    b = b
    Paths = {a, b}
    NoManifest = NoManifest
    NoJob = NoJob
    Maintenance = TRUE
    Bounds <- UnchangedBounds
SYMMETRY FileSymmetry
PROPERTIES
    UnchangedProvesActive
CHECK_DEADLOCK FALSE
