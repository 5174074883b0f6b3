SPECIFICATION Spec
CONSTANTS
    a = a
    b = b
    Paths = {a, b}
    NoManifest = NoManifest
    NoJob = NoJob
    Maintenance = FALSE
    Bounds <- SessionBounds
SYMMETRY FileSymmetry
INVARIANTS
    NoChangeForgotten
    IndexCatchesUp
PROPERTIES
    UnloadIsAccounted
CONSTRAINT OneTrouble
CHECK_DEADLOCK FALSE
