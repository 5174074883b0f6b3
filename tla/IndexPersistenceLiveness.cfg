SPECIFICATION FairSpec
CONSTANTS
    a = a
    b = b
    Paths = {a}
    NoManifest = NoManifest
    NoJob = NoJob
    Maintenance = TRUE
    Bounds <- LivenessBounds
PROPERTIES
    RecoveryTerminates
    UnloadTerminates
    TimerSaves
CHECK_DEADLOCK FALSE
