SPECIFICATION MCSpec
CONSTANTS
    t1 = t1
    t2 = t2
    A = A
    B = B
    C = C
    Tasks = {t1, t2}
    Taxonomies = {A, B, C}
    None = None
    MaxFailures = 2
    MaxCrashes = 2
    MaxEdits = 2
    MaxCalls = 2
INVARIANTS
    NothingLeftBehind
    TaxonomyFirst
    ClearedIsIndexed
PROPERTIES
    ConflictsPreserved
    RunsEnd
    PendingResumed
CHECK_DEADLOCK FALSE
