SPECIFICATION CleanupSpec
CONSTANTS
    m1 = m1
    m2 = m2
    m3 = m3
    a = a
    b = b
    c = c
    NoFile = NoFile
    Invalid = Invalid
    Newer = Newer
    AnyBase = AnyBase
    Snapshots = {m1, m2, m3}
    Shards = {a, b, c}
    Refs <- MCRefs
    PeerManifests <- CleanupManifests
    PeerAlternates <- CleanupAlternates
    PeerShards = {}
    MaxFiles = 1
    Bounds <- CleanupBounds
INVARIANTS
    RemovesOnlyOrphans
PROPERTIES
    CallsEnd
CONSTRAINT OneTrouble
CHECK_DEADLOCK FALSE
