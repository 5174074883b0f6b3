SPECIFICATION CommitSpec
CONSTANTS
    m1 = m1
    m2 = m2
    m3 = m3
    a = a
    b = b
    c = c
    NoFile = NoFile
    Invalid = Invalid
    Newer = Newer
    AnyBase = AnyBase
    Snapshots = {m1, m2, m3}
    Shards = {a, b, c}
    Refs <- MCRefs
    PeerManifests <- CommitManifests
    PeerAlternates = {}
    PeerShards = {b}
    MaxFiles = 1
    Bounds <- CommitBounds
INVARIANTS
    ActiveComplete
PROPERTIES
    ImplementsRegister
    CommittedLoads
CONSTRAINT TwoTroubles
CHECK_DEADLOCK FALSE
