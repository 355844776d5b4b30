SPECIFICATION FairSpec
CONSTANTS
    a = a
    b = b
    c = c
    Locations = {a, b}
    BucketOf <- OneBucket
    KeyOf <- KeyOrder
    Positions = {0, 1}
    MaxStream = 2
    MaxVersion = 2
    MaxTime = 2
    MaxPieces = 1
    Attempts = {1}
    Handshakes = {"copy"}
    Kinds = {"remote"}
    Expirations = {1}
    ZombieAfter = 1
    InactiveFor = 1
    BatchSize = 2
    ListLimit = 1
    MixedKinds = FALSE
    CommitRace = FALSE
    MoveCopyRace = FALSE
    TxRetries = FALSE

INVARIANTS
    SegmentsComplete
    Readable
PROPERTIES
    Collected
    ImplementsObjectStore
