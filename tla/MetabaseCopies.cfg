SPECIFICATION Spec
CONSTANTS
    a = a
    b = b
    c = c
    Locations = {a, b, c}
    BucketOf <- OneBucket
    KeyOf <- KeyOrder
    Positions = {0}
    MaxStream = 4
    MaxVersion = 2
    MaxTime = 0
    MaxPieces = 2
    Attempts = {1}
    Handshakes = {"copy"}
    Kinds = {"remote"}
    Expirations = {}
    ZombieAfter = 1
    InactiveFor = 1
    BatchSize = 2
    ListLimit = 1
    MixedKinds = FALSE
    CommitRace = FALSE
    MoveCopyRace = FALSE
    TxRetries = FALSE
SYMMETRY Symmetry
INVARIANTS
    Readable
    AncestorIsOriginal
    DeletedPiecesUnreferenced
    EveryObjectDeletable
PROPERTIES
    ContentPreserved
