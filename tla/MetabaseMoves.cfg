SPECIFICATION Spec
CONSTANTS
    a = a
    b = b
    c = c
    Locations = {a, b}
    BucketOf <- OneBucket
    KeyOf <- KeyOrder
    Positions = {0}
    MaxStream = 3
    MaxVersion = 3
    MaxTime = 0
    MaxPieces = 1
    Attempts = {1}
    Handshakes = {"copy", "move"}
    Kinds = {"remote", "inline"}
    Expirations = {}
    ZombieAfter = 1
    InactiveFor = 1
    BatchSize = 2
    ListLimit = 1
    MixedKinds = FALSE
    CommitRace = FALSE
    MoveCopyRace = FALSE
    TxRetries = TRUE
SYMMETRY Symmetry
INVARIANTS
    KeysUnique
PROPERTIES
    ImplementsObjectStore
