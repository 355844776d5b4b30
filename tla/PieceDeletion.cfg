SPECIFICATION FairSpec
CONSTANTS
    a = a
    b = b
    m = m
    n = n
    Calls = {a, b}
    Nodes = {m, n}
    Requests <- BothAndFirst
    Size <- Sizes
    MaxPiecesPerBatch = 2
    MaxPiecesPerRequest = 1
    MaxConcurrency = 1
    MaxConcurrentPieces = 3
    SuccessPercent = 75
    MaxWorkers = 2
    Stops = TRUE
INVARIANTS
    JobsResolvedOnce
    OneHandlerPerNode
PROPERTIES
    CallsSettle
CHECK_DEADLOCK FALSE
