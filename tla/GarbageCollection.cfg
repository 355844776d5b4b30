SPECIFICATION Spec
CONSTANTS
    s = s
    t = t
    p = p
    q = q
    Segments = {s, t}
    Pieces = {p, q}
    Old = {t}
    SegmentOf <- PieceOfEach
    MaxCommitInterval = 1
    MaxTimeSkew = 2
    Offset <- Late
    TrashExpiry = 1
    FalsePositives <- Mistakes
    MaxFilters = 2
    MaxTime = 2
INVARIANTS
    LivePiecesKept
PROPERTIES
    TrashKept
CHECK_DEADLOCK FALSE
