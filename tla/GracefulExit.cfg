SPECIFICATION Spec
CONSTANTS
    e = e
    a = a
    b = b
    s1 = s1
    s2 = s2
    s3 = s3
    Nodes = {e, a, b}
    Exiting = {e}
    Segments = {s1, s2}
    Numbers = {1, 2}
    InitialPieces <- Missing
    Cheats = {e}
    Lost <- LostPieces
    Optimal <- Shares
    MaxFailures = 2
    MaxSends = 2
    MaxPercentage = 50
    Ranged = FALSE
    Sleepers = {}
    Flaky = FALSE
    MaxFaults = 1
    MaxRepairs = 1
INVARIANTS
    TypeOK
    NothingForgotten
    KeptUntilMoved
    HoldersStore
    OutcomesAgree
PROPERTIES
    OutcomeKept
CHECK_DEADLOCK FALSE
