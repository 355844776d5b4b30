SPECIFICATION FairSpec
CONSTANTS
    e = e
    a = a
    b = b
    s1 = s1
    s2 = s2
    s3 = s3
    Nodes = {e, a, b}
    Exiting = {e}
    Segments = {s1, s3}
    Numbers = {1, 2}
    InitialPieces <- Spared
    Cheats = {}
    Lost = {}
    Optimal <- Shares
    MaxFailures = 2
    MaxSends = 2
    MaxPercentage = 50
    Ranged = FALSE
    Sleepers = {e}
    Flaky = TRUE
    MaxFaults = 1
    MaxRepairs = 1
PROPERTIES
    ExitEnds
CHECK_DEADLOCK FALSE
