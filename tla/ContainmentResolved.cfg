SPECIFICATION FairSpec
CONSTANTS
    p1 = p1
    p2 = p2
    n = n
    a1 = a1
    w1 = w1
    w2 = w2
    Pieces = {p1, p2}
    Nodes = {n}
    NodeOf <- AtOneNode
    Auditors = {a1}
    Workers = {w1}
    RetryInterval = 1
    MaxReverifyCount = 2
    MaxRetries = 0
    MaxFaults = 1
    Followed = {}
PROPERTIES
    MarkFollowsQueue
    JobResolved
