SPECIFICATION Spec
CONSTANTS
    p1 = p1
    p2 = p2
    n = n
    a1 = a1
    w1 = w1
    w2 = w2
    Pieces = {p1, p2}
    Nodes = {n}
    NodeOf <- AtOneNode
    Auditors = {a1}
    Workers = {w1, w2}
    RetryInterval = 1
    MaxReverifyCount = 2
    MaxRetries = 1
    MaxFaults = 1
    Followed = {p1, p2}
INVARIANTS
    TypeOK
    LeaseHeld
    CountedOnce
SYMMETRY Similar
