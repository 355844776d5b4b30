SPECIFICATION FairSpec
CONSTANTS
    o1 = o1
    o2 = o2
    Orders = {o1, o2}
    CreatedAt <- TwoCreated
    Amounts <- TwoAmounts
    ActionOf <- TwoActions
    Actions = {"GET", "PUT"}
    UserActions = {"GET", "PUT"}
    Keys <- SettledKeys
    BatchSize = 1
    Flushers = {"worker", "chore", "close"}
    Hour = 2
    Grace = 1
    Lifetime = 4
    SenderTimeout = 1
    ArchiveAge = 7
    MaxTime = 7
    MaxFaults = 1
INVARIANTS
    SentFileComplete
    PaidOnce
    Accounted
    OneFlush
    ClosedEmpty
PROPERTIES
    EverythingSettled
