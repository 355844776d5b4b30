SPECIFICATION FairSpec
CONSTANTS
    a = a
    b = b
    Observers = {a, b}
    MaxSegments = 1
    Failures = TRUE
INVARIANTS
    AnsweredOnce
PROPERTIES
    NilOnlyAfterFullPass
    CallsReturn
