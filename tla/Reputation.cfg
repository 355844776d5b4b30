SPECIFICATION FairSpec
CONSTANTS
    auditor = auditor
    repairer = repairer
    c1 = c1
    c2 = c2
    Processes = {auditor, repairer}
    Calls = {c1, c2}
    ProcessesOf <- OneAndEither
    Informed = {c2}
    TimeLimited = {c1, c2}
    Reported = {"success", "failure"}
    InitialAlpha = 1
    InitialBeta = 0
    AuditDQ = 50
    UnknownAuditDQ = 50
    AuditCount = 2
    MaxRetries = 1
    MaxFaults = 1
INVARIANTS
    ResultsAccounted
    DisqualificationTold
PROPERTIES
    AuditsSettle
CHECK_DEADLOCK FALSE
