CONSTANTS
    r1 = r1
    r2 = r2
    Requests = {r1, r2}
    Requesters = {}
    Nobody = Nobody
    IdLimit = 1
    InCapacity = 1
    OutCapacity = 1
    MaxReplies = 1
    KeepSockets = TRUE
    MaxConcurrency = 1
    MaxNotice = 0
    MaxBad = 0
    MaxBreak = 0
    Budget <- MCBudget
SPECIFICATION FairSpec
PROPERTIES
    ServedUnderLimit
\* The loop stops for good and the environment runs out of things to do.
CHECK_DEADLOCK FALSE
