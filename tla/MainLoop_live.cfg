CONSTANTS
    r1 = r1
    r2 = r2
    a1 = a1
    Requests = {r1, r2}
    Requesters = {a1}
    Nobody = Nobody
    IdLimit = 1
    InCapacity = 1
    OutCapacity = 1
    MaxReplies = 1
    KeepSockets = FALSE
    MaxNotify = 1
    MaxEmit = 1
    MaxNotice = 0
    MaxStray = 0
    MaxBad = 1
    MaxBreak = 1
    Budget <- MCBudget
SPECIFICATION FairSpec
PROPERTIES
    RequestsServed
    RequestersResolved
    FedIsWritten
\* The loop stops for good and the environment runs out of things to do.
CHECK_DEADLOCK FALSE
