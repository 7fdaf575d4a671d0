CONSTANTS
    r1 = r1
    r2 = r2
    a1 = a1
    Requests = {r1, r2}
    Requesters = {a1}
    Nobody = Nobody
    IdLimit = 1
    InCapacity = 1
    OutCapacity = 1
    MaxReplies = 1
    KeepSockets = TRUE
    MaxConcurrency = 1
    MaxNotice = 1
    MaxBad = 0
    MaxBreak = 1
    Budget <- MCBudget
SPECIFICATION FairSpec
INVARIANTS
    TasksHoldTokens
PROPERTIES
    MiddlewareSpec
    LoopSpec
    CancelledIsAnswered
    ServedOrFull
\* The loop stops for good and the environment runs out of things to do.
CHECK_DEADLOCK FALSE
