CONSTANTS
    r1 = r1
    r2 = r2
    a1 = a1
    a2 = a2
    Requests = {r1, r2}
    Requesters = {a1, a2}
    Nobody = Nobody
    IdLimit = 2
    InCapacity = 1
    OutCapacity = 1
    MaxReplies = 2
    KeepSockets = TRUE
    MaxNotify = 0
    MaxEmit = 1
    MaxNotice = 1
    MaxStray = 1
    MaxBad = 1
    MaxBreak = 1
    Budget <- MCBudget
SPECIFICATION Spec
SYMMETRY Symmetry
INVARIANTS
    TypeOK
    RequestInOnePlace
    SocketOrder
    WaitersReachable
    OwnReply
    BreakFlushes
\* The loop stops for good and the environment runs out of things to do.
CHECK_DEADLOCK FALSE
