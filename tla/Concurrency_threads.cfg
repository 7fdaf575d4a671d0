CONSTANTS
    f1 = f1
    d1 = d1
    d2 = d2
    i1 = i1
    Futures = {f1, d1, d2}
    NoFuture = NoFuture
    Ids = {i1}
    MaxConcurrency = 2
    Detached = {d1, d2}
    CallMayPanic = TRUE
SPECIFICATION FairSpec
INVARIANTS
    LimitRespected
PROPERTIES
    CancelTakesEffect
