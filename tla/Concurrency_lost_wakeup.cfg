CONSTANTS
    f1 = f1
    d1 = d1
    d2 = d2
    i1 = i1
    i2 = i2
    Futures = {f1, d1, d2}
    NoFuture = NoFuture
    Ids = {i1, i2}
    MaxConcurrency = 1
    Detached = {d1, d2}
    CallMayPanic = FALSE
SPECIFICATION Spec
SYMMETRY Symmetry
INVARIANTS
    NoLostWakeup
