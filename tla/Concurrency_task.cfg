CONSTANTS
    f1 = f1
    f2 = f2
    f3 = f3
    f4 = f4
    f5 = f5
    i1 = i1
    i2 = i2
    i3 = i3
    i4 = i4
    i5 = i5
    Futures = {f1, f2, f3, f4, f5}
    NoFuture = NoFuture
    Ids = {i1, i2, i3, i4, i5}
    MaxConcurrency = 2
    Detached = {}
    CallMayPanic = FALSE
SPECIFICATION Spec
SYMMETRY Symmetry
INVARIANTS
    TypeOK
    OngoingBounded
    LiveIsCancellable
    NoLostWakeup
