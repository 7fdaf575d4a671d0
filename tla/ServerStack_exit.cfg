CONSTANTS
    MaxRequests = 3
    Handlers <- BuilderHandlers
    Defaults <- NoDefaults
    MaxNotices = 3
    MaxTicks = 0
SPECIFICATION Spec
INVARIANTS
    ExitEndsWell
\* The loop ends for good.
CHECK_DEADLOCK FALSE
