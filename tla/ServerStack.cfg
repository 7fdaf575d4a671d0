CONSTANTS
    MaxRequests = 3
    Handlers <- AllHandlers
    Defaults <- TraitDefaults
    MaxNotices = 2
    MaxTicks = 1
SPECIFICATION FairSpec
INVARIANTS
    TypeOK
    PoliteNeverRefused
    ExitEndsLoop
PROPERTIES
    SessionOrder
    PanicContained
    DeathStops
\* The loop ends for good.
CHECK_DEADLOCK FALSE
