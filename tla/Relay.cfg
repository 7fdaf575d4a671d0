CONSTANTS
    Asks <- MCAsks
    Notifies <- MCNotifies
    Mixes <- MCMixes
    Capacity = 1
    MayEnd = {"editor", "child"}
    None = None
SPECIFICATION FairSpec
INVARIANTS
    OwnAnswer
    NoneOvertakesResponse
PROPERTIES
    ForwardSpec
    ServedOrJammed
\* Everything is sent and answered, or the inspector has exited.
CHECK_DEADLOCK FALSE
