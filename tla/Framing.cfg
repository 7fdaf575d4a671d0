CONSTANTS
    Messages <- MessageSet
    Size <- Sizes
    Headers <- HeaderSet
    Capacity = 3
    MaxFrames = 3
SPECIFICATION FairSpec
INVARIANTS
    TypeOK
PROPERTIES
    ChannelSpec
    Delivered
    EndNoticed
\* The reader ends for good, or waits for a peer that sends no more.
CHECK_DEADLOCK FALSE
