CONSTANTS
    in1 = in1
    in2 = in2
    out1 = out1
    out2 = out2
    t1 = t1
    t2 = t2
    Handles = {in1, in2, out1}
    EndOf <- MCEndOf
    ThreadOf <- MCThreadOf
    Converted = {in1, out1}
    Inherited <- MCInherited
    Capacity <- MCCapacity
SPECIFICATION FairSpec
INVARIANTS
    TypeOK
    FlagsNest
    LocksSeparate
    NeverBlocks
    NoLostReadiness
PROPERTIES
    Served
\* Every handle is gone in the end.
CHECK_DEADLOCK FALSE
