\* Seven ways, two domains: counts from -1 to 8, and up to two sizes of 1 to 8
\* ways, 1 to 8 times each.
CONSTANTS
    NumWays = 7
    CacheIDs <- TwoCaches
    NumCLOSIDs = 5
    MinCBMBits = 2
    MaxCount = 8
    MaxWays = 8
SPECIFICATION Spec
INVARIANTS
    TypeOK
    Disjoint
    AcceptedByHardware
    AsSpecified
    NothingWasted
\* PartitionCache returns.
CHECK_DEADLOCK FALSE
