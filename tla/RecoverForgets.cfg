CONSTANTS
    c1 = c1
    c2 = c2
    c3 = c3
    h1 = h1
    h2 = h2
    NumWays = 2
    Claims <- Two
    Tasks <- Two
    Groups <- GroupsOfTwo
    Domains <- OneDomain
    Requests <- SmallRequests
    Handlers <- TwoHandlers
    MayFail <- NoFaults
    MaxCrashes = 1
    Timeouts = FALSE
    KubeletRestarts = FALSE
    UnwrittenCBM <- NoWays
    Prefix <- OwnFile
    NumCLOSIDs = 4
    MinCBMBits = 1
    OtherDevice = OtherDevice
    NoClaim = NoClaim
    NoAlloc = NoAlloc
    NoSpec = NoSpec
    NoRequest = NoRequest
    NoGroup = NoGroup
    RootGroup = RootGroup
    NoTask = NoTask
SYMMETRY Symmetry
SPECIFICATION Spec
INVARIANT PreparedRecorded
