CONSTANTS
    c1 = c1
    c2 = c2
    h1 = h1
    h2 = h2
    NumWays = 4
    NumCLOSIDs = 5
    MinCBMBits = 1
    Claims <- One
    Tasks <- One
    Handlers <- OneHandler
    Groups <- GroupsOfTwo
    Devices <- DevicesOfTwo
    DomainOf <- Domain
    Configs <- HalvesOfTwo
    MayFail <- StopFaults
    MBA = FALSE
    MaxResults = 2
    MaxCrashes = 1
    MaxStops = 1
    Timeouts = FALSE
    CrashedReconfigure = FALSE
    Free = Free
    Unknown = Unknown
    OtherDevice = OtherDevice
    NoClaim = NoClaim
    NoSpec = NoSpec
    NoSlice = NoSlice
    NoRequest = NoRequest
    NoGroup = NoGroup
    RootGroup = RootGroup
    NoTask = NoTask

SPECIFICATION FairSpec
PROPERTIES
    ComesUp
    ScheduledPrepared
