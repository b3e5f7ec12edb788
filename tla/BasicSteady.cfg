CONSTANTS
    c1 = c1
    c2 = c2
    h1 = h1
    h2 = h2
    NumWays = 4
    NumCLOSIDs = 4
    MinCBMBits = 1
    Claims <- Two
    Tasks <- Two
    Handlers <- TwoHandlers
    Groups <- GroupsOfOne
    Devices <- DevicesOfOne
    DomainOf <- Domain
    Configs <- Thirds
    MayFail = {"get"}
    MBA = FALSE
    MaxResults = 2
    MaxCrashes = 0
    MaxStops = 0
    Timeouts = FALSE
    CrashedReconfigure = FALSE
    Free = Free
    Unknown = Unknown
    OtherDevice = OtherDevice
    NoClaim = NoClaim
    NoSpec = NoSpec
    NoSlice = NoSlice
    NoRequest = NoRequest
    NoGroup = NoGroup
    RootGroup = RootGroup
    NoTask = NoTask
SYMMETRY Symmetry
SPECIFICATION Spec
INVARIANT AllocatedPreparable
