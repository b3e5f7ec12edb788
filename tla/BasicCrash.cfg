CONSTANTS
    c1 = c1
    c2 = c2
    h1 = h1
    h2 = h2
    NumWays = 4
    NumCLOSIDs = 4
    MinCBMBits = 1
    Claims <- Two
    Tasks <- Two
    Handlers <- TwoHandlers
    Groups <- GroupsOfOne
    Devices <- DevicesOfOne
    DomainOf <- Domain
    Configs <- Halves
    MayFail <- StartFaults
    MBA = FALSE
    MaxResults = 1
    MaxCrashes = 2
    MaxStops = 0
    Timeouts = TRUE
    CrashedReconfigure = FALSE
    Free = Free
    Unknown = Unknown
    OtherDevice = OtherDevice
    NoClaim = NoClaim
    NoSpec = NoSpec
    NoSlice = NoSlice
    NoRequest = NoRequest
    NoGroup = NoGroup
    RootGroup = RootGroup
    NoTask = NoTask
SYMMETRY Symmetry
SPECIFICATION Spec
INVARIANTS
    TypeOK
    PreparedEnforced
    NotStolen
PROPERTY
    RunningUndisturbed
