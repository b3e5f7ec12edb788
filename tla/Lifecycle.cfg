CONSTANTS
    NoSlice = NoSlice
    Gates = {"basic", "structured"}
    MayFail = {"hook", "client", "probe", "groups", "cdi", "owner", "create", "get", "update",
               "listen", "serve", "register", "health", "delete", "unlink", "rmdir"}
    MaxFaults = 3
SPECIFICATION FairSpec
INVARIANTS
    TypeOK
    
    SliceTrue
    CleanExit
PROPERTIES
    OwnerKept
    ServesAgain
    
\* Once MaxFaults are spent, a driver that serves waits for a signal.
CHECK_DEADLOCK FALSE
