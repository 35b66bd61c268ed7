SPECIFICATION BegunSpec
CONSTANTS
    p1 = p1
    p2 = p2
    Profiles = {p1}
    ULIDs = {1, 2, 3}
    MaxMetaErrors = 0
    MaxQueries = 1
    MaxCrashes = 1
    MaxAvailable = 0
INVARIANTS NoProfileTwice QueriersAreUsable OnlyAcceptedLosses ShutdownWritesHead
