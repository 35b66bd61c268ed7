SPECIFICATION LoadedSpec
CONSTANTS
    p1 = p1
    p2 = p2
    Profiles = {p1}
    ULIDs = {1, 2, 3}
    MaxMetaErrors = 1
    MaxQueries = 0
    MaxCrashes = 0
    MaxAvailable = 0
PROPERTIES BlocksAreFound FullHeadIsExchanged CloseReturns
