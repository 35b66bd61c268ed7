SPECIFICATION FairSpec
CONSTANTS
    N = 2
    Compacted = {1}
    Files = {"profiles"}
    MaxErrors = 1
    MaxLate = 1
    MaxCleanups = 1
    MaxCrashes = 1
INVARIANTS MetaMeansCompleteUnlessLate UploadedAreComplete
PROPERTIES BlockIsShippedUnlessCleaned
