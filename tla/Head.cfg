SPECIFICATION Spec
CONSTANTS
    c1 = c1
    c2 = c2
    Calls <- MCCalls
    Profiles <- MCProfiles
    Cumulative <- MCCumulative
    MaxTimestamp <- MCMaxTimestamp
    SampleSize <- MCSampleSize
SYMMETRY Symmetric
INVARIANTS StacksResolve OnlyFirstIsDropped BlockHoldsWhatWasIngested
