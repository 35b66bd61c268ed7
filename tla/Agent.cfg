SPECIFICATION FairSpec
CONSTANTS
    j1 = j1
    j2 = j2
    t1 = t1
    t2 = t2
    t3 = t3
    Jobs = {j1}
    Targets = {t1, t2}
    GroupOf <- MCGroupOf
    Invalid = {t2}
    Dropped = {}
    DeltaTargets = {t1}
    HasParams = FALSE
    MaxUpdates = 3
    MaxGets = 1
INVARIANTS ActiveAreScraped ActiveAreDiscovered
PROPERTIES KeptTargetsKeepTheirLoop ScrapedUnlessLocked AgentStops
