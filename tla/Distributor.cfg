SPECIFICATION FairSpec
CONSTANTS
    i1 = i1
    i2 = i2
    i3 = i3
    Ingesters <- MCIngesters
    Series = {1, 2}
    ReplicationSets <- MCReplicationSets
INVARIANTS SuccessIsQuorate ErrorIsFinal SingleWriter
PROPERTIES PushReturns
