SPECIFICATION Spec
CONSTANTS
    p1 = p1
    p2 = p2
    p3 = p3
    empty = empty
    a = a
    b = b
    Flusher = Flusher
    NoOne = NoOne
    Ingests <- MCThree
    Keys <- MCKeys
    Batches <- MCBatches
    SizeOf <- MCSizeOf
    MaxRowGroupBytes = 2
    MaxBufferRowCount = 2
INVARIANTS RewritesAreFaithful FileRowsAreIds
PROPERTIES ImplementsInternTable
