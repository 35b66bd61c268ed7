SPECIFICATION MCSpec
CONSTANTS
    Ingesters = {"a", "b"}
    Profiles = {1, 2, 3}
    BatchSize = 2
    MaxFailures = 1
CHECK_DEADLOCK FALSE
INVARIANTS CompleteOrError OnceWhenInOrder
PROPERTIES QueryReturns
