SPECIFICATION Spec
CONSTANTS
    Stacktraces = {1, 2}
    MaxValue = 2
    MaxProfiles = 4
CHECK_DEADLOCK FALSE
INVARIANTS StoredAsDelta
