SPECIFICATION Spec
CONSTANTS
    Commands = {c1, c2}
    MaxSequence = 4
    MaxBatch = 2
    MaxFaults = 3
    EntryWithFile = TRUE
INVARIANT AppliedIsSynced
CHECK_DEADLOCK FALSE
