SPECIFICATION Spec
CONSTANTS
    Commands = {c1, c2}
    MaxSequence = 4
    MaxBatch = 2
    MaxFaults = 3
    EntryWithFile = FALSE
INVARIANT AckedDurable
CHECK_DEADLOCK FALSE
