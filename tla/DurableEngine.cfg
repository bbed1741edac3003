SPECIFICATION FairSpec
CONSTANTS
    Commands = {c1, c2}
    MaxSequence = 5
    MaxBatch = 2
    MaxFaults = 5
    EntryWithFile = TRUE
INVARIANT TypeOK
INVARIANT AckedDurable
INVARIANT SequencesConsecutive
INVARIANT BookIsJournal
INVARIANT WriterAtEnd
INVARIANT Recoverable
PROPERTY DiskOnlyGrows
PROPERTY ImplementsCommandLog
PROPERTY RecoveryCompletes
CHECK_DEADLOCK FALSE
