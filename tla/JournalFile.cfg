SPECIFICATION Spec
CONSTANTS
    JournalCommands <- SmallCommands
    MaxSequence = 2
    MaxBatch = 2
    CutOffsets = {1, 15, 23, 24, 31, 48}
    Damages <- SmallDamages
INVARIANT ScanExact
INVARIANT DamageRefused
PROPERTY FileImplementsLog
