SPECIFICATION LogSpec
CONSTANTS
    MaxAttempts = 1
    NumRenders = 0
    MaxLines = 1
    Panics = FALSE
    Faults = FALSE
    Deadlines = FALSE
    Shutdowns = FALSE
    MaxEntries = 2
    ReadCount = 2
    ChanCap = 1
CHECK_DEADLOCK FALSE
INVARIANTS
    FinishedIsDrained
