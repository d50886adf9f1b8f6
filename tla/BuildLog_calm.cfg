SPECIFICATION FairLogSpec
CONSTANTS
    MaxAttempts = 1
    NumRenders = 1
    MaxLines = 2
    Panics = FALSE
    Faults = FALSE
    Deadlines = FALSE
    Shutdowns = TRUE
    MaxEntries = 3
    ReadCount = 2
    ChanCap = 1
CHECK_DEADLOCK FALSE
INVARIANTS
    ReturnedHasEnded
    EndMeansWhole
PROPERTIES
    ImplementsOutcome
    ImplementsTail
    SocketFollowsTask
