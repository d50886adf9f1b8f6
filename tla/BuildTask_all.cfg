SPECIFICATION FairSpec
CONSTANTS
    MaxAttempts = 2
    NumRenders = 1
    MaxLines = 1
    Panics = TRUE
    Faults = TRUE
    Deadlines = TRUE
    Shutdowns = TRUE
CHECK_DEADLOCK FALSE
INVARIANTS
    TypeOK
    SuccessIsStored
    EndIsLast
PROPERTIES
    LateHandlerIsMute
    ActiveSettles
