SPECIFICATION Spec
CONSTANTS
    MaxAttempts = 1
    NumRenders = 1
    MaxLines = 1
    Panics = TRUE
    Faults = FALSE
    Deadlines = FALSE
    Shutdowns = FALSE
CHECK_DEADLOCK FALSE
INVARIANTS
    EndMatchesStatus
