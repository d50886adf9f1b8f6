SPECIFICATION Spec
CONSTANTS
    MaxOutput = 4
    StreamTTL = 3
    RedisFaults = TRUE
    MaxAttempts = 2
    NumRenders = 1
    TaskTimeout = 2
    FilerTTL = 4
    ResultTTL = 5
INVARIANTS
    TypeOK
    EmittedIsSplit
    FilesOutlive
    LogExpires
PROPERTY
    BuildKeepsItsLog
