SPECIFICATION FairSpec
CONSTANTS
    MaxEntries = 4
    ReadCount = 2
    ChanCap = 2
CHECK_DEADLOCK FALSE
INVARIANTS
    TypeOK
    FaithfulFeed
    CloseDrains
    CloseIsJustified
PROPERTIES
    FinishedCloses
    NothingLeaks
