SPECIFICATION Spec
CONSTANTS
    BuildRequests <- MCBuildRequests
    LayoutNames <- MCLayoutNames
    ChildSheets <- MCChildSheets
    CommandFaults = FALSE
    UploadAttempts = 1
CHECK_DEADLOCK FALSE
INVARIANTS
    EverySheetListed
