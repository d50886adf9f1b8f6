SPECIFICATION FairSpec
CONSTANTS
    BuildRequests <- MCBuildRequests
    LayoutNames <- MCLayoutNames
    ChildSheets <- MCChildSheets
    CommandFaults = TRUE
    UploadAttempts = 3
CHECK_DEADLOCK FALSE
INVARIANTS
    TypeOK
    ArgsAreComplete
    ProjectIsContained
    ManifestIsReadable
    ExportIsWhole
    SheetsComplete
    NilDelivers
PROPERTIES
    ImplementsPhases
    UploadEnds
    CancelledBuildEnds
