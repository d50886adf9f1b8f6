SPECIFICATION FairSpec
CONSTANTS
    TaskIds = {t1}
    ForeignIds = {f1}
    NoId = none
    Handlers = {h1, h2}
    MaxQueueSize = 0
    AbandonTimeout = 1
    WsMaxLifetime = 1
    Faults = FALSE
    Restarts = FALSE
    Requeues = FALSE
INVARIANTS
    PendingIsTracked
PROPERTIES
    AbandonedLeavesQueue
    TrackerDrains
