SPECIFICATION Spec
CONSTANTS
    TaskIds = {t1, t2}
    ForeignIds = {}
    NoId = none
    Handlers = {h1, h2}
    MaxQueueSize = 0
    AbandonTimeout = 1
    WsMaxLifetime = 1
    Faults = TRUE
    Restarts = TRUE
    Requeues = TRUE
SYMMETRY Interchangeable
INVARIANTS
    TypeOK
    RemovedOnce
    QueueBound
PROPERTIES
    CancelledStaysOut
    SweepSparesWatched
    ImplementsLifecycle
