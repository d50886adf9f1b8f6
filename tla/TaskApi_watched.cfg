SPECIFICATION Spec
CONSTANTS
    TaskIds = {t1}
    ForeignIds = {}
    NoId = none
    Handlers = {h1, h2}
    MaxQueueSize = 0
    AbandonTimeout = 1
    WsMaxLifetime = 1
    Faults = FALSE
    Restarts = FALSE
    Requeues = FALSE
PROPERTY
    WatchedNotReaped
