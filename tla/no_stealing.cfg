SPECIFICATION FairSpec
CONSTANTS
    a1 = a1
    a2 = a2
    b1 = b1
    b2 = b2
    b3 = b3
    N = 2
    Task = {a1, a2, b1, b2}
    Abortable = {a1, a2}
    Concurrency = 2
    QueueSize = 1
    TaskStealing = FALSE
    StealingOnBackPressure = FALSE
    StealingPercent = 0
INVARIANTS
    ExecutingIsInFlight
    MaxConcurrency
    AbortReachesTask
PROPERTIES
    SettleOnce
    EveryTaskSettles
CHECK_DEADLOCK FALSE
