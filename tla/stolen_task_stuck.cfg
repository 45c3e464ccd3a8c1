SPECIFICATION FairSpec
CONSTANTS
    a1 = a1
    a2 = a2
    b1 = b1
    b2 = b2
    b3 = b3
    N = 2
    Task = {b1, b2, b3, a1}
    Abortable = {}
    Concurrency = 1
    QueueSize = 4
    TaskStealing = TRUE
    StealingOnBackPressure = TRUE
    StealingPercent = 60
PROPERTIES
    EveryTaskSettles
CHECK_DEADLOCK FALSE
