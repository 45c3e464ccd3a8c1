SPECIFICATION FairSpec
CONSTANTS
    a1 = a1
    a2 = a2
    b1 = b1
    b2 = b2
    b3 = b3
    N = 2
    Task = {a1, b1, b2, b3}
    Abortable = {a1}
    Concurrency = 1
    QueueSize = 2
    TaskStealing = TRUE
    StealingOnBackPressure = TRUE
    StealingPercent = 60
INVARIANTS
    TypeOK
    OnePlace
    QueuedOnlyIfBusy
    BackPressureFlagged
    StealingLoopArmed
    TotalExecutingCoversInFlight
PROPERTIES
    LifecycleSpec
    DispatchedTaskSettles
CHECK_DEADLOCK FALSE
