SPECIFICATION FairSpec
CONSTANTS
    t1 = t1
    t2 = t2
    t3 = t3
    NoTask = NoTask
    Min = 1
    Max = 2
    Task = {t1, t2, t3}
    KillBehavior = "SOFT"
    KillOutcome = {"success", "none"}
    RestartWorkerOnError = TRUE
    WorkerErrors = FALSE
CHECK_DEADLOCK FALSE
INVARIANTS
    SoftKillSparesTasks
    DestroyedPoolIsEmpty
PROPERTIES
    TaskSettles
    PoolShrinks
