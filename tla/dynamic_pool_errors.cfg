SPECIFICATION FairSpec
CONSTANTS
    t1 = t1
    t2 = t2
    t3 = t3
    NoTask = NoTask
    Min = 1
    Max = 2
    Task = {t1, t2}
    KillBehavior = "HARD"
    KillOutcome = {"success", "failure", "none"}
    RestartWorkerOnError = TRUE
    WorkerErrors = TRUE
CHECK_DEADLOCK FALSE
INVARIANTS
    SizeWithinBounds
PROPERTIES
    DestroyEnds
