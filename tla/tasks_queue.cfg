SPECIFICATION FairSpec
CONSTANTS
    N = 2
    Task = {t1, t2, t3, t4}
    Abortable = {t4}
    QueueOptions <- TwoOptions
    InitialOptions <- Small
    Disabled = disabled
    MaxChanges = 2
CHECK_DEADLOCK FALSE
INVARIANTS
    QueuesEndEmpty
    EventsEnd
PROPERTIES
    QueuedTasksSurvive
    TaskSettles
