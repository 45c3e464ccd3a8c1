SPECIFICATION Spec
CONSTANTS
    BufferSize = 2
    Number <- TwoCosts
    Float32 <- Rounded
    MinSize = 2
    MaxSize = 3
    Strategies = {"ROUND_ROBIN", "WEIGHTED_ROUND_ROBIN", "INTERLEAVED_WEIGHTED_ROUND_ROBIN", "LEAST_USED", "LEAST_BUSY", "FAIR_SHARE"}
    Function <- Functions3
    Options <- BothOptions
    Costs <- TwoCosts
    MaxTasks = 3
    MaxTime = 1
    MaxMeasures = 3
    MaxChanges = 1
CHECK_DEADLOCK FALSE
INVARIANTS
    TypeOK
PROPERTIES
    TurnEndsAtWeight
    StatisticsOfWindow
    TakesTurns
    RefusedOnlyWithoutReady
    IdleNodeFirst
