SPECIFICATION Spec
CONSTANTS
    MinSize = 1
    MaxSize = 2
    Name = {f, g}
    FileName = f
    FileStrategy = lu
    PoolStrategy = rr
    Strategy = {lu}
    None = none
    AnswersFirst = TRUE
    MaxCalls = 2
    MaxWorkers = 2
CHECK_DEADLOCK FALSE
INVARIANTS
    StrategiesKnown
