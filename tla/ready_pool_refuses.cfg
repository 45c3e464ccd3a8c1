SPECIFICATION Spec
CONSTANTS
    BufferSize = 2
    Number <- TwoCosts
    Float32 <- Rounded
    MinSize = 1
    MaxSize = 1
    Strategies = {"INTERLEAVED_WEIGHTED_ROUND_ROBIN"}
    Function <- PlainOnly
    Options <- EqualOnly
    Costs <- TwoCosts
    MaxTasks = 4
    MaxTime = 0
    MaxMeasures = 4
    MaxChanges = 0
CHECK_DEADLOCK FALSE
PROPERTIES
    ReadyPoolServes
