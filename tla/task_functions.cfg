SPECIFICATION FairSpec
CONSTANTS
    MinSize = 1
    MaxSize = 2
    Name = {f, g}
    FileName = f
    FileStrategy = none
    PoolStrategy = rr
    Strategy = {}
    None = none
    AnswersFirst = TRUE
    MaxCalls = 3
    MaxWorkers = 3
CHECK_DEADLOCK FALSE
INVARIANTS
    DefaultIsNamed
    ListingIsCurrent
PROPERTIES
    ResolvedMeansApplied
    CallSettles
