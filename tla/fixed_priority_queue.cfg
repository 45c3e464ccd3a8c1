SPECIFICATION FairSpec
CONSTANTS
    Undefined = Undefined
    d1 = d1
    d2 = d2
    d3 = d3
    d4 = d4
    Data = {d1, d2, d3, d4}
    Capacity = 3
    EnablePriority = TRUE
    Priority <- Levels
    MaxAge = 3
    AgingFactor <- LoadedAging
INVARIANTS
    ServedByPriority
    AgingLimitsOvertaking
PROPERTIES
    ListSpec
    NoStarvation
