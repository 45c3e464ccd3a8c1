SPECIFICATION Spec
CONSTANTS
    Undefined = Undefined
    d1 = d1
    d2 = d2
    d3 = d3
    d4 = d4
    Data = {d1, d2, d3, d4}
    Capacity = 2
    Priority <- Levels
    MaxAge = 0
    AgingFactor <- NoAging
SYMMETRY DataSymmetry
INVARIANTS
    ChainIsSound
PROPERTIES
    OvertakesOneBucketAtMost
    ListSpec
