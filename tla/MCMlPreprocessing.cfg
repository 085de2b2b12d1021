CONSTANTS
    all = all
    some = some
    NUM_FLOATS = 2
    MaxInt = 7
    Keep <- MCKeep
    LogBits <- MCLogBits
    MinusInfinity <- MCMinusInfinity
    NotANumber = 7
    Beats <- MCBeats
    StreamDepth = 1
    StageDepth = 1
    MaxBeats = 3
SPECIFICATION FairSpec
CHECK_DEADLOCK FALSE
INVARIANTS
    FeaturesKeepOrder
PROPERTIES
    StreamSpec
