CONSTANTS
    d0 = d0
    d1 = d1
    k0 = k0
    k1 = k1
    NPAR = 2
    CtrMod = 6
    Data <- MCData
    Keep <- MCKeep
    Beats <- MCBeats
    ENC_ROUNDS = 2
    ZeroData = d0
    ZeroKeep = k0
    MaxBeats = 4
SPECIFICATION FairSpec
INVARIANTS
    TypeOK
    InOrder
    PipesAligned
    CountersFollowPackets
    BlocksApart
PROPERTIES
    HeldUntilTaken
    StreamSpec
