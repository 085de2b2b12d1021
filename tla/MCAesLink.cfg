CONSTANTS
    d0 = d0
    d1 = d1
    k0 = k0
    k1 = k1
    NPAR = 2
    CtrMod = 4
    Data <- MCData
    Keep <- MCKeep
    Beats <- MCBeats
    EndsKept = FALSE
    PeerEnds = {1, 2}
    MaxBeats = 2
    MaxArrivals = 2
    MaxResets = 1
SPECIFICATION FairSpec
CHECK_DEADLOCK FALSE
INVARIANTS
    RestoredOnlyInStep
PROPERTIES
    AllStored
