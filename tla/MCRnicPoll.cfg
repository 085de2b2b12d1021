CONSTANTS
    MaxTransactions = 4
    MaxReps = 2
    MaxSizes = 2
    CqSize = 2
    max_send_wr = 3
SPECIFICATION FairSpec
CHECK_DEADLOCK FALSE
INVARIANTS
    RunsApart
    FailuresSeen
    SamplesAreReads
PROPERTIES
    EndsIfQueuesSuffice
    SpinsOnlyForLost
