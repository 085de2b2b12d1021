CONSTANTS
    client = client
    server = server
    NUM_TRAIL = 2
    MAX_SIZE = 2
SPECIFICATION FairSpec
CHECK_DEADLOCK FALSE
INVARIANTS
    QueuesSuffice
    EventsHaveEntries
    BufferOwned
    RoundTrip
    RejectedOnlyBeforeRepost
    TypeOK
PROPERTIES
    TrialsSpec
    FinishOrLeftBehind
