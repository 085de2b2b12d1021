CONSTANTS
    client = client
    server = server
    Operations = {FALSE, TRUE}
    Clients = {FALSE, TRUE}
    N_RUNS = 2
    Transfers <- MCTransfers
SPECIFICATION FairSpec
CHECK_DEADLOCK FALSE
INVARIANTS
    NothingCleared
    NeverTooMany
    InStep
    ReadContentArrives
PROPERTIES
    BothEnd
