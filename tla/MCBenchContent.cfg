CONSTANTS
    client = client
    server = server
    Operations = {TRUE}
    Clients = {FALSE, TRUE}
    N_RUNS = 2
    Transfers <- MCTransfers
SPECIFICATION Spec
CHECK_DEADLOCK FALSE
INVARIANTS
    ContentArrives
