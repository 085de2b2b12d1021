CONSTANTS
    Kinds = {"cpu", "cpu_gpu", "process", "async", "local", "read_gpu"}
    Servers <- MCServers
    MaxTransfers = 2
    MaxCalls = 3
SPECIFICATION FairSpec
CHECK_DEADLOCK FALSE
INVARIANTS
    CompleteUnlessRaised
    GpuSettled
PROPERTIES
    CallsEnd
    EndTogether
