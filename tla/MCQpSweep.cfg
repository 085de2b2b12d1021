CONSTANTS
    n_parallel_qps = 3
    N_THROUGHPUT_REPS = 2
    n_runs = 2
SPECIFICATION SweepSpec
CHECK_DEADLOCK FALSE
INVARIANTS
    DoneWhenArrived
