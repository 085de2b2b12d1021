CONSTANTS
    MAX_THREADS = 3
    BYTE = 4
    IV_BYTES = 3
    BufferSizes = {2, 5, 9}
    Ivs = {0, 2, 14, 61}
SPECIFICATION CipherSpec
CHECK_DEADLOCK FALSE
INVARIANTS
    CarriesAreAdded
