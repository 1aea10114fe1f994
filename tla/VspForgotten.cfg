SPECIFICATION Spec
CONSTANTS
    Threads = {g1}
    MaxTxs = 2
    MaxFps = 2
    MaxQuotes = 2
    Calls = {"Process"}
    Faults = {"net", "crash"}
    Serialized = TRUE
INVARIANT NeverUnattended
CHECK_DEADLOCK FALSE
