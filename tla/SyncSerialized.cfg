SPECIFICATION FairSpec
CONSTANTS
    Callers = {c1}
    Wallets = {w1, w2}
    MaxSessions = 2
    Ops = {"SpvSync", "CancelSync", "RestartSpvSync", "saveNewWallet"}
    Faults = {"run_error", "invalid_peers", "setup"}
    Serialized = TRUE
INVARIANTS
    OwnsHandles
    
PROPERTIES
    FirstSyncCompletes
    ImplementsSyncService
    CancelSyncWoken
    CanceledRunEnds
CHECK_DEADLOCK FALSE
