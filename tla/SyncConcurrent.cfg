SPECIFICATION Spec
CONSTANTS
    Callers = {c1, c2}
    Wallets = {w1}
    MaxSessions = 2
    Ops = {"SpvSync", "CancelSync", "RestartSpvSync", "saveNewWallet", "DeleteWallet", "Shutdown", "PeerInfoRaw"}
    Faults = {"run_error", "invalid_peers", "setup"}
    Serialized = FALSE
INVARIANTS
    ConnectedOnlyWhileLive
SYMMETRY Symmetry
CHECK_DEADLOCK FALSE
