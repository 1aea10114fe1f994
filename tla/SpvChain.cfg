SPECIFICATION Spec
CONSTANTS
    Wallets = {w1, w2}
    Peers = {p1, p2}
    Handlers = {h1}
    Blocks <- MCBlocks
    InitTips <- MCInitTips
    InitPeerTips <- MCPeerTips
    HeightSlack = 1
    MaxAnnDelta = 0
    MaxSessions = 2
    MaxFailures = 1
SYMMETRY Symmetry
INVARIANTS
    CatchUpExclusive
    SyncedHasFilters
    
PROPERTIES
    TipNeverRecedes
CHECK_DEADLOCK FALSE
