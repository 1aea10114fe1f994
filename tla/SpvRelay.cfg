SPECIFICATION FairSpec
CONSTANTS
    t1 = t1
    t2 = t2
    Wallets = {w1}
    Peers = {p1, p2}
    Slots = {g1, g2}
    Txs = {t1, t2}
    PaysTo <- MCPaysTo
    SpentBy <- MCSpentBy
    MayRescan = {w1}
    External = {t2}
    MaxDials = 2
    MaxInvs = 1
INVARIANTS
    OneConnectionPerPeer
    MarksHaveGoroutines
    ServedUntilEvicted
PROPERTIES
    RunEnds
    
CHECK_DEADLOCK FALSE
