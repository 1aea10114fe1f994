SPECIFICATION FairSpec
CONSTANTS
    Buyers = {b1}
    WindowSize = 4
    StartHeight = 3
    MaxHeight = 10
    Waits = TRUE
INVARIANTS
    MinedAtItsPrice
    LivePurchasesCanBeMined
    
PROPERTIES
    StoppedBuyerEnds
CHECK_DEADLOCK FALSE
