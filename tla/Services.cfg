SPECIFICATION ServicesFairSpec
CONSTANTS
    Rescans = {r1, r2}
    Mixers = {m1, m2}
    CallerWaits = TRUE

    
    
PROPERTIES
    ShutdownEndsServices
CHECK_DEADLOCK FALSE
