SPECIFICATION FairSpec
CONSTANTS
    MaxCreations = 2
    MaxCrashes = 1
INVARIANTS
    RecordHasItsFile
    FilesAreKept
    
PROPERTIES
    ShutdownReturns
CHECK_DEADLOCK FALSE
