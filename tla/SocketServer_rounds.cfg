SPECIFICATION FairSpec
CONSTANTS
    MaxConns = 2
    MaxRecords = 2
    MaxRounds = 2
    RaceCrashes = TRUE
CHECK_DEADLOCK FALSE
INVARIANTS
    RecordsOnceInOrder
    FreshRecords
    TerminateNeedsLateAccept
PROPERTIES
    ClearReturns
    ShutdownReturns
