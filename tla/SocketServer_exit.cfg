SPECIFICATION FairSpec
CONSTANTS
    MaxConns = 0
    MaxRecords = 2
    MaxRounds = 1
    RaceCrashes = FALSE
CHECK_DEADLOCK FALSE
INVARIANT
    NeverTerminated
