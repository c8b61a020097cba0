SPECIFICATION Spec
CONSTANTS
    f = f
    g = g
    FuncHashes <- Functions2
    Threads <- Threads3
    Schedules <- AllSchedules
    lifecycle_func_hash_ <- AnyFunction
    MaxRounds = 2
CHECK_DEADLOCK FALSE
INVARIANTS
    CombinedIsGrouping
PROPERTIES
    CoverageGrowsByRun
    GainIffNew
    PrefixesAreOwn
