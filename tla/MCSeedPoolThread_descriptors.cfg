SPECIFICATION FairSpec
CONSTANTS
    s1 = s1
    wide = wide
    huge = huge
    Seeds <- AllSeeds
    InitialSeeds <- OneSeed
    WideSeeds <- JustWide
    HugeSeeds <- JustHuge
    NoSeed = NoSeed
    Garbled = Garbled
    PICK_SEED_REQUEST = PICK_SEED_REQUEST
    I_M_HERE = I_M_HERE
    Workload <- OnlyStores
    MaxRequests = 2
    MaxCrashes = 0
    PreparedMax = 2
    FdLimit = 3
    RaceCrashes = FALSE
CHECK_DEADLOCK FALSE
PROPERTIES
    UserConnects
