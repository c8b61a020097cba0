SPECIFICATION FairSpec
CONSTANTS
    f1 = f1
    f2 = f2
    r1 = r1
    FilePools <- TwoFilePools
    InitFolder <- OneWithFolder
    InitialSeeds <- NamesakeSeeds
    Values <- OneAndTwo
    MaxStores = 3
    MaxTime = 1
    fileOrder <- FilePoolsInOrder
    regularOrder <- OneRegularPool
    Nums <- SomeNums
    IntHalf = 8
    MaxLaunches = 2
CHECK_DEADLOCK FALSE
INVARIANTS
    HandshakeHonest
    RestoredMostValuable
    LastStoreKept
    LatestLeftBehind
PROPERTIES
    LaunchReturns
    ShutdownReturns
