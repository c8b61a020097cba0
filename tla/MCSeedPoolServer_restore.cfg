SPECIFICATION FairSpec
CONSTANTS
    f1 = f1
    f2 = f2
    r1 = r1
    FilePools <- TwoFilePools
    InitFolder <- OneWithFolder
    InitialSeeds <- NamesakeSeeds
    Values <- OneAndTwo
    MaxStores = 1
    MaxTime = 1
    fileOrder <- FilePoolsInOrder
    regularOrder <- OneRegularPool
    Nums <- JustTwo
    IntHalf = 8
    MaxLaunches = 1
CHECK_DEADLOCK FALSE
PROPERTY
    RestoreCompletes
