SPECIFICATION Spec
CONSTANTS
    s1 = s1
    wide = wide
    huge = huge
    Seeds <- AllSeeds
    InitialSeeds <- OneSeed
    WideSeeds <- JustWide
    HugeSeeds <- JustHuge
    NoSeed = NoSeed
    Garbled = Garbled
    PICK_SEED_REQUEST = PICK_SEED_REQUEST
    I_M_HERE = I_M_HERE
    Workload <- StoresAndPicks
    MaxRequests = 3
    MaxCrashes = 1
    PreparedMax = 2
    FdLimit = 3
    RaceCrashes = TRUE
CHECK_DEADLOCK FALSE
INVARIANTS
    MessagesInFlight
    ReplyMatchesRequest
    AckedNotLost
    PickReturnsAcked
    PreparedBound
    BrokenPipeNeedsCrash
PROPERTIES
    QuiescentAfterJoin
