SPECIFICATION Spec

CONSTANTS
    Commands <- MCCommands
    Queues <- MCQueues
    NotASequence = NotASequence
    max_command = 2
    MaxLaunches = 2

INVARIANTS
    OnlyHeldCommandRuns
    SurvivorStartedLate
    NullNeedsShutdown
    FinishedIsHonest

PROPERTIES
    OutputIsWhole
    ShutdownReturns

CHECK_DEADLOCK FALSE
