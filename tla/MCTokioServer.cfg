SPECIFICATION FairSpec
CONSTANTS
    Requests <- MCRequests
    MaxLines = 3
    PoolSizes = {1, 2}
    MaxSlot = 3
    Instrumented = TRUE
CONSTRAINT Explored
CHECK_DEADLOCK FALSE
INVARIANTS
    WritesAreOwned
    ContributedOnce
    BarrierDrains
    EndsAnswered
PROPERTY
    CallsEnd
