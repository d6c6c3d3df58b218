SPECIFICATION RelaySpec
CONSTANTS
    Jobs <- MCJobs
    SlotOf <- MCSlotOf
CHECK_DEADLOCK FALSE
INVARIANTS
    RelayedIsDone
    NobodyForgotten
PROPERTIES
    RelayEnds
