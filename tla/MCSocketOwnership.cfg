SPECIFICATION Spec
CONSTANTS
    Tids <- MCTids
    Main = 1
    Fds <- MCFds
    Requests = {1, 2}
    MaxCalls = 6
CONSTRAINT Considered
CHECK_DEADLOCK FALSE
INVARIANTS
    OwnersFollowDescriptors
    ReadsBoundToSoleUser
