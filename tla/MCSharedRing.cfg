SPECIFICATION RingSpec
CONSTANTS
    Jobs = 3
    Width = 2
    Entries = 4
    MaxFaults = 2
CHECK_DEADLOCK FALSE
INVARIANTS
    RingOwnersRight
    CleanRingAccepted
    AnsweredIsPerformed
PROPERTIES
    RingEnds
