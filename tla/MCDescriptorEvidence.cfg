SPECIFICATION EvidenceSpec
CONSTANTS
    t1 = t1
    t2 = t2
    t3 = t3
    d1 = d1
    d2 = d2
    Threads <- MCThreads
    Flows = {1}
    MaxTime = 3
    MaxMessages = 3
    Debugged <- MCDebugged
    Numbers <- MCNumbers
    MaxInstalls = 3
    MaxCloses = 3
    MaxReferences = 1
SYMMETRY Symmetry
CONSTRAINT NotYetRejected
CHECK_DEADLOCK FALSE
INVARIANTS
    PairsAreTransfers
    ReferencesNameResources
