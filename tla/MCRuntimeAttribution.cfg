SPECIFICATION Spec
CONSTANTS
    main = main
    w1 = w1
    w2 = w2
    k1 = k1
    k2 = k2
    NoTask = NoTask
    Threads <- MCThreads
    Tids <- MCThreads
    Main = main
    Tasks <- MCTasks
    Requests = {1, 2}
    Mapped = {1, 2}
    MaxOperation = 4
    MaxSpan = 3
SYMMETRY Symmetry
VIEW WithoutLastEvent
CONSTRAINT NotYetRefused
CHECK_DEADLOCK FALSE
INVARIANTS
    AcceptedIsRight
    CleanIsAccepted
    AttributorFollows
