SPECIFICATION Spec
CONSTANTS
    dispatcher = dispatcher
    main = main
    w1 = w1
    w2 = w2
    j1 = j1
    j2 = j2
    j3 = j3
    unknown = unknown
    Main = dispatcher
    Reader = main
    Workers <- MCWorkers
    Tids <- MCTids
    Mapped = {1, 2, 3}
    Jobs = {j1, j2, j3}
    UnknownJob = unknown
    Slots = {1, 2}
    Scenarios <- AllScenarios
VIEW UntilRefused
CHECK_DEADLOCK FALSE
INVARIANTS
    AcceptedIsRight
    CleanIsAccepted
    DeathIsRefused
    ResolvedIsDone
    SlotsNotShared
PROPERTY
    EveryCallEnds
