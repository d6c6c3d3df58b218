SPECIFICATION Spec
CONSTANTS
    main = main
    p1 = p1
    p2 = p2
    a1 = a1
    a2 = a2
    c1 = c1
    Pool <- MCPool
    Tids <- MCTids
    Main = main
    Addresses <- MCAddresses
    Callbacks = {c1}
    MaxContext = 4
    Mapped = {1, 2, 3, 4}
    MaxOperation = 2
    MaxDepth = 3
SYMMETRY Symmetry
VIEW WithoutLastEvent
CONSTRAINTS
    NothingUnseen
    Explored
CHECK_DEADLOCK FALSE
INVARIANTS
    AcceptedIsRight
    CleanIsAccepted
    WorkKeepsSubmitter
    NativeIsStore
PROPERTY
    BridgeImplementsAlgebra
