SPECIFICATION Spec
CONSTANTS
    s1 = s1
    s2 = s2
    i1 = i1
    i2 = i2
    i3 = i3
    Registries <- MCRegistries
    RpcIds <- MCRpcIds
    MaxTag = 4
SYMMETRY Symmetry
CHECK_DEADLOCK FALSE
INVARIANTS
    ReadableIsLoadable
    MappingAgrees
    OneRowPerId
PROPERTY
    ImplementsAlgebra
