CONSTANTS
    Key = {k1, k2, k3, k4}
    Value = {v1, v2}
    Node = {n1, n2, n3, n4}
    MaxSize = 2
    Elasticity = 2
SPECIFICATION Spec
SYMMETRY Symmetry
INVARIANTS
    TypeOK
    IndexMatchesList
    SizeBounded
PROPERTY
    ImplementsStore
CHECK_DEADLOCK FALSE
