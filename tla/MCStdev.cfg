\* Words wide enough that no sum or square of the trace overflows.
CONSTANTS
    Addr = {a1, a2}
    STEP = 2
    LruMax = 4
    Elasticity = 2
    Word = 4096
    MaxRefs = 5
SPECIFICATION TimeSpec
SYMMETRY Symmetry
INVARIANT
    StdevDefined
CHECK_DEADLOCK FALSE
