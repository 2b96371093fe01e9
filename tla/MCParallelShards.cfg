\* A cache of one address that drops the other one, two references per shard.
CONSTANTS
    Worker = {w1, w2}
    Addr = {a1, a2}
    None = None
    Void = Void
    Missing = Missing
    Found = Found
    Unset = Unset
    Threshold = 1
    STEP = 1
    LruMax = 1
    Elasticity = 1
    Word = 16
    MaxLen = 2
SPECIFICATION Spec
INVARIANTS
    TypeOK
    SerialExact
    NeverOvercounted
    KeptWithinCapacity
PROPERTY
    EventuallyOver
CHECK_DEADLOCK FALSE
