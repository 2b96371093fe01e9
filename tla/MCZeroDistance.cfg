\* An increment of cur_inst_pc that is lost between two uses of an address.
CONSTANTS
    Worker = {w1, w2}
    Addr = {a1, a2}
    None = None
    Void = Void
    Missing = Missing
    Found = Found
    Unset = Unset
    Threshold = 1
    STEP = 1
    LruMax = 1
    Elasticity = 1
    Word = 16
    MaxLen = 2
SPECIFICATION Spec
INVARIANT
    DistancePositive
CHECK_DEADLOCK FALSE
