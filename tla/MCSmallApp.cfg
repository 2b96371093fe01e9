\* A trace without any reuse, and its report.
CONSTANTS
    Addr = {1, 2, 3}
    Tid = {t1, t2}
    Unset = Unset
    Threshold = 1
    STEP = 1
    LruMax = 2
    Elasticity = 1
    Word = 16
    ReportTop = 2
    Tool = "instance"
    MaxRefs = 5
SPECIFICATION Spec
SYMMETRY Symmetry
INVARIANT
    SmallAppReported
CHECK_DEADLOCK FALSE
