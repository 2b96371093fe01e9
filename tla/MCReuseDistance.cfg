\* Two threads; the cache forgets addresses once three others were used.
CONSTANTS
    Addr = {1, 2, 3}
    Tid = {t1, t2}
    Unset = Unset
    Threshold = 1
    STEP = 1
    LruMax = 2
    Elasticity = 1
    Word = 16
    ReportTop = 2
    Tool = "data"
    MaxRefs = 5
SPECIFICATION Spec
SYMMETRY Symmetry
INVARIANTS
    TypeOK
    ShardConsistent
    ShardHistogramExact
    HalvesAgree
    AggregateExact
    ListsExact
    ListsDetermined
CHECK_DEADLOCK FALSE
