\* One thread, its branches and its report.
CONSTANTS
    Thread = {t1}
    Addr = {0, 1}
    Size = {1}
    InstrType = {"conditional_jump", "other"}
    Version = {}
    Time = {}
    SkipRefs = 0
    SimRefs = 0
    LongMax = 1
    Unset = Unset
    MaxRecords = 4
SPECIFICATION Spec
SYMMETRY Symmetry
INVARIANT
    TakenIsTaken
CHECK_DEADLOCK FALSE
