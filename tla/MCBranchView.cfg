\* One record is skipped and three are looked at; the address 2 does not fit a
\* long.
CONSTANTS
    Thread = {t1, t2}
    Addr = {0, 1, 2}
    Size = {1}
    InstrType = {"conditional_jump", "other"}
    Version = {v1, v2}
    Time = {1, 2}
    SkipRefs = 1
    SimRefs = 3
    LongMax = 1
    Unset = Unset
    MaxRecords = 5
SPECIFICATION Spec
SYMMETRY Symmetry
INVARIANTS
    TypeOK
    WindowExact
    TimestampOfWindow
    OwnThreadExact
    EachBranchOnce
    EntropyIsBestGuess
CHECK_DEADLOCK FALSE
