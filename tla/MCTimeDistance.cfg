\* A cache smaller than the number of addresses, words of four bits.
CONSTANTS
    Addr = {a1, a2, a3, a4, a5}
    STEP = 2
    LruMax = 2
    Elasticity = 2
    Word = 16
    MaxRefs = 7
SPECIFICATION TimeSpec
SYMMETRY Symmetry
INVARIANTS
    GlobalsTypeOK
    LruExact
    RetentionWindow
    HistogramBracketed
    SumBracketed
    SquaresBracketed
    BanksDense
PROPERTY
    UsesStore
CHECK_DEADLOCK FALSE
