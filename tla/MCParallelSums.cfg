\* Words of four bits: INT64_MAX is 7.  5 and 5 overflow a bank and their squares
\* the low word; 0 and 15 are what a lost increment of cur_inst_pc leaves, and 15
\* exceeds INT64_MAX on its own.
CONSTANTS
    Worker = {w1, w2}
    Dist = {0, 5, 15}
    Word = 16
    MaxLen = 2
SPECIFICATION Spec
SYMMETRY Symmetry
INVARIANTS
    TypeOK
    SumsSerialExact
    SumNeverOverstated
    BankOvershoot
    SquaresWithinCarries
CHECK_DEADLOCK FALSE
