SPECIFICATION Spec
CONSTANTS
  Programs <- MCPrograms
  Passes = {"branch", "inst", "data", "old", "operands"}
  MaxSteps = 16
INVARIANTS
  TypeOK
  CountsWhatRan
  InitializedFirst
  ReportCoversMain
  ReportedOnce
CHECK_DEADLOCK FALSE
