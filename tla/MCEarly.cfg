SPECIFICATION Spec
CONSTANTS
  Programs <- MCPrograms
  Passes = {"inst", "data"}
  MaxSteps = 6
INVARIANTS
  NothingBeforeMain
CHECK_DEADLOCK FALSE
