CONSTANTS
  NrThreads = 2
  MainCounts = FALSE
  Branch = TRUE
  Spurious = TRUE
SPECIFICATION Spec
INVARIANTS
  NoEarlyStart
CHECK_DEADLOCK FALSE
