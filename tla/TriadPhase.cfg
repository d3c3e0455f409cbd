CONSTANTS
  N = 2
  MaxSignals = 2
SPECIFICATION Spec
INVARIANTS
  TypeOK
  OkIsSound
  WarmupNeverOverlaps
  NothingLeftRunning
  FailedMeansStopped
PROPERTIES
  ImplementsContract
  PhaseReturns
  WorkersEnd
CHECK_DEADLOCK FALSE
