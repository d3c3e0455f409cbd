CONSTANTS
  Parts = {"run", "chase"}
  NrThreads = 2
  MainCounts = FALSE
  Branch = TRUE
  Spurious = FALSE
  Kernels = {"parallel3"}
  SampleCounts = {0, 1, 2}
  MaxRounds = 2
  MaxSamples = 2
  Requests <- MCRequests
  MinMixers = 2
  BranchChunk = 3
SPECIFICATION MCSpec
INVARIANTS
  MCTypeOK
  NoEarlyStart
  NoLostWakeup
  DereferencesCountedOnce
  OneCycle
  SlotsDisjoint
  GroupsVisitedOnce
  ChunksAreEven
CHECK_DEADLOCK FALSE
