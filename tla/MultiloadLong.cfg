CONSTANTS
  Parts = {"chase"}
  NrThreads = 2
  MainCounts = FALSE
  Branch = FALSE
  Spurious = FALSE
  Kernels = {"parallel3"}
  SampleCounts = {1}
  MaxRounds = 1
  MaxSamples = 1
  Requests <- MCLong
  MinMixers = 2
  BranchChunk = 3
SPECIFICATION MCSpec
INVARIANT RowsInTable
CHECK_DEADLOCK FALSE
