CONSTANTS
  NrThreads = 1
  Kernels = {"parallel3"}
  SampleCounts = {3}
  MaxRounds = 1
  MaxSamples = 3
SPECIFICATION Spec
INVARIANT AverageOverSamplesTaken
CHECK_DEADLOCK FALSE
