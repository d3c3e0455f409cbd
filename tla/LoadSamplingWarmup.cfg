CONSTANTS
  NrChase = 1
  NrLoad = 1
  NrSamples = 1
  Rates = {1}
  MaxCount = 1
SPECIFICATION FairSpec
INVARIANTS
  WarmupIsDropped
CHECK_DEADLOCK FALSE
