CONSTANTS
  NrChase = 1
  NrLoad = 1
  NrSamples = 1
  Rates = {0, 1}
  MaxCount = 1
SPECIFICATION FairSpec
PROPERTIES
  SamplingEnds
CHECK_DEADLOCK FALSE
