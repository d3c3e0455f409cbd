CONSTANTS
  Parts = {"run", "options", "buffers"}
  NrChase = 1
  NrLoad = 2
  NrSamples = 3
  Rates = {1}
  MaxCount = 1
  Typed <- MCTyped
  Prefixes <- MCPrefixes
  Strides = {4, 8, 64, 160}
  MaxThreads = 3
  MaxOptions = 3
  NrBuffers = 2
  Requests <- MCRequests
  NativePage = 32
  Width = 16
  MaxPasses = 3
SPECIFICATION MCSpec
INVARIANTS
  MCTypeOK
  AnswersThisSample
  IntervalsAreRecent
  
  ThreadsAreReady
  
  PassesAreSound
PROPERTIES
  MultiloadEnds
CHECK_DEADLOCK FALSE
