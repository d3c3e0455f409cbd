CONSTANTS
  Programs = {"fairness", "pingpong"}
  NrWorkers = 2
  SweepMax = 2
  SampleSize = 1
  Cpus = {0, 2, 3}
  TestedCores = {1}
  NrSamples = 2
  Batch = 2
  MaxExchanges = 3
  Spurious = TRUE
SPECIFICATION MCSpec
INVARIANTS
  MCTypeOK
  RowsAreOfTheirPoint
  ExchangesAlternate
  TableIsSound
  PagesOutliveTheirUse
PROPERTIES
  BarrierOpens
  EveryPairEnds
CHECK_DEADLOCK FALSE
