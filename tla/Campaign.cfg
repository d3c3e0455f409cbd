CONSTANTS
  w1 = w1
  w2 = w2
  Workers = {w1, w2}
  Parts = {"schedule", "campaign", "waves"}
  NrPhases = 2
  PhaseTimes = {1, 3}
  CaptureTimes = {1}
  StopAfter = 3
  Budget = 4
  DeviceCounts = {1, 3, 6}
  NrWaves = 2
  NrDevices = 2
  MaxSignals = 1
  MaxRestarts = 1
SPECIFICATION MCSpec
INVARIANTS
  MCTypeOK
  CompleteIsSound
  CountersMatchFiles
  PathsUnique
  PairsComplete
  PlanIsBalanced
  WavesAreSound
PROPERTIES
  OnePhaseAtATime
  MainEnds
CHECK_DEADLOCK FALSE
