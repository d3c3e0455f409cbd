CONSTANTS
  w1 = w1
  w2 = w2
  Workers = {w1}
  Parts = {"campaign"}
  NrPhases = 12
  PhaseTimes = {95}
  CaptureTimes = {10}
  StopAfter = 1010
  Budget = 1050
  DeviceCounts = {1}
  NrWaves = 2
  NrDevices = 2
  MaxSignals = 1
  MaxRestarts = 1
SPECIFICATION MCSpec
INVARIANT BudgetKept
CHECK_DEADLOCK FALSE
