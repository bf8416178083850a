SPECIFICATION PrudentSpec
CONSTANTS
  TierSystems <- OffEnvelope
  Waits = {1, 5, 10, 12}
  MaxSwitch = 3
  MaxAlpha = 3
  MaxBeta = 4
  Iters = 0
  Grain = 1
  DrawnSystems = {}
  DrawnWaits = {}
  CDFs = {}
INVARIANT DetWithinFour
CHECK_DEADLOCK FALSE
