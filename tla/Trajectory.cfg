SPECIFICATION PrudentSpec
CONSTANTS
  TierSystems <- SmallSystems
  Waits = {0, 1, 2, 3, 5, 8}
  MaxSwitch = 7
  MaxAlpha = 3
  MaxBeta = 4
  Iters = 2
  Grain = 2
  DrawnSystems <- PrudentSystems
  DrawnWaits = {0, 3, 8}
  CDFs <- StepCDFs
INVARIANTS NeverBelowOptimum OptAttains FtpWithinError DetTwiceOnEnvelope SwitchAtTarget DegenerateNotEntered
PROPERTY ImplementsTrajectory
CHECK_DEADLOCK FALSE
