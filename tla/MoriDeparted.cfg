SPECIFICATION Spec
CONSTANTS
  C_HBM = 2
  C_CPU = 1
  ALPHA_HBM_B = 1
  BETA_CPU_B = 1
  BETA_DISCARD_B = 2
  Gaps = {1}
  Waits = {1, 3}
  MaxArrivals = 5
PROPERTY EvictsUnderPressure
CHECK_DEADLOCK FALSE
