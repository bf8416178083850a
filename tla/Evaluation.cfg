SPECIFICATION EvaluationSpec
CONSTANTS
  C_HBM = 2
  C_CPU = 1
  ALPHA_HBM_B = 2
  BETA_CPU_B = 2
  BETA_DISCARD_B = 6
  Gaps = {0, 1}
  Waits = {0, 3, 5}
  MaxArrivals = 4
  W_REF = 3
  Tau = 2
  Chances <- SomeChances
INVARIANTS WithinCapacity ForcedOnlyWhenFull ImmediateNeverForced NobodyBeatsTheOracle EvictsOldestFirst
CHECK_DEADLOCK FALSE
