SPECIFICATION JobSpec
CONSTANTS
  t1 = t1
  t2 = t2
  t3 = t3
  Tasks = {t1, t2, t3}
  Reps = 2
  Sampled = 1
  MaxTasks = 3
  JobScripts <- Batch
  size_bytes = 14
  nthreads = 2
  CHUNK = 4
  ALIGN = 2
  TransferReps = 2
  Conversations <- Recorded
  WriteTools = {"cancel", "exchange"}
  Simulations = 3
INVARIANTS TrialsAsLabelled OneRowPerTask ColdWithinProcess PointsStartFresh TransfersWhole PromptsWellFormed
PROPERTY JobEnds
CHECK_DEADLOCK FALSE
