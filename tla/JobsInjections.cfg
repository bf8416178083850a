SPECIFICATION JobSpec
CONSTANTS
  t1 = t1
  t2 = t2
  t3 = t3
  Tasks = {t1, t2}
  Reps = 1
  Sampled = 1
  MaxTasks = 2
  JobScripts <- RatesOnly
  size_bytes = 2
  nthreads = 1
  CHUNK = 2
  ALIGN = 2
  TransferReps = 1
  Conversations = {}
  WriteTools = {}
  Simulations = 0
INVARIANT InjectionsCold
CHECK_DEADLOCK FALSE
