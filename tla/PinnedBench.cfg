SPECIFICATION BenchSpec
CONSTANTS
  s1 = s1
  s2 = s2
  p1 = p1
  p2 = p2
  q1 = q1
  q2 = q2
  Blocks = {b1, b2, b3}
  Requests <- AllRequests
  PromptOf <- Prompts
  Exact = {q1}
  MaxDecode = 1
  MaxPins = 2
  Preemptible = {s1, s2, p1, p2, q1, q2}
  Points <- ThreePoints
  Sends <- TwoSends
  Probes <- TwoProbes
  Load = {q1, q2}
  MaxLingering = 1
INVARIANTS PinsAreTheSuspended MissesExplained OneRowPerTask StartsCold
PROPERTIES BenchEnds
CHECK_DEADLOCK FALSE
