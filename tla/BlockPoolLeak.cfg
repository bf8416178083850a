SPECIFICATION Spec
CONSTANTS
  r1 = r1
  r2 = r2
  r3 = r3
  Blocks = {b1, b2, b3, b4}
  Requests = {r1, r2, r3}
  PromptOf <- Shared
  Exact = {r1, r2, r3}
  MaxDecode = 1
  MaxPins = 3
  Preemptible = {r1, r2, r3}
PROPERTY ResetRestoresPool
