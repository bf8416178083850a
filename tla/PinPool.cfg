SPECIFICATION Spec
CONSTANTS
  Blocks = {b1, b2, b3}
  Requests = {r1, r2, r3}
  MaxPins = 2
  Preemptible = {r1}
SYMMETRY Symmetry
INVARIANTS TypeOK RefCntCountsHolders OneOwner NoBlockLost PinnedHasContent PinsBounded
PROPERTIES VictimExclusion UnpinGoesSomewhere ResetRestoresPool
