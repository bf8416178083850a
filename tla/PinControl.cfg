SPECIFICATION Spec
CONSTANTS
  Bodies = {off, first1, first2}
  Off = off
  MaxClock = 4
INVARIANTS FreshWhenCalm MtimeVouches
CHECK_DEADLOCK FALSE
