SPECIFICATION Spec
CONSTANTS
  None = None
  Bounded = FALSE
  MaxVersion = 5
  MaxQueue = 3
  MaxFaults = 0
INVARIANT NeverStranded
CHECK_DEADLOCK FALSE
