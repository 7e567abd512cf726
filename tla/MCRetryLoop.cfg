SPECIFICATION FairSpec
CONSTANTS
  None = None
  Bounded = TRUE
  MaxVersion = 4
  MaxQueue = 1
  MaxFaults = 0
PROPERTY NoPermanentRetryLoop
CHECK_DEADLOCK FALSE
