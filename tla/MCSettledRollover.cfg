SPECIFICATION FairSpec
CONSTANTS
  None = None
  Bounded = TRUE
  MaxVersion = 4
  MaxQueue = 2
  MaxFaults = 3
INVARIANTS TypeOK HandIsDurable LookedAfter
PROPERTIES DealtAfterReveal TableGoesOn
