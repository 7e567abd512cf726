\* Everything the environment may do wrong, one version less.
CONSTANTS
  Workers = {w1, w2}
  Ids = {r1, r2}
  Payloads = {a, b}
  Clocks = {t}
  None = None
  MaxVersion = 2
  RestoresFail = TRUE
  SeatCleanup = TRUE
SPECIFICATION Spec
INVARIANTS TypeOK AcceptedIsDurable VersionsAreUnique
SYMMETRY Symmetry
CHECK_DEADLOCK FALSE
