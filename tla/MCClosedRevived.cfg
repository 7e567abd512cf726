\* A write and the restore after it fail, then an admin closes the table.
CONSTANTS
  Workers = {w1}
  Ids = {r1}
  Payloads = {a}
  Clocks = {t}
  None = None
  MaxVersion = 3
  RestoresFail = TRUE
  SeatCleanup = FALSE
SPECIFICATION Spec
INVARIANTS ClosedStaysClosed
CHECK_DEADLOCK FALSE
