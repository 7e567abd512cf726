\* The read that restores a copy succeeds, admins close tables and do not
\* clean up seats.
CONSTANTS
  Workers = {w1, w2}
  Ids = {r1, r2}
  Payloads = {a, b}
  Clocks = {t}
  None = None
  MaxVersion = 3
  RestoresFail = FALSE
  SeatCleanup = FALSE
SPECIFICATION Spec
INVARIANTS RowsPointAtHistory ClosedStaysClosed
PROPERTIES NoLostUpdate DurableTableSpec
SYMMETRY Symmetry
CHECK_DEADLOCK FALSE
