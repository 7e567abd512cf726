CONSTANTS
  Users = {}
  Guests = {g1}
  Sessions = {s1}
  Idle = Idle
  MaxWindow = 3
  MaxDay = 4
  DaysPerWeek = 2
  SessionDays = 2
  DailyCap = 2
  SessionCap = 3
  DeltaCap = 2
  ConversionCap = 1
SPECIFICATION Spec
PROPERTIES WindowPaidOnce
CHECK_DEADLOCK FALSE
