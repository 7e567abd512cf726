CONSTANTS
  Users = {u1}
  Guests = {g1}
  Sessions = {s1}
  Idle = Idle
  MaxWindow = 0
  MaxDay = 3
  DaysPerWeek = 2
  SessionDays = 2
  DailyCap = 1
  SessionCap = 2
  DeltaCap = 2
  ConversionCap = 1
SPECIFICATION FairSpec
INVARIANTS TypeOK CapsHold CountersAgree BoardsMatchLedger OptOutIsMarked
PROPERTIES MaintenanceConverges
