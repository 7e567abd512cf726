CONSTANTS
  NSeats = 3
  Bots = {}
  SmallBlind = 1
  BigBlind = 2
  BuyIns = {1, 3}
  Ranks = {1, 2, 3}
SPECIFICATION Spec
INVARIANTS TypeOK HandAccounting StreetsStartEven TurnCanAct NoOverclaim
PROPERTIES ChipsConserved HandStakesSpec
CHECK_DEADLOCK FALSE
