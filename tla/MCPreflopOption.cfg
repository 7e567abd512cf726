CONSTANTS
  NSeats = 3
  Bots = {}
  SmallBlind = 1
  BigBlind = 2
  BuyIns = {3}
  Ranks = {1, 2}
SPECIFICATION Spec
PROPERTIES PreflopOption
CHECK_DEADLOCK FALSE
