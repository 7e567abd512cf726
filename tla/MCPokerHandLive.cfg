CONSTANTS
  NSeats = 3
  Bots = {1}
  SmallBlind = 1
  BigBlind = 2
  BuyIns = {1, 2}
  Ranks = {1}
SPECIFICATION FairSpec
PROPERTIES HandsEnd
CHECK_DEADLOCK FALSE
