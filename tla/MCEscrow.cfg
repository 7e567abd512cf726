SPECIFICATION FairSpec
CONSTANTS
  None = None
  Users = {u1, u2}
  Bots = {b1}
  BuyIn = 1
  Bankroll = 2
  MaxRequests = 3
  Cases = {}
INVARIANTS TypeOK ClaimsBacked TableCanBeClosed
PROPERTIES WealthMovesAtSettlementOnly LeaversGetOut AbandonedTablesClose
