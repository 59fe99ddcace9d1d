SPECIFICATION Spec
CONSTANTS
  Sales = {"sale"}
  Stockings = {"stocking"}
  Prices = {0, 3}
  BuyPrice = 2
  MaxStock = 2
  MaxPaid = 3
  MaxClock = 1
  MaxPending = 1
CHECK_DEADLOCK FALSE
INVARIANTS
  RecordsCoverStock
  ValueIsKept
  AveragesFollow
