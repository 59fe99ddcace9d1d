SPECIFICATION FairSpec
CONSTANTS
  c1 = c1
  c2 = c2
  w = w
  a = a
  Nobody = Nobody
  Sales = {a}
  Baskets <- Everything
  SpecialPrice = TRUE
  Stock = 2
  Points = 1
  Float = 1
  Requests = {c1, c2, w}
  Allowed <- TwoClerksAndSquare
  MaxDeliveries = 3
  MaxSpent = 1
  MaxSlips = 1
CHECK_DEADLOCK FALSE
INVARIANTS
  TypeOK
  GoodsAndPointsFollowSales
  DrawerFollowsPayments
  ReturnedOnce
PROPERTIES
  EndedStaysEnded
  PayingEnds
  PaidIsCompleted
