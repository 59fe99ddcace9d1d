SPECIFICATION FairSpec
CONSTANTS
  p1 = p1
  o1 = o1
  w1 = w1
  w2 = w2
  Nobody = Nobody
  Products = {p1}
  MaxListed = 1
  MaxChanges = 4
  Orders = {o1}
  Workers = {w1, w2}
  ChunkSize = 2
  MaxReceives = 2
  MaxFailures = 1
  MaxLate = 0
CHECK_DEADLOCK FALSE
INVARIANTS
  ShopInStep
  UndeletedIsTakenAgain
PROPERTIES
  ShopCatchesUp
