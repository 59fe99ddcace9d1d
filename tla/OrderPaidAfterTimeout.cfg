SPECIFICATION Spec
CONSTANTS
  c = c
  w1 = w1
  w2 = w2
  s1 = s1
  s2 = s2
  p1 = p1
  p2 = p2
  a = a
  b = b
  Null = Null
  Requests = {w1, w2}
  Allowed <- AnyTwo
  Stores = {a}
  SpecialPrice = {}
  Stock = 1
  Quantities = {1}
  Fee = 1
  Methods = {"CARD"}
  Payments = {p1}
  MaxDrafts = 0
  MaxDeliveries = 1
  CommitsMayFail = FALSE
CHECK_DEADLOCK FALSE
INVARIANT StockFollowsOrder
