SPECIFICATION Spec
CONSTANTS
  c = c
  w1 = w1
  w2 = w2
  s1 = s1
  s2 = s2
  p1 = p1
  p2 = p2
  a = a
  b = b
  Null = Null
  Requests = {c, s1, s2}
  Allowed <- CustomerAndStores
  Stores = {a, b}
  SpecialPrice = {b}
  Stock = 2
  Quantities = {1, 2}
  Fee = 1
  Methods = {"CARD", "CASH_ON_DELIVERY"}
  Payments = {p1, p2}
  MaxDrafts = 1
  MaxDeliveries = 1
  CommitsMayFail = TRUE
SYMMETRY InterchangeablePayments
CHECK_DEADLOCK FALSE
INVARIANTS
  StockFollowsOrder
  RefundsAddUp
  MoneyIsCollected
PROPERTY ShippedIsFinal
