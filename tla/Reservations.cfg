SPECIFICATION FairSpec
CONSTANTS
  r1 = r1
  r2 = r2
  r3 = r3
  q1 = q1
  q2 = q2
  Nobody = Nobody
  Receptions = {r1, r2, r3}
  CustomerOf <- Customers
  CountOf <- Counts
  LimitCounts = {2, 3}
  LimitsPerUser = {2}
  Requests = {q1, q2}
  Allowed <- Counter
  Settable = {"NOT_STARTED", "OPEN", "CLOSED", "FINISHED"}
  MaxStock = 2
  MaxChanges = 3
  MaxSlips = 1
CHECK_DEADLOCK FALSE
INVARIANTS
  TypeOK
  DepositsFollowReceptions
PROPERTIES
  LimitsKept
  ReservedIsKept
  FinishesWhenServed
