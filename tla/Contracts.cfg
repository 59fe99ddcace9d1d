SPECIFICATION Spec
CONSTANTS
  k1 = k1
  k2 = k2
  e1 = e1
  e2 = e2
  t1 = t1
  t2 = t2
  q1 = q1
  q2 = q2
  r1 = r1
  r2 = r2
  Nobody = Nobody
  Contracts = {k1, k2}
  Emails = {e1, e2}
  Tries = {t1, t2}
  Requests = {q1, q2}
  Runs = {r1, r2}
  FirstDay <- Calendar
  Starts = {2}
  LastDay = 4
  MaxSlips = 1
SYMMETRY Interchangeable
CHECK_DEADLOCK FALSE
INVARIANTS
  FeeOncePerMonth
  StartedOncePaid
  NoMonthIsForgotten
