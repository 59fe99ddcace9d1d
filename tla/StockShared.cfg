SPECIFICATION Spec
CONSTANTS
    p1 = p1
    p2 = p2
    q1 = q1
    q2 = q2
    Null = Null
    Products = {p1}
    Infinite = {}
    EcAvailable = {p1}
    SpecialPrice = {p1}
    InfiniteStock = 1
    Requests = {q1, q2}
    Managers = {q1, q2}
    Ops = {"increase", "decrease", "ec_sell", "ec_return_stop", "enable", "update", "delete"}
    Counts = {1}
    Updates <- SharedUpdates
    StoreReserves = {0, 1}
    MaxStock = 2
SYMMETRY Symmetry
INVARIANTS
    TypeOK
    EcBackedByStock
    LedgersAgree
