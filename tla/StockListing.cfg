SPECIFICATION Spec
CONSTANTS
    p1 = p1
    p2 = p2
    q1 = q1
    q2 = q2
    Null = Null
    Products = {p1, p2}
    Infinite = {p2}
    EcAvailable = {p1, p2}
    SpecialPrice = {}
    InfiniteStock = 1
    Requests = {q1, q2}
    Managers = {q1}
    Ops = {"increase", "decrease", "ec_sell", "ec_return", "update"}
    Counts = {1, 2}
    Updates <- ListingUpdates
    StoreReserves = {1}
    MaxStock = 2
INVARIANTS
    NeverUnderListed
PROPERTIES
    EcSaleLeavesReserve
