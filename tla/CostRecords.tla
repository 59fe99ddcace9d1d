---------------------------- MODULE CostRecords -----------------------------
(***************************************************************************)
(* What the units of one product have cost (Product_Wholesale_Price_       *)
(* History): records of the shelf, of each sale, and of each stocking, of  *)
(* which the last are notes of what came in.  A sale takes records from    *)
(* the shelf in the store's order, its return gives them back, and a store *)
(* that keeps averages rewrites all records of a place whenever one is     *)
(* added.                                                                  *)
(*                                                                         *)
(* The records of a place are the bag of its units, each with its price    *)
(* and its time of arrival; in how many rows they are kept is left out,    *)
(* and so is is_exact: any record without a price may be given one.        *)
(* Every operation but one is part of a transaction that has locked the    *)
(* product's row (ProductStock), so it is one step; only the product's     *)
(* average is calculated after the commit.  updateRecord locks no product: *)
(* a price it gives is first in variable given, where whoever has read the *)
(* records before does not see it.  One price is given while a transaction *)
(* is in progress.                                                         *)
(***************************************************************************)
EXTENDS Integers, FiniteSets, Functions, Bags

CONSTANTS
    Sales,      \* sales, losses, shipments: what takes records with it
    Stockings,  \* deliveries
    Prices,     \* what a unit may cost
    BuyPrice,   \* what a unit without a record is taken to have cost
    MaxStock,   \* bound: units in one place
    MaxPaid,    \* bound: what has been paid in all
    MaxClock,   \* bound: times of arrival
    MaxPending  \* bound: calculations that are to be made

Shelf == "shelf"
Places == {Shelf} \cup Sales \cup Stockings

ASSUME CostAssumption ==
    /\ IsFiniteSet(Sales)
    /\ Shelf \notin Sales \cup Stockings /\ Sales \cap Stockings = {}
    /\ Prices \subseteq Nat /\ BuyPrice \in Nat
    /\ MaxStock \in Nat /\ MaxPaid \in Nat /\ MaxClock \in Nat
    /\ MaxPending \in Nat

VARIABLES
    records,   \* Product_Wholesale_Price_History, by what it belongs to
    stock,     \* Product.stock_number
    stats,     \* the product's average, minimum, maximum and total cost
    setting,   \* the store's settings: how costs are kept and in which order used
    clock,
    pending,   \* calculations to be made after a commit
    paid,      \* what all units have cost when they came, or were said to have cost later
    gone,      \* what those have cost that left without a record
    missed,    \* whether the last calculation was not made
    given,     \* a price given to a record that a transaction in progress may have read
    crossed    \* whether such a transaction has moved or averaged that record

vars == <<records, stock, stats, setting, clock, pending, paid, gone, missed, given, crossed>>

Settings == [keep : {"individual", "average"}, column : {"unit_price", "arrived_at"},
             rule : {"asc", "desc"}]

NoPrice == [unit |-> [price |-> 0, at |-> 0], price |-> 0]

Init ==
    /\ records = [x \in Places |-> EmptyBag]
    /\ stock = 0
    /\ stats = [average |-> 0, minimum |-> 0, maximum |-> 0, total |-> 0]
    /\ setting \in Settings
    /\ clock = 0 /\ pending = 0
    /\ paid = 0 /\ gone = 0
    /\ missed = FALSE
    /\ given = NoPrice /\ crossed = FALSE

-----------------------------------------------------------------------------
(* Bags of units.                                                          *)

Unit(price) == [price |-> price, at |-> clock]
Copies(n, u) == [x \in {v \in {u} : n > 0} |-> n]

Size(b) == SumFunction(b)
Value(b) == SumFunction([u \in BagToSet(b) |-> b[u] * u.price])
\* The bags that can be taken out of b.
Parts(b) ==
    LET counts == 1..Size(b) IN
    UNION {{t \in [S -> counts] : t \sqsubseteq b} : S \in SUBSET BagToSet(b)}

Least(m, n) == IF m < n THEN m ELSE n

\* The order of getRecords: by the column and the rule of the store, or the other way round.
Key(u) == IF setting.column = "unit_price" THEN u.price ELSE u.at

NotAfter(u, v, reverse) ==
    IF (setting.rule = "asc") # reverse THEN Key(u) <= Key(v) ELSE Key(u) >= Key(v)

\* What getRecords may take: the first n units, or all there are.  Units of equal rank
\* come in any order.
Takings(b, n, reverse) ==
    {t \in Parts(b) :
        /\ Size(t) = Least(n, Size(b))
        /\ \A u \in BagToSet(t), v \in BagToSet(b (-) t) : NotAfter(u, v, reverse)}

\* What is missing is filled up at the spare price.
Filled(t, n, spare) == t (+) Copies(n - Size(t), Unit(spare))

\* The row of these units is given a price.
Priced(b, u, price) ==
    IF u \in BagToSet(b)
    THEN (b (-) Copies(b[u], u)) (+) Copies(b[u], [u EXCEPT !.price = price])
    ELSE b

OfPrice(b, price) == [u \in {v \in BagToSet(b) : v.price = price} |-> b[u]]

-----------------------------------------------------------------------------
(* setRecords, adjustDivide and generateRecords.                           *)

\* Mutant: what the division leaves over is dropped.
RoundedShares(total, n) == [low |-> total \div n, extra |-> 0]

\* extra units get one more than the others.
Shares(total, n) == [low |-> total \div n, extra |-> total % n]

Averaged(b) ==
    LET s == Shares(Value(b), Size(b)) IN
    Copies(Size(b) - s.extra, Unit(s.low)) (+) Copies(s.extra, Unit(s.low + 1))

\* Mutant: under averages the new records replace those that were there.
Overwritten(x, b) == IF setting.keep = "average" THEN Averaged(b) ELSE records[x] (+) b

\* The records of a place when b has been added.
WithRecords(x, b) ==
    IF setting.keep = "average" THEN Averaged(records[x] (+) b) ELSE records[x] (+) b

\* A row that was given a price keeps it when units are taken from it, are added to it or
\* stay; a row that is deleted and written again with what was read does not.
Landed(b) == IF given = NoPrice THEN b ELSE Priced(b, given.unit, given.price)

OnShelf == Landed(records[Shelf])
Left(b) == Landed(records[Shelf] (-) b)
Joined(b) ==
    IF setting.keep = "average" THEN WithRecords(Shelf, b) ELSE Landed(WithRecords(Shelf, b))

Lost(b) == given # NoPrice /\ given.unit \in BagToSet(b)

Takes(b) ==
    /\ given' = NoPrice
    /\ crossed' = (crossed \/ Lost(b))

Adds(b) ==
    /\ given' = NoPrice
    /\ crossed' = (crossed \/ Lost(b) \/ (given # NoPrice /\ setting.keep = "average"))

\* Mutant: the product's average is not calculated after a return.
NotScheduled == pending

Scheduled == pending + 1

\* Bounds: calculations on their way, a purchase, and what a sale or a delivery has records of.
Fits(n, cost) == stock + n <= MaxStock /\ paid + cost <= MaxPaid
MayChange == pending < MaxPending
HasRoom(x, n) == Size(records[x]) + n <= MaxStock

-----------------------------------------------------------------------------
(* increaseStock.                                                          *)

\* A purchase or a direct change (consigned goods cost 0).
Buy(n, price) ==
    /\ MayChange
    /\ Fits(n, n * price)
    /\ stock' = stock + n
    /\ records' = [records EXCEPT ![Shelf] = Joined(Copies(n, Unit(price)))]
    /\ Adds(Copies(n, Unit(price)))
    /\ paid' = paid + n * price
    /\ pending' = pending + 1
    /\ UNCHANGED <<stats, setting, clock, gone, missed>>

\* A delivery is noted as well.
Stocking(s, n, price) ==
    /\ MayChange
    /\ Fits(n, n * price) /\ HasRoom(s, n)
    /\ stock' = stock + n
    /\ records' = [records EXCEPT ![Shelf] = Joined(Copies(n, Unit(price))),
                                  ![s] = WithRecords(s, Copies(n, Unit(price)))]
    /\ Adds(Copies(n, Unit(price)))
    /\ paid' = paid + n * price
    /\ pending' = pending + 1
    /\ UNCHANGED <<stats, setting, clock, gone, missed>>

\* What the sale has taken last comes back first.  Two returns of one sale give back more
\* than it has: that has cost nothing.
Return(t, n) ==
    /\ MayChange
    /\ Fits(n, 0)
    /\ \E b \in Takings(records[t], n, TRUE) :
          /\ records' = [records EXCEPT ![t] = @ (-) b, ![Shelf] = Joined(Filled(b, n, 0))]
          /\ Adds(Filled(b, n, 0))
    /\ stock' = stock + n
    /\ pending' = Scheduled
    /\ UNCHANGED <<stats, setting, clock, paid, gone, missed>>

-----------------------------------------------------------------------------
(* decreaseStock.                                                          *)

\* The records of n units, of any price or of the one that is asked for.
FromShelf(n) ==
    {Filled(b, n, BuyPrice) : b \in Takings(records[Shelf], n, FALSE)}
        \cup UNION {Takings(OfPrice(records[Shelf], u.price), n, FALSE) :
                       u \in {v \in BagToSet(records[Shelf]) :
                                 Size(OfPrice(records[Shelf], v.price)) >= n}}

Sell(t, n) ==
    /\ MayChange
    /\ HasRoom(t, n)
    /\ stock - n >= 0
    /\ stock' = stock - n
    /\ \E b \in FromShelf(n) :
          /\ records' = [records EXCEPT ![Shelf] = Left(b), ![t] = WithRecords(t, b)]
          /\ Takes(b)
    /\ pending' = pending + 1
    /\ UNCHANGED <<stats, setting, clock, paid, gone, missed>>

\* A direct change, the return of a purchase, an opened box.
Spend(n) ==
    /\ MayChange
    /\ stock - n >= 0
    /\ stock' = stock - n
    /\ \E b \in FromShelf(n) :
          /\ records' = [records EXCEPT ![Shelf] = Left(b)]
          /\ Takes(b)
          /\ gone' = gone + Value(b)
    /\ pending' = pending + 1
    /\ UNCHANGED <<stats, setting, clock, paid, missed>>

\* A delivery is taken back: what is noted of it must be on the shelf at the same price.
StockingRollback(s, n) ==
    /\ MayChange
    /\ stock - n >= 0
    /\ Size(records[s]) >= n
    /\ stock' = stock - n
    /\ \E b \in Takings(records[s], n, FALSE), c \in Parts(records[Shelf]) :
          /\ \A u \in BagToSet(b) \cup BagToSet(c) :
                /\ Size(OfPrice(b, u.price)) = Size(OfPrice(c, u.price))
                /\ OfPrice(c, u.price) \in Takings(OfPrice(records[Shelf], u.price),
                                                   Size(OfPrice(b, u.price)), FALSE)
          /\ records' = [records EXCEPT ![s] = @ (-) b, ![Shelf] = Left(c)]
          /\ Takes(c)
          /\ gone' = gone + Value(c)
    /\ pending' = pending + 1
    /\ UNCHANGED <<stats, setting, clock, paid, missed>>

-----------------------------------------------------------------------------
(* The rest.                                                               *)

\* updateRecord: a stocktaking says later what units without a price have cost.  It looks
\* at the price when it reads, and writes by the row's id.
UpdateRecord(u, price) ==
    /\ MayChange
    /\ u.price = 0 /\ given = NoPrice
    /\ Fits(0, records[Shelf][u] * price)
    /\ given' = [unit |-> u, price |-> price]
    /\ paid' = paid + records[Shelf][u] * price
    /\ pending' = pending + 1
    /\ UNCHANGED <<records, stock, stats, setting, clock, gone, missed, crossed>>

\* Another stocktaking had read the row: its price counts.
UpdateAgain(price) ==
    LET n == records[Shelf][given.unit] IN
    /\ MayChange
    /\ given # NoPrice /\ given.unit \in BagToSet(records[Shelf])
    /\ Fits(0, n * (price - given.price))
    /\ records' = [records EXCEPT ![Shelf] = Priced(records[Shelf], given.unit, price)]
    /\ given' = NoPrice
    /\ paid' = paid + n * (price - given.price)
    /\ pending' = pending + 1
    /\ UNCHANGED <<stock, stats, setting, clock, gone, missed, crossed>>

\* Nobody had read the row, or whoever had has given up.
Settle ==
    /\ given # NoPrice
    /\ records' = [records EXCEPT ![Shelf] = OnShelf]
    /\ given' = NoPrice
    /\ UNCHANGED <<stock, stats, setting, clock, pending, paid, gone, missed, crossed>>

\* A change of several settings is several changes.
ChangeSetting ==
    /\ \/ \E k \in {"individual", "average"} \ {setting.keep} : setting' = [setting EXCEPT !.keep = k]
       \/ \E c \in {"unit_price", "arrived_at"} \ {setting.column} : setting' = [setting EXCEPT !.column = c]
       \/ \E r \in {"asc", "desc"} \ {setting.rule} : setting' = [setting EXCEPT !.rule = r]
    /\ UNCHANGED <<records, stock, stats, clock, pending, paid, gone, missed, given, crossed>>

Tick ==
    /\ clock < MaxClock
    /\ clock' = clock + 1
    /\ UNCHANGED <<records, stock, stats, setting, pending, paid, gone, missed, given, crossed>>

Stats(b) ==
    LET P == {u.price : u \in BagToSet(b)} IN
    [average |-> (2 * Value(b) + Size(b)) \div (2 * Size(b)),
     minimum |-> CHOOSE p \in P : \A q \in P : p <= q,
     maximum |-> CHOOSE p \in P : \A q \in P : p >= q,
     total |-> Value(b)]

\* After the commit.  Without records the inner join finds nothing to write.
Recalculate ==
    /\ pending > 0
    /\ pending' = pending - 1
    /\ stats' = IF OnShelf = EmptyBag THEN stats ELSE Stats(OnShelf)
    /\ missed' = FALSE
    /\ UNCHANGED <<records, stock, setting, clock, paid, gone, given, crossed>>

\* The process dies in between.
Die ==
    /\ pending > 0
    /\ pending' = pending - 1
    /\ missed' = TRUE
    /\ UNCHANGED <<records, stock, stats, setting, clock, paid, gone, given, crossed>>

Next ==
    \/ \E n \in 1..MaxStock :
          \/ \E p \in Prices : Buy(n, p)
          \/ \E s \in Stockings, p \in Prices : Stocking(s, n, p)
          \/ \E t \in Sales : Sell(t, n)
          \/ \E t \in Sales : Return(t, n)
          \/ Spend(n)
          \/ \E s \in Stockings : StockingRollback(s, n)
    \/ \E u \in BagToSet(records[Shelf]), p \in Prices \ {0} : UpdateRecord(u, p)
    \/ \E p \in Prices \ {0} : UpdateAgain(p)
    \/ Settle
    \/ ChangeSetting \/ Tick
    \/ Recalculate \/ Die

Spec == Init /\ [][Next]_vars

-----------------------------------------------------------------------------
(* Properties.                                                             *)

\* There is a record for every unit on the shelf, whatever was averaged, returned twice or
\* taken back, so that a sale never has to guess what a unit has cost (the comment of
\* Product_Wholesale_Price_History.item_count says so of averages).
RecordsCoverStock ==
    Size(OnShelf) = stock

\* No division, return or guess makes or loses money: what was paid for all units is on
\* the shelf, with the sales, or gone (adjustDivide, generateRecords, getRecords).  Nor does
\* a price that is given while somebody else is at work, unless it is given to a record
\* that he then moves or averages as he has read it.
ValueIsKept ==
    ~crossed =>
        paid = gone + Value(OnShelf) + SumFunction([t \in Sales |-> Value(records[t])])

\* The product shows the average of its records when no transaction is on its way, unless
\* the process died that had to calculate it last, or the shelf has become empty (the raw
\* UPDATE after the commit).
AveragesFollow ==
    pending = 0 /\ ~missed /\ stock > 0 => stats = Stats(OnShelf)

=============================================================================
