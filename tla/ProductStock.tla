---------------------------- MODULE ProductStock ----------------------------
(***************************************************************************)
(* Stock of the products of one store: the number in the shop (POS) and    *)
(* the part of it that is listed on the EC sites.                          *)
(*                                                                         *)
(* A request (an API handler or a worker) runs in three moments, because   *)
(* the database is read before its rows are locked (MySQL, READ COMMITTED, *)
(* plain SELECTs):                                                         *)
(*    Start   caches the store's settings, which the rest of the request   *)
(*            uses (this.resources.store);                                 *)
(*    Load    reads the product's row without a lock and makes the checks  *)
(*            that only look at that row;                                  *)
(*    Commit  is the transaction from its first UPDATE of the product's    *)
(*            row, which locks the row until the commit, so that what      *)
(*            follows is atomic for this product.                          *)
(* A thrown error, a deadlock victim and a crash all leave nothing behind: *)
(* Abort.                                                                  *)
(***************************************************************************)
EXTENDS Integers

CONSTANTS
    Products,
    Infinite,      \* products whose item has infinite_stock
    EcAvailable,   \* products whose genre and category are sold on EC
    SpecialPrice,  \* is_special_price_product: logically deleted when sold out
    InfiniteStock, \* what their column holds: 1 when created, 1000000 when the item becomes infinite
    Requests,      \* the requests that may be in progress at one time
    Managers,      \* those of them that may change a product's reserve
    Ops,           \* the operations the requests perform
    Counts,        \* sizes of a stock movement
    Updates,       \* bodies of a product update
    StoreReserves, \* values of ec_setting.reserved_stock_number
    MaxStock,      \* bound: no movement takes a stock, or the units sold on EC, above it
    Null           \* an empty column or an absent field

Keep == "keep"     \* a field that the body of an update does not mention

UpdateBodies ==
    [mycalinks_ec_enabled      : {Keep, "on", "off"},
     changesReserve            : BOOLEAN,
     pos_reserved_stock_number : Nat \cup {Null},
     ecPublishStockNumber      : Nat,
     ecPublishToMaximum        : BOOLEAN,
     recalculateEcStockNumber  : BOOLEAN]

ASSUME StockAssumption ==
    /\ Infinite \subseteq Products
    /\ EcAvailable \subseteq Products
    /\ Counts \subseteq Nat \ {0}
    /\ Updates \subseteq UpdateBodies
    /\ StoreReserves \subseteq Nat
    /\ InfiniteStock \in Nat \ {0}
    /\ Managers \subseteq Requests
    /\ MaxStock \in Nat
    /\ Null \notin Nat

Row == [stock_number              : Nat,
        ec_stock_number           : Nat,
        pos_reserved_stock_number : Nat \cup {Null},
        mycalinks_ec_enabled      : BOOLEAN,
        deleted                   : BOOLEAN]

Ledger == [total : Int, result : Int]

Jobs ==
    [op : {"increase", "decrease", "ec_sell", "ec_return", "ec_return_stop"} \cap Ops,
     p : Products, n : Counts]
      \cup [op : {"enable", "delete"} \cap Ops, p : Products]
      \cup [op : {"update"} \cap Ops, p : Products, body : Updates]

NoJob == [op |-> "none"]
NoRow == [deleted |-> TRUE]

VARIABLES
    product,       \* the Product table
    stockLedger,   \* Product_Stock_History: sum of item_count and the last result_stock_number
    ecLedger,      \* Product_Ec_Stock_History, likewise (and the outbox rows, when linked)
    sold,          \* units sold on EC and not returned yet
    storeReserve,  \* the store's ec_setting.reserved_stock_number
    phase, job,    \* of each request: how far it is, and what it does
    setting,       \* of each request: the store's reserve when it started
    snap           \* of each request: the row it read

tables == <<product, stockLedger, ecLedger, sold>>
request == <<phase, job, setting, snap>>
vars == <<tables, storeReserve, request>>

-----------------------------------------------------------------------------
(* The EC share of a stock.                                                *)

\* pos_reserved_stock_number ?? the store's reserved_stock_number
Reserved(row, storeReserved) ==
    IF row.pos_reserved_stock_number = Null
    THEN storeReserved
    ELSE row.pos_reserved_stock_number

\* Mutant: nothing is kept for the shop.
MaximumEcIgnoringReserve(row, storeReserved) == row.stock_number

MaximumEc(row, storeReserved) ==
    IF row.stock_number > Reserved(row, storeReserved)
    THEN row.stock_number - Reserved(row, storeReserved)
    ELSE 0

\* checkEcStockNumberIsValid: what may still be listed, or (negative) must be delisted.
Margin(row, storeReserved) ==
    MaximumEc(row, storeReserved) - row.ec_stock_number

\* increaseEcStock (no return): the row after the UPDATE must leave no negative margin.
IncreaseEcAllowed(row, storeReserved, n) ==
    /\ n > 0
    /\ Margin([row EXCEPT !.ec_stock_number = @ + n], storeReserved) >= 0

\* Mutant: only the margin is checked, which an EC stock below 0 passes.
DecreaseEcBelowZero(row, storeReserved, n) ==
    Margin([row EXCEPT !.ec_stock_number = @ - n], storeReserved) >= 0

\* decreaseEcStock: neither the EC stock nor its margin may come out negative.
DecreaseEcAllowed(row, storeReserved, n) ==
    /\ row.ec_stock_number - n >= 0
    /\ Margin([row EXCEPT !.ec_stock_number = @ - n], storeReserved) >= 0

\* recalculateEcStockNumber: lists or delists the margin it was told, on the row as it is.
RelistAllowed(p, row, storeReserved, margin) ==
    margin # 0 =>
        /\ p \in EcAvailable
        /\ IF margin > 0
           THEN IncreaseEcAllowed(row, storeReserved, margin)
           ELSE DecreaseEcAllowed(row, storeReserved, -margin)

ListMore(row, n) == [row EXCEPT !.ec_stock_number = @ + n]

\* A history row is appended: its count, and the number the UPDATE returned.
Post(ledger, n, result) == [total |-> ledger.total + n, result |-> result]

PostIf(cond, ledger, n, result) == IF cond THEN Post(ledger, n, result) ELSE ledger

\* Mutant: the history shows the number from before the movement.
MovementWithOldResult(p, ledger, n, row) == PostIf(p \notin Infinite, ledger, n, ledger.result)

\* The stock history of an infinite product is not followed: its stock never moves.
Movement(p, ledger, n, row) == PostIf(p \notin Infinite, ledger, n, row.stock_number)

-----------------------------------------------------------------------------
(* The life of a request.                                                  *)

Init ==
    /\ product = [p \in Products |->
            [stock_number |-> IF p \in Infinite THEN InfiniteStock ELSE 0,
             ec_stock_number |-> 0,
             pos_reserved_stock_number |-> Null,
             mycalinks_ec_enabled |-> FALSE, deleted |-> FALSE]]
    /\ stockLedger = [p \in Products |-> [total |-> 0, result |-> 0]]
    /\ ecLedger = [p \in Products |-> [total |-> 0, result |-> 0]]
    /\ sold = [p \in Products |-> 0]
    /\ storeReserve \in StoreReserves
    /\ phase = [q \in Requests |-> "idle"]
    /\ job = [q \in Requests |-> NoJob]
    /\ setting = [q \in Requests |-> 0]
    /\ snap = [q \in Requests |-> NoRow]

Start(q, j) ==
    /\ phase[q] = "idle"
    /\ j.op = "update" /\ j.body.changesReserve => q \in Managers
    /\ phase' = [phase EXCEPT ![q] = "started"]
    /\ job' = [job EXCEPT ![q] = j]
    /\ setting' = [setting EXCEPT ![q] = storeReserve]
    /\ UNCHANGED <<tables, storeReserve, snap>>

\* The checks made on the row as it was read; a row that fails them ends the request.
Load(q) ==
    LET row == product[job[q].p] IN
    /\ phase[q] = "started"
    /\ ~row.deleted
    /\ job[q].op = "ec_sell" => row.mycalinks_ec_enabled
    /\ job[q].op = "delete" => row.stock_number = 0
    /\ phase' = [phase EXCEPT ![q] = "loaded"]
    /\ snap' = [snap EXCEPT ![q] = row]
    /\ UNCHANGED <<tables, storeReserve, job, setting>>

Finish(q) ==
    /\ phase' = [phase EXCEPT ![q] = "idle"]
    /\ job' = [job EXCEPT ![q] = NoJob]
    /\ setting' = [setting EXCEPT ![q] = 0]
    /\ snap' = [snap EXCEPT ![q] = NoRow]

\* The request throws, loses a deadlock or dies: its transaction is rolled back.
Abort(q) ==
    /\ phase[q] # "idle"
    /\ Finish(q)
    /\ UNCHANGED <<tables, storeReserve>>

Committing(q, op) == phase[q] = "loaded" /\ job[q].op = op

-----------------------------------------------------------------------------
(* The operations.                                                         *)

\* Mutant: stock that arrives is not listed.
NothingToList(p, row, n, storeReserved) == 0

\* What increaseStock lists on EC of the n units it has just added to row.
ToList(p, row, n, storeReserved) ==
    IF p \in Infinite \/ p \notin EcAvailable \/ Margin(row, storeReserved) <= 0
    THEN 0
    ELSE IF Margin(row, storeReserved) < n THEN Margin(row, storeReserved) ELSE n

\* increaseStock, every source kind but the return of an EC sale.
Increase(q) ==
    LET p == job[q].p
        n == job[q].n
        stocked == IF p \in Infinite
                   THEN product[p]
                   ELSE [product[p] EXCEPT !.stock_number = @ + n]
        listed == ToList(p, stocked, n, setting[q])
        row == ListMore(stocked, listed)
    IN
    /\ Committing(q, "increase")
    /\ row.stock_number <= MaxStock
    /\ listed > 0 => IncreaseEcAllowed(stocked, setting[q], listed)
    /\ product' = [product EXCEPT ![p] = row]
    /\ stockLedger' = [stockLedger EXCEPT ![p] = Movement(p, @, n, row)]
    /\ ecLedger' = [ecLedger EXCEPT ![p] = PostIf(listed > 0, @, listed, row.ec_stock_number)]
    /\ Finish(q)
    /\ UNCHANGED <<sold, storeReserve>>

\* A special price product is logically deleted with its last unit.
SoldOut(p, row) ==
    IF p \in SpecialPrice /\ row.stock_number <= 0
    THEN [row EXCEPT !.deleted = TRUE]
    ELSE row

\* Mutant: the EC listing is left as it was when POS stock leaves.
NothingToDelist(p, row, storeReserved) == 0

\* What decreaseStock takes off the EC listing after taking n off the stock.
ToDelist(p, row, storeReserved) ==
    IF p \notin Infinite /\ p \in EcAvailable /\ Margin(row, storeReserved) < 0
    THEN -Margin(row, storeReserved)
    ELSE 0

\* decreaseStock, every source kind but an EC sale.
Decrease(q) ==
    LET p == job[q].p
        n == job[q].n
        taken == IF p \in Infinite
                 THEN product[p]
                 ELSE [product[p] EXCEPT !.stock_number = @ - n]
        delisted == ToDelist(p, taken, setting[q])
        row == SoldOut(p, ListMore(taken, -delisted))
    IN
    /\ Committing(q, "decrease")
    /\ delisted > 0 => DecreaseEcAllowed(taken, setting[q], delisted)
    /\ row.stock_number >= 0
    /\ product' = [product EXCEPT ![p] = row]
    /\ stockLedger' = [stockLedger EXCEPT ![p] = Movement(p, @, -n, row)]
    /\ ecLedger' = [ecLedger EXCEPT ![p] = PostIf(delisted > 0, @, -delisted, row.ec_stock_number)]
    /\ Finish(q)
    /\ UNCHANGED <<sold, storeReserve>>

\* decreaseEcStock of a sale: the listing, then the stock (decreaseStock, ec_sell).
EcSell(q) ==
    LET p == job[q].p
        n == job[q].n
        listing == ListMore(product[p], -n)
        row == SoldOut(p, IF p \in Infinite
                          THEN listing
                          ELSE [listing EXCEPT !.stock_number = @ - n])
    IN
    /\ Committing(q, "ec_sell")
    /\ p \in EcAvailable
    /\ DecreaseEcAllowed(product[p], setting[q], n)
    /\ row.stock_number >= 0
    /\ sold[p] + n <= MaxStock
    /\ product' = [product EXCEPT ![p] = row]
    /\ stockLedger' = [stockLedger EXCEPT ![p] = Movement(p, @, -n, row)]
    /\ ecLedger' = [ecLedger EXCEPT ![p] = Post(@, -n, row.ec_stock_number)]
    /\ sold' = [sold EXCEPT ![p] = @ + n]
    /\ Finish(q)
    /\ UNCHANGED storeReserve

\* ecStop takes the product off the EC site, whatever is left of its listing.
Stopped(row, op) ==
    IF op = "ec_return_stop" THEN [row EXCEPT !.mycalinks_ec_enabled = FALSE] ELSE row

\* increaseEcStock of a return, with or without ecStop: no margin is asked for,
\* and the stock grows by the same number (increaseStock, ec_sell_return).
EcReturn(q) ==
    LET p == job[q].p
        n == job[q].n
        listing == Stopped(ListMore(product[p], n), job[q].op)
        row == IF p \in Infinite
               THEN listing
               ELSE [listing EXCEPT !.stock_number = @ + n]
    IN
    /\ phase[q] = "loaded" /\ job[q].op \in {"ec_return", "ec_return_stop"}
    /\ p \in EcAvailable
    /\ n <= sold[p]
    /\ row.stock_number <= MaxStock
    /\ product' = [product EXCEPT ![p] = row]
    /\ stockLedger' = [stockLedger EXCEPT ![p] = Movement(p, @, n, row)]
    /\ ecLedger' = [ecLedger EXCEPT ![p] = Post(@, n, row.ec_stock_number)]
    /\ sold' = [sold EXCEPT ![p] = @ - n]
    /\ Finish(q)
    /\ UNCHANGED storeReserve

\* enableEc called outside a transaction: the flag is committed by itself, and the row
\* that its UPDATE returned is what the recalculation will use.
Enable(q) ==
    LET row == [product[job[q].p] EXCEPT !.mycalinks_ec_enabled = TRUE] IN
    /\ Committing(q, "enable")
    /\ product' = [product EXCEPT ![job[q].p] = row]
    /\ snap' = [snap EXCEPT ![q] = row]
    /\ phase' = [phase EXCEPT ![q] = "enabled"]
    /\ UNCHANGED <<stockLedger, ecLedger, sold, storeReserve, job, setting>>

\* ... and then recalculates in a transaction of its own.
Recalculate(q) ==
    LET p == job[q].p
        margin == Margin(snap[q], setting[q])
        row == ListMore(product[p], margin)
    IN
    /\ phase[q] = "enabled"
    /\ RelistAllowed(p, product[p], setting[q], margin)
    /\ product' = [product EXCEPT ![p] = row]
    /\ ecLedger' = [ecLedger EXCEPT ![p] = PostIf(margin # 0, @, margin, row.ec_stock_number)]
    /\ Finish(q)
    /\ UNCHANGED <<stockLedger, sold, storeReserve>>

\* Whether update recalculates: the value before is the one read by Load.
ReserveWasChanged(before, body, updated) ==
    \/ /\ body.changesReserve
       /\ before.pos_reserved_stock_number # updated.pos_reserved_stock_number
    \/ body.recalculateEcStockNumber

\* The first UPDATE of update.
Updated(row, body) ==
    IF body.changesReserve
    THEN [row EXCEPT !.pos_reserved_stock_number = body.pos_reserved_stock_number]
    ELSE row

\* The UPDATE of enableEc.
Switched(row, body) ==
    IF body.mycalinks_ec_enabled = Keep
    THEN row
    ELSE [row EXCEPT !.mycalinks_ec_enabled = (body.mycalinks_ec_enabled = "on")]

\* What update publishes: the number asked for, or else all there is room for.
ToPublish(row, body, storeReserved) ==
    IF body.ecPublishStockNumber > 0
    THEN body.ecPublishStockNumber
    ELSE IF body.ecPublishToMaximum /\ Margin(row, storeReserved) > 0
         THEN Margin(row, storeReserved)
         ELSE 0

\* update: one transaction that writes the fields, enables EC, publishes, recalculates.
\* The recalculation is given the row as the first UPDATE returned it.
Update(q) ==
    LET p == job[q].p
        body == job[q].body
        updated == Updated(product[p], body)
        switched == Switched(updated, body)
        relisted == IF body.mycalinks_ec_enabled = "on"
                    THEN Margin(switched, setting[q]) ELSE 0
        enabled == ListMore(switched, relisted)
        publish == ToPublish(enabled, body, setting[q])
        published == ListMore(enabled, publish)
        recalculated == IF ReserveWasChanged(snap[q], body, updated)
                        THEN Margin(updated, setting[q]) ELSE 0
        row == ListMore(published, recalculated)
    IN
    /\ Committing(q, "update")
    /\ body.mycalinks_ec_enabled # Keep => ~updated.deleted
    /\ body.ecPublishToMaximum /\ body.ecPublishStockNumber = 0 => ~updated.deleted
    /\ RelistAllowed(p, switched, setting[q], relisted)
    /\ publish > 0 => p \in EcAvailable /\ IncreaseEcAllowed(enabled, setting[q], publish)
    /\ RelistAllowed(p, published, setting[q], recalculated)
    /\ product' = [product EXCEPT ![p] = row]
    /\ ecLedger' = [ecLedger EXCEPT ![p] =
            PostIf(<<relisted, publish, recalculated>> # <<0, 0, 0>>,
                   @, relisted + publish + recalculated, row.ec_stock_number)]
    /\ Finish(q)
    /\ UNCHANGED <<stockLedger, sold, storeReserve>>

\* delete: the stock was looked at by Load; the UPDATE asks nothing.
Delete(q) ==
    /\ Committing(q, "delete")
    /\ product' = [product EXCEPT ![job[q].p].deleted = TRUE]
    /\ Finish(q)
    /\ UNCHANGED <<stockLedger, ecLedger, sold, storeReserve>>

\* The store's setting is changed (the recalculation it asks of the workers is an update).
SetStoreReserve(r) ==
    /\ storeReserve # r
    /\ storeReserve' = r
    /\ UNCHANGED <<tables, request>>

Commit(q) ==
    \/ Increase(q) \/ Decrease(q)
    \/ EcSell(q) \/ EcReturn(q)
    \/ Enable(q) \/ Recalculate(q)
    \/ Update(q) \/ Delete(q)

Next ==
    \/ \E q \in Requests :
          \/ \E j \in Jobs : Start(q, j)
          \/ Load(q)
          \/ Commit(q)
          \/ Abort(q)
    \/ \E r \in StoreReserves : SetStoreReserve(r)

Spec == Init /\ [][Next]_vars

-----------------------------------------------------------------------------
(* Properties.                                                             *)

TypeOK ==
    /\ product \in [Products -> Row]
    /\ stockLedger \in [Products -> Ledger]
    /\ ecLedger \in [Products -> Ledger]
    /\ sold \in [Products -> Nat]
    /\ storeReserve \in StoreReserves
    /\ phase \in [Requests -> {"idle", "started", "loaded", "enabled"}]
    /\ job \in [Requests -> Jobs \cup {NoJob}]
    /\ setting \in [Requests -> Nat]
    /\ snap \in [Requests -> Row \cup {NoRow}]

\* Whatever stale row or stale setting the requests worked from, no more is listed on EC
\* than is in stock: every listed unit can be sold (increaseEcStock, decreaseStock).
EcBackedByStock ==
    \A p \in Products \ Infinite : product[p].ec_stock_number <= product[p].stock_number

\* The histories are an account of the rows: the counts of every movement add up to the
\* current number, which is the result the last history row shows (increaseStock,
\* decreaseStock, increaseEcStock, decreaseEcStock, through their nested calls).
LedgersAgree ==
    \A p \in Products \ Infinite :
        /\ stockLedger[p].total = product[p].stock_number
        /\ stockLedger[p].result = product[p].stock_number
        /\ ecLedger[p].total = product[p].ec_stock_number
        /\ ecLedger[p].result = product[p].ec_stock_number

\* The policy of 20250618: the EC listing is never below what the reserve allows, though the
\* reserve of a product changes while others move its stock (checkEcStockNumberIsValid,
\* update, recalculateEcStockNumber).  What EC sells of an infinite product nobody lists again.
NeverUnderListed ==
    \A p \in EcAvailable \ Infinite : Margin(product[p], storeReserve) <= 0

\* An EC sale never takes a unit that is reserved for the shop, unless a return had listed
\* more than the reserve allows (decreaseEcStock: the margin is looked at before the stock
\* itself moves, so the listing must not have been too long already).
EcSaleLeavesReserve ==
    [][\A p \in Products :
          sold'[p] > sold[p] /\ Margin(product[p], storeReserve) >= 0
            => product'[p].stock_number >= Reserved(product[p], storeReserve)]_vars

=============================================================================
