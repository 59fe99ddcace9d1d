------------------------- MODULE ProductStockProofs -------------------------
(***************************************************************************)
(* Proofs about ProductStock, for every set of products, requests and      *)
(* operations, every bound and every value of the reserves.                *)
(***************************************************************************)
EXTENDS ProductStock, TLAPS

(* What is known of a job that has been started. *)
LEMMA JobType ==
    ASSUME NEW j \in Jobs \cup {NoJob}
    PROVE  /\ j.op \in {"increase", "decrease", "ec_sell", "ec_return", "ec_return_stop"}
                => j.p \in Products /\ j.n \in Nat /\ j.n > 0
           /\ j.op \in {"enable", "delete"} => j.p \in Products
           /\ j.op = "update" => j.p \in Products /\ j.body \in UpdateBodies
<1> DEFINE moving == {"increase", "decrease", "ec_sell", "ec_return", "ec_return_stop"}
<1>1. CASE j \in [op : moving \cap Ops, p : Products, n : Counts]
  <2>1. j.op \in moving /\ j.p \in Products /\ j.n \in Counts
    BY <1>1
  <2>2. Counts \subseteq Nat \ {0}
    BY StockAssumption
  <2>3. j.n \in Nat /\ j.n # 0
    BY <2>1, <2>2
  <2>4. j.n > 0
    BY <2>3
  <2>5. QED
    BY <2>1, <2>3, <2>4
<1>2. CASE j \in [op : {"enable", "delete"} \cap Ops, p : Products]
  <2>1. j.op \in {"enable", "delete"} /\ j.p \in Products
    BY <1>2
  <2>2. QED
    BY <2>1
<1>3. CASE j \in [op : {"update"} \cap Ops, p : Products, body : Updates]
  <2>1. j.op = "update" /\ j.p \in Products /\ j.body \in Updates
    BY <1>3
  <2>2. QED
    BY <2>1, StockAssumption
<1>4. CASE j = NoJob
  BY <1>4 DEF NoJob
<1>5. QED
  BY <1>1, <1>2, <1>3, <1>4 DEF Jobs

(* The margin of a row is an integer; listing it all leaves the maximum. *)
LEMMA MarginInt ==
    ASSUME NEW row \in Row, NEW r \in Nat
    PROVE  /\ Reserved(row, r) \in Nat
           /\ MaximumEc(row, r) \in Nat
           /\ MaximumEc(row, r) <= row.stock_number
           /\ Margin(row, r) \in Int
           /\ Margin(row, r) = MaximumEc(row, r) - row.ec_stock_number
<1>1. Reserved(row, r) \in Nat
  BY DEF Row, Reserved
<1>2. QED
  BY <1>1 DEF Row, MaximumEc, Margin

(* Listing more, or less, on a row. *)
LEMMA ListMoreRow ==
    ASSUME NEW row \in Row, NEW n \in Int, row.ec_stock_number + n \in Nat
    PROVE  /\ ListMore(row, n) \in Row
           /\ ListMore(row, n).ec_stock_number = row.ec_stock_number + n
           /\ ListMore(row, n).stock_number = row.stock_number
           /\ ListMore(row, n).deleted = row.deleted
BY DEF Row, ListMore

LEMMA ListLessRow ==
    ASSUME NEW row \in Row, NEW n \in Int, row.ec_stock_number - n \in Nat
    PROVE  /\ ListMore(row, -n) \in Row
           /\ ListMore(row, -n).ec_stock_number = row.ec_stock_number - n
           /\ ListMore(row, -n).stock_number = row.stock_number
BY DEF Row, ListMore

(* What a permitted increase or decrease of the listing ensures. *)
LEMMA IncreaseBacked ==
    ASSUME NEW row \in Row, NEW r \in Nat, NEW n \in Int,
           IncreaseEcAllowed(row, r, n)
    PROVE  /\ row.ec_stock_number + n \in Nat
           /\ row.ec_stock_number + n <= row.stock_number
<1> DEFINE listed == [row EXCEPT !.ec_stock_number = @ + n]
<1>1. n > 0 /\ Margin(listed, r) >= 0
  BY DEF IncreaseEcAllowed
<1>2. row.ec_stock_number + n \in Nat
  BY <1>1 DEF Row
<1>3. listed \in Row /\ listed.ec_stock_number = row.ec_stock_number + n
        /\ listed.stock_number = row.stock_number
  BY <1>2 DEF Row
<1>4. /\ MaximumEc(listed, r) \in Nat
      /\ MaximumEc(listed, r) <= row.stock_number
      /\ Margin(listed, r) = MaximumEc(listed, r) - (row.ec_stock_number + n)
  BY <1>3, MarginInt
<1> HIDE DEF listed
<1>5. QED
  BY <1>1, <1>2, <1>4 DEF Row

LEMMA RelistBacked ==
    ASSUME NEW p, NEW row \in Row, NEW r \in Nat, NEW m \in Int,
           RelistAllowed(p, row, r, m)
    PROVE  /\ ListMore(row, m) \in Row
           /\ row.ec_stock_number <= row.stock_number
                => ListMore(row, m).ec_stock_number <= row.stock_number
           /\ ListMore(row, m).stock_number = row.stock_number
           /\ ListMore(row, m).ec_stock_number = row.ec_stock_number + m
           /\ p \notin EcAvailable => m = 0
<1>1. CASE m = 0
  BY <1>1, ListMoreRow DEF Row
<1>2. CASE m > 0
  <2>1. p \in EcAvailable /\ IncreaseEcAllowed(row, r, m)
    BY <1>2 DEF RelistAllowed
  <2>2. row.ec_stock_number + m \in Nat /\ row.ec_stock_number + m <= row.stock_number
    BY <2>1, IncreaseBacked
  <2>3. QED
    BY <2>1, <2>2, ListMoreRow
<1>3. CASE m < 0
  <2>1. p \in EcAvailable /\ DecreaseEcAllowed(row, r, -m)
    BY <1>3 DEF RelistAllowed
  <2>2. row.ec_stock_number + m \in Nat
    BY <2>1 DEF DecreaseEcAllowed, Row
  <2>3. QED
    BY <1>3, <2>1, <2>2, ListMoreRow DEF Row
<1>4. QED
  BY <1>1, <1>2, <1>3

-----------------------------------------------------------------------------
(* The inductive invariant: the type invariant in three parts, with what is *)
(* known of one row.  EcBackedByStock alone is not inductive: taking stock  *)
(* off a product that EC does not sell leaves its listing alone, so it must *)
(* be known that such a product lists nothing.                              *)

RowOK(p, row) ==
    /\ row \in Row
    /\ p \notin Infinite => row.ec_stock_number <= row.stock_number
    /\ p \notin EcAvailable => row.ec_stock_number = 0

RowsOK ==
    /\ product \in [Products -> Row]
    /\ \A p \in Products : RowOK(p, product[p])

AccountsOK ==
    /\ stockLedger \in [Products -> Ledger]
    /\ ecLedger \in [Products -> Ledger]
    /\ sold \in [Products -> Nat]
    /\ storeReserve \in StoreReserves

RequestsOK ==
    /\ phase \in [Requests -> {"idle", "started", "loaded", "enabled"}]
    /\ job \in [Requests -> Jobs \cup {NoJob}]
    /\ setting \in [Requests -> Nat]
    /\ snap \in [Requests -> Row \cup {NoRow}]
    \* a row has been read by a request that is past its Load
    /\ \A q \in Requests : phase[q] \in {"loaded", "enabled"} => snap[q] \in Row
    \* a request that has started has a job
    /\ \A q \in Requests : phase[q] # "idle" => job[q] \in Jobs
    \* enableEc is the only operation with a second commit
    /\ \A q \in Requests : phase[q] = "enabled" => job[q].op = "enable"

StockInv == RowsOK /\ AccountsOK /\ RequestsOK

LEMMA StockInvType == StockInv => TypeOK /\ EcBackedByStock
BY DEF StockInv, RowsOK, RowOK, AccountsOK, RequestsOK, TypeOK, EcBackedByStock

(* Replacing one row by a good one. *)
LEMMA OneRow ==
    ASSUME RowsOK, NEW p \in Products, NEW row, RowOK(p, row),
           product' = [product EXCEPT ![p] = row]
    PROVE  RowsOK'
BY DEF RowsOK, RowOK

LEMMA FinishKeepsRequests ==
    ASSUME RequestsOK, NEW q \in Requests, Finish(q)
    PROVE  RequestsOK'
<1>1. NoJob \in Jobs \cup {NoJob} /\ NoRow \in Row \cup {NoRow} /\ 0 \in Nat
  OBVIOUS
<1>2. QED
  BY <1>1 DEF RequestsOK, Finish

LEMMA PostType ==
    ASSUME NEW l \in Ledger, NEW n \in Int, NEW r \in Int
    PROVE  Post(l, n, r) \in Ledger
BY DEF Post, Ledger

LEMMA PostIfType ==
    ASSUME NEW c, NEW l \in Ledger, NEW n \in Int, NEW r \in Int
    PROVE  PostIf(c, l, n, r) \in Ledger
BY PostType DEF PostIf

LEMMA MovementType ==
    ASSUME NEW p, NEW l \in Ledger, NEW n \in Int, NEW row \in Row
    PROVE  Movement(p, l, n, row) \in Ledger
BY PostIfType DEF Movement, Row

-----------------------------------------------------------------------------
(* One lemma per operation. *)

(* What is known of a request that commits. *)
LEMMA Committer ==
    ASSUME StockInv, NEW q \in Requests, phase[q] = "loaded",
           job[q].op \in {"increase", "decrease", "ec_sell", "ec_return", "ec_return_stop"}
    PROVE  /\ job[q].p \in Products
           /\ job[q].n \in Nat /\ job[q].n > 0
           /\ setting[q] \in Nat
           /\ RowOK(job[q].p, product[job[q].p])
<1>1. job[q] \in Jobs \cup {NoJob} /\ setting[q] \in Nat
  BY DEF StockInv, RequestsOK
<1>2. job[q].p \in Products /\ job[q].n \in Nat /\ job[q].n > 0
  BY <1>1, JobType
<1>3. QED
  BY <1>1, <1>2 DEF StockInv, RowsOK

LEMMA ToListType ==
    ASSUME NEW p, NEW row \in Row, NEW n \in Nat, NEW r \in Nat
    PROVE  /\ ToList(p, row, n, r) \in Nat
           /\ ToList(p, row, n, r) > 0 => p \notin Infinite /\ p \in EcAvailable
<1> DEFINE m == Margin(row, r)
<1>1. m \in Int
  BY MarginInt
<1>2. CASE p \in Infinite \/ p \notin EcAvailable \/ m <= 0
  BY <1>2 DEF ToList
<1>3. CASE p \notin Infinite /\ p \in EcAvailable /\ m > 0
  <2>1. ToList(p, row, n, r) = IF m < n THEN m ELSE n
    BY <1>1, <1>3 DEF ToList
  <2> HIDE DEF m
  <2>2. QED
    BY <1>1, <1>3, <2>1
<1>4. QED
  BY <1>1, <1>2, <1>3

LEMMA IncreaseKeeps ==
    ASSUME StockInv, NEW q \in Requests, Increase(q)
    PROVE  StockInv'
<1> DEFINE p == job[q].p
           n == job[q].n
           stocked == IF p \in Infinite
                      THEN product[p]
                      ELSE [product[p] EXCEPT !.stock_number = @ + n]
           listed == ToList(p, stocked, n, setting[q])
           row == ListMore(stocked, listed)
<1>1. /\ p \in Products /\ n \in Nat /\ n > 0 /\ setting[q] \in Nat
      /\ RowOK(p, product[p])
  BY Committer DEF Increase, Committing
<1>2. /\ listed > 0 => IncreaseEcAllowed(stocked, setting[q], listed)
      /\ product' = [product EXCEPT ![p] = row]
      /\ stockLedger' = [stockLedger EXCEPT ![p] = Movement(p, @, n, row)]
      /\ ecLedger' = [ecLedger EXCEPT ![p] = PostIf(listed > 0, @, listed, row.ec_stock_number)]
      /\ Finish(q)
      /\ UNCHANGED <<sold, storeReserve>>
  BY DEF Increase
<1>3. stocked \in Row /\ RowOK(p, stocked)
  BY <1>1 DEF RowOK, Row
<1>4. listed \in Nat /\ (listed > 0 => p \notin Infinite /\ p \in EcAvailable)
  BY <1>1, <1>3, ToListType
<1> HIDE DEF stocked, listed, p, n
<1>5. stocked.ec_stock_number + listed \in Nat
  BY <1>3, <1>4 DEF Row
<1>6. row \in Row /\ row.ec_stock_number = stocked.ec_stock_number + listed
        /\ row.stock_number = stocked.stock_number
  BY <1>3, <1>4, <1>5, ListMoreRow
<1>7. listed > 0 => stocked.ec_stock_number + listed <= stocked.stock_number
  BY <1>1, <1>2, <1>3, <1>4, IncreaseBacked
<1>8. RowOK(p, row)
  <2> HIDE DEF row
  <2>1. CASE listed > 0
    BY <1>4, <1>6, <1>7, <2>1 DEF RowOK
  <2>2. CASE listed = 0
    BY <1>3, <1>6, <2>2 DEF RowOK, Row
  <2>3. QED
    BY <1>4, <2>1, <2>2
<1>9. RowsOK'
  BY <1>1, <1>2, <1>8, OneRow DEF StockInv
<1>10. AccountsOK'
  <2> HIDE DEF row
  <2>1. Movement(p, stockLedger[p], n, row) \in Ledger
    BY <1>1, <1>6, MovementType DEF StockInv, AccountsOK
  <2>2. PostIf(listed > 0, ecLedger[p], listed, row.ec_stock_number) \in Ledger
    BY <1>1, <1>4, <1>6, PostIfType DEF StockInv, AccountsOK, Row
  <2>3. QED
    BY <1>1, <1>2, <2>1, <2>2 DEF StockInv, AccountsOK
<1>11. QED
  BY <1>2, <1>9, <1>10, FinishKeepsRequests DEF StockInv

LEMMA SoldOutRow ==
    ASSUME NEW p, NEW row \in Row
    PROVE  /\ SoldOut(p, row) \in Row
           /\ SoldOut(p, row).stock_number = row.stock_number
           /\ SoldOut(p, row).ec_stock_number = row.ec_stock_number
BY DEF SoldOut, Row

(* After ToDelist nothing is listed beyond the maximum of the new row, whose stock may
   still be found negative; only then is the row written. *)
LEMMA DecreaseKeeps ==
    ASSUME StockInv, NEW q \in Requests, Decrease(q)
    PROVE  StockInv'
<1> DEFINE p == job[q].p
           n == job[q].n
           taken == IF p \in Infinite
                    THEN product[p]
                    ELSE [product[p] EXCEPT !.stock_number = @ - n]
           delisted == ToDelist(p, taken, setting[q])
           row == SoldOut(p, ListMore(taken, -delisted))
<1>1. /\ p \in Products /\ n \in Nat /\ n > 0 /\ setting[q] \in Nat
      /\ RowOK(p, product[p])
  BY Committer DEF Decrease, Committing
<1>2. /\ delisted > 0 => DecreaseEcAllowed(taken, setting[q], delisted)
      /\ row.stock_number >= 0
      /\ product' = [product EXCEPT ![p] = row]
      /\ stockLedger' = [stockLedger EXCEPT ![p] = Movement(p, @, -n, row)]
      /\ ecLedger' = [ecLedger EXCEPT ![p] = PostIf(delisted > 0, @, -delisted, row.ec_stock_number)]
      /\ Finish(q)
      /\ UNCHANGED <<sold, storeReserve>>
  BY DEF Decrease
<1>3. /\ taken.ec_stock_number = product[p].ec_stock_number
      /\ taken.stock_number \in Int
      /\ p \in Infinite => taken = product[p]
      /\ row.stock_number = taken.stock_number
  BY <1>1 DEF RowOK, Row, SoldOut, ListMore
<1>4. taken \in Row
  BY <1>1, <1>2, <1>3 DEF RowOK, Row
<1>5. /\ MaximumEc(taken, setting[q]) \in Nat
      /\ MaximumEc(taken, setting[q]) <= taken.stock_number
      /\ Margin(taken, setting[q]) = MaximumEc(taken, setting[q]) - taken.ec_stock_number
  BY <1>1, <1>4, MarginInt
<1>6. /\ delisted \in Nat
      /\ delisted > 0 => p \notin Infinite /\ p \in EcAvailable
      /\ p \notin Infinite /\ p \in EcAvailable
           => taken.ec_stock_number - delisted <= taken.stock_number
      /\ taken.ec_stock_number - delisted \in Nat
  <2> HIDE DEF taken, p
  <2>1. taken.ec_stock_number \in Nat /\ taken.stock_number \in Nat
    BY <1>4 DEF Row
  <2>2. QED
    BY <1>5, <2>1 DEF ToDelist
<1> HIDE DEF taken, delisted, p, n
<1>7. ListMore(taken, -delisted) \in Row
        /\ ListMore(taken, -delisted).ec_stock_number = taken.ec_stock_number - delisted
        /\ ListMore(taken, -delisted).stock_number = taken.stock_number
  BY <1>4, <1>6, ListLessRow
<1>8. row \in Row /\ row.ec_stock_number = taken.ec_stock_number - delisted
        /\ row.stock_number = taken.stock_number
  BY <1>7, SoldOutRow
<1>9. RowOK(p, row)
  <2> HIDE DEF row
  <2>1. CASE p \notin Infinite /\ p \in EcAvailable
    BY <1>6, <1>8, <2>1 DEF RowOK
  <2>2. CASE p \notin EcAvailable
    <3>1. delisted = 0 /\ taken.ec_stock_number = 0 /\ taken.stock_number \in Nat
      BY <1>1, <1>3, <1>4, <1>6, <2>2 DEF RowOK, Row
    <3>2. QED
      BY <1>8, <2>2, <3>1 DEF RowOK
  <2>3. CASE p \in Infinite /\ p \in EcAvailable
    BY <1>8, <2>3 DEF RowOK
  <2>4. QED
    BY <2>1, <2>2, <2>3
<1>10. RowsOK'
  BY <1>1, <1>2, <1>9, OneRow DEF StockInv
<1>11. AccountsOK'
  <2> HIDE DEF row
  <2>1. Movement(p, stockLedger[p], -n, row) \in Ledger
    BY <1>1, <1>8, MovementType DEF StockInv, AccountsOK
  <2>2. PostIf(delisted > 0, ecLedger[p], -delisted, row.ec_stock_number) \in Ledger
    BY <1>1, <1>6, <1>8, PostIfType DEF StockInv, AccountsOK, Row
  <2>3. QED
    BY <1>1, <1>2, <2>1, <2>2 DEF StockInv, AccountsOK
<1>12. QED
  BY <1>2, <1>10, <1>11, FinishKeepsRequests DEF StockInv

LEMMA EcSellKeeps ==
    ASSUME StockInv, NEW q \in Requests, EcSell(q)
    PROVE  StockInv'
<1> DEFINE p == job[q].p
           n == job[q].n
           listing == ListMore(product[p], -n)
           left == IF p \in Infinite
                   THEN listing
                   ELSE [listing EXCEPT !.stock_number = @ - n]
           row == SoldOut(p, left)
<1>1. /\ p \in Products /\ n \in Nat /\ n > 0 /\ setting[q] \in Nat
      /\ RowOK(p, product[p])
  BY Committer DEF EcSell, Committing
<1>2. /\ p \in EcAvailable
      /\ DecreaseEcAllowed(product[p], setting[q], n)
      /\ row.stock_number >= 0
      /\ product' = [product EXCEPT ![p] = row]
      /\ stockLedger' = [stockLedger EXCEPT ![p] = Movement(p, @, -n, row)]
      /\ ecLedger' = [ecLedger EXCEPT ![p] = Post(@, -n, row.ec_stock_number)]
      /\ sold' = [sold EXCEPT ![p] = @ + n]
      /\ Finish(q)
      /\ UNCHANGED storeReserve
  BY DEF EcSell
<1>3. product[p].ec_stock_number - n \in Nat
  BY <1>1, <1>2 DEF DecreaseEcAllowed, RowOK, Row
<1>4. listing \in Row /\ listing.ec_stock_number = product[p].ec_stock_number - n
        /\ listing.stock_number = product[p].stock_number
  BY <1>1, <1>3, ListLessRow DEF RowOK
<1>5. row.stock_number = left.stock_number
  BY DEF SoldOut
<1>6. left \in Row /\ RowOK(p, left)
  BY <1>1, <1>2, <1>4, <1>5 DEF RowOK, Row
<1> HIDE DEF p, n, listing, left
<1>7. row \in Row /\ RowOK(p, row)
  BY <1>6, SoldOutRow DEF RowOK
<1>8. RowsOK'
  BY <1>1, <1>2, <1>7, OneRow DEF StockInv
<1>9. AccountsOK'
  <2> HIDE DEF row
  <2>1. Movement(p, stockLedger[p], -n, row) \in Ledger
    BY <1>1, <1>7, MovementType DEF StockInv, AccountsOK
  <2>2. Post(ecLedger[p], -n, row.ec_stock_number) \in Ledger
    BY <1>1, <1>7, PostType DEF StockInv, AccountsOK, Row
  <2>3. QED
    BY <1>1, <1>2, <2>1, <2>2 DEF StockInv, AccountsOK
<1>10. QED
  BY <1>2, <1>8, <1>9, FinishKeepsRequests DEF StockInv

LEMMA EcReturnKeeps ==
    ASSUME StockInv, NEW q \in Requests, EcReturn(q)
    PROVE  StockInv'
<1> DEFINE p == job[q].p
           n == job[q].n
           listing == Stopped(ListMore(product[p], n), job[q].op)
           row == IF p \in Infinite
                  THEN listing
                  ELSE [listing EXCEPT !.stock_number = @ + n]
<1>1. /\ p \in Products /\ n \in Nat /\ n > 0 /\ setting[q] \in Nat
      /\ RowOK(p, product[p])
  BY Committer DEF EcReturn
<1>2. /\ p \in EcAvailable
      /\ n <= sold[p]
      /\ product' = [product EXCEPT ![p] = row]
      /\ stockLedger' = [stockLedger EXCEPT ![p] = Movement(p, @, n, row)]
      /\ ecLedger' = [ecLedger EXCEPT ![p] = Post(@, n, row.ec_stock_number)]
      /\ sold' = [sold EXCEPT ![p] = @ - n]
      /\ Finish(q)
      /\ UNCHANGED storeReserve
  BY DEF EcReturn
<1>3. row \in Row /\ RowOK(p, row)
  <2>1. product[p] \in Row /\ p \in EcAvailable
    BY <1>1, <1>2 DEF RowOK
  <2>2. /\ ListMore(product[p], n) \in Row
        /\ ListMore(product[p], n).ec_stock_number = product[p].ec_stock_number + n
        /\ ListMore(product[p], n).stock_number = product[p].stock_number
    BY <1>1, <2>1, ListMoreRow DEF Row
  <2>3. /\ listing \in Row
        /\ listing.ec_stock_number = product[p].ec_stock_number + n
        /\ listing.stock_number = product[p].stock_number
    BY <2>2 DEF Row, Stopped
  <2> HIDE DEF listing, p, n
  <2>4. /\ row \in Row
        /\ row.ec_stock_number = product[p].ec_stock_number + n
        /\ p \notin Infinite => row.stock_number = product[p].stock_number + n
    BY <1>1, <2>3 DEF Row
  <2>5. QED
    BY <1>1, <2>1, <2>4 DEF RowOK, Row
<1> HIDE DEF p, n, listing, row
<1>4. RowsOK'
  BY <1>1, <1>2, <1>3, OneRow DEF StockInv
<1>5. AccountsOK'
  <2>1. Movement(p, stockLedger[p], n, row) \in Ledger
    BY <1>1, <1>3, MovementType DEF StockInv, AccountsOK
  <2>2. Post(ecLedger[p], n, row.ec_stock_number) \in Ledger
    BY <1>1, <1>3, PostType DEF StockInv, AccountsOK, Row
  <2>3. sold[p] - n \in Nat
    BY <1>1, <1>2 DEF StockInv, AccountsOK
  <2>4. QED
    BY <1>1, <1>2, <2>1, <2>2, <2>3 DEF StockInv, AccountsOK
<1>6. QED
  BY <1>2, <1>4, <1>5, FinishKeepsRequests DEF StockInv

LEMMA EnableKeeps ==
    ASSUME StockInv, NEW q \in Requests, Enable(q)
    PROVE  StockInv'
<1> DEFINE p == job[q].p
           row == [product[p] EXCEPT !.mycalinks_ec_enabled = TRUE]
<1>1. p \in Products /\ job[q].op = "enable"
  <2>1. job[q].op = "enable" /\ job[q] \in Jobs \cup {NoJob}
    BY DEF Enable, Committing, StockInv, RequestsOK
  <2>2. QED
    BY <2>1, JobType
<1>2. RowOK(p, row)
  BY <1>1 DEF StockInv, RowsOK, RowOK, Row
<1>3. RowsOK'
  BY <1>1, <1>2, OneRow DEF StockInv, Enable
<1>4. RequestsOK'
  <2>1. row \in Row /\ job[q] \in Jobs
    BY <1>1, <1>2 DEF RowOK, StockInv, RequestsOK, Enable, Committing
  <2>2. /\ phase[q] = "loaded" /\ snap' = [snap EXCEPT ![q] = row]
        /\ phase' = [phase EXCEPT ![q] = "enabled"]
        /\ UNCHANGED <<storeReserve, job, setting>>
    BY DEF Enable, Committing
  <2> HIDE DEF p, row
  <2>3. QED
    BY <1>1, <2>1, <2>2 DEF StockInv, RequestsOK
<1>5. AccountsOK'
  BY DEF StockInv, AccountsOK, Enable
<1>6. QED
  BY <1>3, <1>4, <1>5 DEF StockInv

(* The margin may be stale: what was checked when the row was locked suffices. *)
LEMMA RecalculateKeeps ==
    ASSUME StockInv, NEW q \in Requests, Recalculate(q)
    PROVE  StockInv'
<1> DEFINE p == job[q].p
           margin == Margin(snap[q], setting[q])
           row == ListMore(product[p], margin)
<1>1. p \in Products /\ snap[q] \in Row /\ setting[q] \in Nat
  <2>1. /\ job[q].op = "enable" /\ job[q] \in Jobs \cup {NoJob}
        /\ snap[q] \in Row /\ setting[q] \in Nat
    BY DEF Recalculate, StockInv, RequestsOK
  <2>2. QED
    BY <2>1, JobType
<1>2. /\ RelistAllowed(p, product[p], setting[q], margin)
      /\ product' = [product EXCEPT ![p] = row]
      /\ ecLedger' = [ecLedger EXCEPT ![p] = PostIf(margin # 0, @, margin, row.ec_stock_number)]
      /\ Finish(q)
      /\ UNCHANGED <<stockLedger, sold, storeReserve>>
  BY DEF Recalculate
<1>3. margin \in Int
  BY <1>1, MarginInt
<1>4. RowOK(p, product[p]) /\ product[p] \in Row
  BY <1>1 DEF StockInv, RowsOK, RowOK
<1> HIDE DEF p, margin
<1>5. /\ row \in Row
      /\ product[p].ec_stock_number <= product[p].stock_number
           => row.ec_stock_number <= product[p].stock_number
      /\ row.stock_number = product[p].stock_number
      /\ row.ec_stock_number = product[p].ec_stock_number + margin
      /\ p \notin EcAvailable => margin = 0
  BY <1>1, <1>2, <1>3, <1>4, RelistBacked
<1> HIDE DEF row
<1>6. RowOK(p, row)
  BY <1>4, <1>5 DEF RowOK
<1>7. RowsOK'
  BY <1>1, <1>2, <1>6, OneRow DEF StockInv
<1>8. PostIf(margin # 0, ecLedger[p], margin, row.ec_stock_number) \in Ledger
  BY <1>1, <1>3, <1>5, PostIfType DEF StockInv, AccountsOK, Row
<1>9. AccountsOK'
  BY <1>1, <1>2, <1>8 DEF StockInv, AccountsOK
<1>10. QED
  BY <1>2, <1>7, <1>9, FinishKeepsRequests DEF StockInv

LEMMA DeleteKeeps ==
    ASSUME StockInv, NEW q \in Requests, Delete(q)
    PROVE  StockInv'
<1> DEFINE p == job[q].p
           row == [product[p] EXCEPT !.deleted = TRUE]
<1>1. p \in Products
  <2>1. job[q].op = "delete" /\ job[q] \in Jobs \cup {NoJob}
    BY DEF Delete, Committing, StockInv, RequestsOK
  <2>2. QED
    BY <2>1, JobType
<1>2. RowOK(p, row)
  BY <1>1 DEF StockInv, RowsOK, RowOK, Row
<1>3. RowsOK'
  BY <1>1, <1>2, OneRow DEF StockInv, Delete
<1>4. AccountsOK'
  BY DEF StockInv, AccountsOK, Delete
<1>5. QED
  BY <1>3, <1>4, FinishKeepsRequests DEF StockInv, Delete

LEMMA UpdatedRow ==
    ASSUME NEW row \in Row, NEW body \in UpdateBodies
    PROVE  /\ Updated(row, body) \in Row
           /\ Updated(row, body).stock_number = row.stock_number
           /\ Updated(row, body).ec_stock_number = row.ec_stock_number
<1>1. body.pos_reserved_stock_number \in Nat \cup {Null}
  BY DEF UpdateBodies
<1>2. QED
  BY <1>1 DEF Updated, Row

LEMMA SwitchedRow ==
    ASSUME NEW row \in Row, NEW body
    PROVE  /\ Switched(row, body) \in Row
           /\ Switched(row, body).stock_number = row.stock_number
           /\ Switched(row, body).ec_stock_number = row.ec_stock_number
<1>1. CASE body.mycalinks_ec_enabled = Keep
  BY <1>1 DEF Switched
<1>2. CASE body.mycalinks_ec_enabled # Keep /\ body.mycalinks_ec_enabled = "on"
  <2>1. Switched(row, body) = [row EXCEPT !.mycalinks_ec_enabled = TRUE]
    BY <1>2 DEF Switched
  <2>2. QED
    BY <2>1 DEF Row
<1>3. CASE body.mycalinks_ec_enabled # Keep /\ body.mycalinks_ec_enabled # "on"
  <2>1. Switched(row, body) = [row EXCEPT !.mycalinks_ec_enabled = FALSE]
    BY <1>3 DEF Switched
  <2>2. QED
    BY <2>1 DEF Row
<1>4. QED
  BY <1>1, <1>2, <1>3

LEMMA PublishedType ==
    ASSUME NEW row \in Row, NEW body \in UpdateBodies, NEW r \in Nat
    PROVE  ToPublish(row, body, r) \in Nat
<1>1. body.ecPublishStockNumber \in Nat /\ Margin(row, r) \in Int
  BY MarginInt DEF UpdateBodies
<1>2. QED
  BY <1>1 DEF ToPublish

(* Three changes of the listing in one transaction, each checked on the row it finds. *)
LEMMA UpdateKeeps ==
    ASSUME StockInv, NEW q \in Requests, Update(q)
    PROVE  StockInv'
<1> DEFINE p == job[q].p
           body == job[q].body
           r == setting[q]
           updated == Updated(product[p], body)
           switched == Switched(updated, body)
           relisted == IF body.mycalinks_ec_enabled = "on" THEN Margin(switched, r) ELSE 0
           enabled == ListMore(switched, relisted)
           publish == ToPublish(enabled, body, r)
           published == ListMore(enabled, publish)
           recalculated == IF ReserveWasChanged(snap[q], body, updated)
                           THEN Margin(updated, r) ELSE 0
           row == ListMore(published, recalculated)
           posted == relisted + publish + recalculated
<1>1. /\ RelistAllowed(p, switched, r, relisted)
      /\ publish > 0 => p \in EcAvailable /\ IncreaseEcAllowed(enabled, r, publish)
      /\ RelistAllowed(p, published, r, recalculated)
      /\ product' = [product EXCEPT ![p] = row]
      /\ ecLedger' = [ecLedger EXCEPT ![p] =
             PostIf(<<relisted, publish, recalculated>> # <<0, 0, 0>>,
                    @, posted, row.ec_stock_number)]
      /\ Finish(q)
      /\ UNCHANGED <<stockLedger, sold, storeReserve>>
  BY DEF Update
<1>2. p \in Products /\ body \in UpdateBodies /\ r \in Nat
  <2>1. job[q].op = "update" /\ job[q] \in Jobs \cup {NoJob} /\ setting[q] \in Nat
    BY DEF Update, Committing, StockInv, RequestsOK
  <2>2. QED
    BY <2>1, JobType
<1>3. RowOK(p, product[p]) /\ product[p] \in Row
  BY <1>2 DEF StockInv, RowsOK, RowOK
<1> HIDE DEF p, body, r
<1>4. updated \in Row /\ switched \in Row /\ RowOK(p, switched)
  BY <1>2, <1>3, UpdatedRow, SwitchedRow DEF RowOK
<1>5. relisted \in Int /\ recalculated \in Int
  BY <1>2, <1>4, MarginInt
<1> HIDE DEF updated, switched, relisted, recalculated
<1>6. enabled \in Row /\ RowOK(p, enabled)
  <2>1. /\ enabled \in Row
        /\ switched.ec_stock_number <= switched.stock_number
             => enabled.ec_stock_number <= switched.stock_number
        /\ enabled.stock_number = switched.stock_number
        /\ enabled.ec_stock_number = switched.ec_stock_number + relisted
        /\ p \notin EcAvailable => relisted = 0
    BY <1>1, <1>2, <1>4, <1>5, RelistBacked
  <2> HIDE DEF enabled
  <2>2. QED
    BY <1>4, <2>1 DEF RowOK
<1>7. publish \in Nat
  BY <1>2, <1>6, PublishedType
<1> HIDE DEF enabled, publish
<1>8. published \in Row /\ RowOK(p, published)
  <2>1. enabled.ec_stock_number + publish \in Nat
    BY <1>6, <1>7 DEF Row
  <2>2. /\ published \in Row
        /\ published.ec_stock_number = enabled.ec_stock_number + publish
        /\ published.stock_number = enabled.stock_number
    BY <1>6, <1>7, <2>1, ListMoreRow
  <2> HIDE DEF published
  <2>3. CASE publish > 0
    <3>1. p \in EcAvailable /\ enabled.ec_stock_number + publish <= enabled.stock_number
      BY <1>1, <1>2, <1>6, <1>7, <2>3, IncreaseBacked
    <3>2. QED
      BY <2>2, <3>1 DEF RowOK
  <2>4. CASE publish = 0
    BY <1>6, <2>2, <2>4 DEF RowOK, Row
  <2>5. QED
    BY <1>7, <2>3, <2>4
<1> HIDE DEF published
<1>9. row \in Row /\ RowOK(p, row)
  <2>1. /\ row \in Row
        /\ published.ec_stock_number <= published.stock_number
             => row.ec_stock_number <= published.stock_number
        /\ row.stock_number = published.stock_number
        /\ row.ec_stock_number = published.ec_stock_number + recalculated
        /\ p \notin EcAvailable => recalculated = 0
    BY <1>1, <1>2, <1>5, <1>8, RelistBacked
  <2> HIDE DEF row
  <2>2. QED
    BY <1>8, <2>1 DEF RowOK
<1> HIDE DEF row
<1>10. RowsOK'
  BY <1>1, <1>2, <1>9, OneRow DEF StockInv
<1>11. AccountsOK'
  <2>1. posted \in Int
    BY <1>5, <1>7
  <2> HIDE DEF posted
  <2>2. PostIf(<<relisted, publish, recalculated>> # <<0, 0, 0>>,
               ecLedger[p], posted, row.ec_stock_number) \in Ledger
    BY <1>2, <1>9, <2>1, PostIfType DEF StockInv, AccountsOK, Row
  <2>3. QED
    BY <1>1, <1>2, <2>2 DEF StockInv, AccountsOK
<1>12. QED
  BY <1>1, <1>10, <1>11, FinishKeepsRequests DEF StockInv

-----------------------------------------------------------------------------
(* The invariant holds in every reachable state. *)

LEMMA InitStock == Init => StockInv
<1> SUFFICES ASSUME Init PROVE StockInv
  OBVIOUS
<1>1. StoreReserves \subseteq Nat
  BY StockAssumption
<1>2. RowsOK
  BY StockAssumption DEF Init, RowsOK, RowOK, Row
<1>3. AccountsOK
  BY DEF Init, AccountsOK, Ledger
<1>4. RequestsOK
  BY DEF Init, RequestsOK
<1>5. QED
  BY <1>2, <1>3, <1>4 DEF StockInv

LEMMA StepStock == StockInv /\ [Next]_vars => StockInv'
<1> SUFFICES ASSUME StockInv, [Next]_vars PROVE StockInv'
  OBVIOUS
<1>1. ASSUME NEW q \in Requests, NEW j \in Jobs, Start(q, j)
      PROVE  StockInv'
  <2>1. storeReserve \in Nat
    BY StockAssumption DEF StockInv, AccountsOK
  <2>2. RequestsOK'
    BY <1>1, <2>1 DEF StockInv, RequestsOK, Start
  <2>3. QED
    BY <1>1, <2>2 DEF StockInv, RowsOK, AccountsOK, Start, tables
<1>2. ASSUME NEW q \in Requests, Load(q)
      PROVE  StockInv'
  <2>1. product[job[q].p] \in Row
    <3>1. job[q].p \in Products
      BY <1>2 DEF StockInv, RequestsOK, Load, Jobs
    <3>2. QED
      BY <3>1 DEF StockInv, RowsOK
  <2>2. QED
    BY <1>2, <2>1 DEF StockInv, RowsOK, AccountsOK, RequestsOK, Load, tables
<1>3. ASSUME NEW q \in Requests, Commit(q)
      PROVE  StockInv'
  BY <1>3, IncreaseKeeps, DecreaseKeeps, EcSellKeeps, EcReturnKeeps, EnableKeeps,
     RecalculateKeeps, UpdateKeeps, DeleteKeeps DEF Commit
<1>4. ASSUME NEW q \in Requests, Abort(q)
      PROVE  StockInv'
  BY <1>4, FinishKeepsRequests DEF StockInv, RowsOK, AccountsOK, Abort, tables
<1>5. ASSUME NEW r \in StoreReserves, SetStoreReserve(r)
      PROVE  StockInv'
  BY <1>5 DEF StockInv, RowsOK, AccountsOK, RequestsOK, SetStoreReserve, tables, request
<1>6. CASE UNCHANGED vars
  BY <1>6 DEF StockInv, RowsOK, AccountsOK, RequestsOK, vars, tables, request
<1>7. QED
  BY <1>1, <1>2, <1>3, <1>4, <1>5, <1>6 DEF Next

LEMMA StockInvariant == Spec => []StockInv
BY InitStock, StepStock, PTL DEF Spec

(* Every row is well typed in every reachable state: in particular no stock and no *)
(* EC listing is ever negative, whatever the requests read before they locked.     *)
THEOREM TypeCorrect == Spec => []TypeOK
BY StockInvariant, StockInvType, PTL

(* No interleaving of stock movements, recalculations from stale rows and changes  *)
(* of the settings lists on EC more units than the store has.                      *)
THEOREM ListingIsBacked == Spec => []EcBackedByStock
BY StockInvariant, StockInvType, PTL

-----------------------------------------------------------------------------
(***************************************************************************)
(* The histories of a product account for its row (LedgersAgree).          *)
(*                                                                         *)
(* The proof needs only the types of the first part: whether a step is     *)
(* allowed does not matter, only that it posts what it adds to the row.    *)
(***************************************************************************)

-----------------------------------------------------------------------------
(* A row in the middle of an operation: its numbers may still be negative. *)

AnyRow == [stock_number              : Int,
           ec_stock_number           : Int,
           pos_reserved_stock_number : Nat \cup {Null},
           mycalinks_ec_enabled      : BOOLEAN,
           deleted                   : BOOLEAN]

\* The new row has s more units in stock and e more listed than the old one.
Moves(old, new, s, e) ==
    /\ new.stock_number = old.stock_number + s
    /\ new.ec_stock_number = old.ec_stock_number + e

LEMMA RowIsAny == Row \subseteq AnyRow
BY DEF Row, AnyRow

LEMMA AnyMargin ==
    ASSUME NEW row \in AnyRow, NEW r \in Nat
    PROVE  Margin(row, r) \in Int
<1>1. Reserved(row, r) \in Nat
  BY DEF AnyRow, Reserved
<1>2. MaximumEc(row, r) \in Int
  BY <1>1 DEF AnyRow, MaximumEc
<1>3. QED
  BY <1>2 DEF AnyRow, Margin

LEMMA ListMoreMoves ==
    ASSUME NEW row \in AnyRow, NEW n \in Int
    PROVE  ListMore(row, n) \in AnyRow /\ Moves(row, ListMore(row, n), 0, n)
BY DEF AnyRow, ListMore, Moves

LEMMA StockMoves ==
    ASSUME NEW row \in AnyRow, NEW n \in Int
    PROVE  /\ [row EXCEPT !.stock_number = @ + n] \in AnyRow
           /\ Moves(row, [row EXCEPT !.stock_number = @ + n], n, 0)
BY DEF AnyRow, Moves

LEMMA FlagsMoveNothing ==
    ASSUME NEW row \in AnyRow, NEW p, NEW op
    PROVE  /\ SoldOut(p, row) \in AnyRow /\ Moves(row, SoldOut(p, row), 0, 0)
           /\ Stopped(row, op) \in AnyRow /\ Moves(row, Stopped(row, op), 0, 0)
<1>1. /\ [row EXCEPT !.deleted = TRUE] \in AnyRow
      /\ [row EXCEPT !.mycalinks_ec_enabled = FALSE] \in AnyRow
      /\ Moves(row, [row EXCEPT !.deleted = TRUE], 0, 0)
      /\ Moves(row, [row EXCEPT !.mycalinks_ec_enabled = FALSE], 0, 0)
      /\ Moves(row, row, 0, 0)
  <2>1. row.stock_number + 0 = row.stock_number /\ row.ec_stock_number + 0 = row.ec_stock_number
    BY DEF AnyRow
  <2>2. /\ [row EXCEPT !.deleted = TRUE] \in AnyRow
        /\ [row EXCEPT !.deleted = TRUE].stock_number = row.stock_number
        /\ [row EXCEPT !.deleted = TRUE].ec_stock_number = row.ec_stock_number
    BY DEF AnyRow
  <2>3. /\ [row EXCEPT !.mycalinks_ec_enabled = FALSE] \in AnyRow
        /\ [row EXCEPT !.mycalinks_ec_enabled = FALSE].stock_number = row.stock_number
        /\ [row EXCEPT !.mycalinks_ec_enabled = FALSE].ec_stock_number = row.ec_stock_number
    BY DEF AnyRow
  <2>4. QED
    BY <2>1, <2>2, <2>3 DEF Moves
<1>2. SoldOut(p, row) \in AnyRow /\ Moves(row, SoldOut(p, row), 0, 0)
  <2>1. CASE p \in SpecialPrice /\ row.stock_number <= 0
    <3>1. SoldOut(p, row) = [row EXCEPT !.deleted = TRUE]
      BY <2>1 DEF SoldOut
    <3>2. QED
      BY <1>1, <3>1
  <2>2. CASE ~(p \in SpecialPrice /\ row.stock_number <= 0)
    <3>1. SoldOut(p, row) = row
      BY <2>2 DEF SoldOut
    <3>2. QED
      BY <1>1, <3>1
  <2>3. QED
    BY <2>1, <2>2
<1>3. Stopped(row, op) \in AnyRow /\ Moves(row, Stopped(row, op), 0, 0)
  <2>1. CASE op = "ec_return_stop"
    <3>1. Stopped(row, op) = [row EXCEPT !.mycalinks_ec_enabled = FALSE]
      BY <2>1 DEF Stopped
    <3>2. QED
      BY <1>1, <3>1
  <2>2. CASE op # "ec_return_stop"
    <3>1. Stopped(row, op) = row
      BY <2>2 DEF Stopped
    <3>2. QED
      BY <1>1, <3>1
  <2>3. QED
    BY <2>1, <2>2
<1>4. QED
  BY <1>2, <1>3

LEMMA MovesAdd ==
    ASSUME NEW a \in AnyRow, NEW b \in AnyRow, NEW c \in AnyRow,
           NEW s \in Int, NEW e \in Int, NEW t \in Int, NEW f \in Int,
           Moves(a, b, s, e), Moves(b, c, t, f)
    PROVE  Moves(a, c, s + t, e + f)
BY DEF AnyRow, Moves

-----------------------------------------------------------------------------
(* Histories.                                                              *)

Balanced(ledger, number) == ledger.total = number /\ ledger.result = number

\* A history that agreed with the number agrees with the new one, when what is posted is
\* what was added; a movement of nothing need not be posted.
LEMMA PostBalances ==
    ASSUME NEW ledger \in Ledger, NEW old \in Int, NEW n \in Int, NEW new, NEW c \in BOOLEAN,
           Balanced(ledger, old), new = old + n, ~c => n = 0
    PROVE  Balanced(PostIf(c, ledger, n, new), new)
<1>1. CASE c
  BY <1>1 DEF Balanced, PostIf, Post, Ledger
<1>2. CASE ~c
  BY <1>2 DEF Balanced, PostIf, Ledger
<1>3. QED
  BY <1>1, <1>2

\* What a step must show of the one product it is about.
LEMMA OneAccount ==
    ASSUME StockInv, LedgersAgree, NEW p \in Products, NEW row, NEW s, NEW e,
           product' = [product EXCEPT ![p] = row],
           stockLedger' = [stockLedger EXCEPT ![p] = s],
           ecLedger' = [ecLedger EXCEPT ![p] = e],
           p \notin Infinite => /\ Balanced(s, row.stock_number)
                                /\ Balanced(e, row.ec_stock_number)
    PROVE  LedgersAgree'
BY DEF StockInv, RowsOK, AccountsOK, LedgersAgree, Balanced

\* What the steps may use.
LEMMA Account ==
    ASSUME StockInv, LedgersAgree, NEW p \in Products
    PROVE  /\ product[p] \in AnyRow
           /\ stockLedger[p] \in Ledger /\ ecLedger[p] \in Ledger
           /\ p \notin Infinite => /\ Balanced(stockLedger[p], product[p].stock_number)
                                   /\ Balanced(ecLedger[p], product[p].ec_stock_number)
<1>1. product[p] \in Row
  BY DEF StockInv, RowsOK
<1>2. QED
  BY <1>1, RowIsAny DEF StockInv, AccountsOK, LedgersAgree, Balanced

\* A step that moves the row and posts its movements, if it makes any.
LEMMA Posted ==
    ASSUME StockInv, LedgersAgree, NEW p \in Products, NEW row \in AnyRow,
           NEW s \in Int, NEW e \in Int, NEW c \in BOOLEAN, NEW d \in BOOLEAN,
           p \notin Infinite => Moves(product[p], row, s, e),
           ~c => s = 0, ~d => e = 0,
           product' = [product EXCEPT ![p] = row],
           stockLedger' = [stockLedger EXCEPT ![p] =
                PostIf(p \notin Infinite /\ c, @, s, row.stock_number)],
           ecLedger' = [ecLedger EXCEPT ![p] = PostIf(d, @, e, row.ec_stock_number)]
    PROVE  LedgersAgree'
<1> DEFINE sl == PostIf(p \notin Infinite /\ c, stockLedger[p], s, row.stock_number)
           el == PostIf(d, ecLedger[p], e, row.ec_stock_number)
<1>1. /\ stockLedger' = [stockLedger EXCEPT ![p] = sl]
      /\ ecLedger' = [ecLedger EXCEPT ![p] = el]
  BY DEF StockInv, AccountsOK
<1>2. p \notin Infinite => Balanced(sl, row.stock_number) /\ Balanced(el, row.ec_stock_number)
  <2> SUFFICES ASSUME p \notin Infinite
               PROVE  Balanced(sl, row.stock_number) /\ Balanced(el, row.ec_stock_number)
    OBVIOUS
  <2>1. /\ product[p].stock_number \in Int /\ product[p].ec_stock_number \in Int
        /\ row.stock_number = product[p].stock_number + s
        /\ row.ec_stock_number = product[p].ec_stock_number + e
    BY Account DEF AnyRow, Moves
  <2>2. Balanced(sl, row.stock_number)
    <3> DEFINE b == p \notin Infinite /\ c
    <3>1. b \in BOOLEAN /\ (~b => s = 0)
      OBVIOUS
    <3>2. stockLedger[p] \in Ledger /\ Balanced(stockLedger[p], product[p].stock_number)
      BY Account
    <3> HIDE DEF b
    <3>3. Balanced(PostIf(b, stockLedger[p], s, row.stock_number), row.stock_number)
      BY <2>1, <3>1, <3>2, PostBalances
    <3>4. QED
      BY <3>3 DEF b
  <2>3. Balanced(el, row.ec_stock_number)
    <3>1. ecLedger[p] \in Ledger /\ Balanced(ecLedger[p], product[p].ec_stock_number)
      BY Account
    <3>2. QED
      BY <2>1, <3>1, PostBalances
  <2>4. QED
    BY <2>2, <2>3
<1> HIDE DEF sl, el
<1>3. QED
  BY <1>1, <1>2, OneAccount

\* A step that moves only the listing.
LEMMA PostedListing ==
    ASSUME StockInv, LedgersAgree, NEW p \in Products, NEW row \in AnyRow,
           NEW e \in Int, NEW d \in BOOLEAN,
           Moves(product[p], row, 0, e), ~d => e = 0,
           product' = [product EXCEPT ![p] = row],
           stockLedger' = stockLedger,
           ecLedger' = [ecLedger EXCEPT ![p] = PostIf(d, @, e, row.ec_stock_number)]
    PROVE  LedgersAgree'
<1> DEFINE el == PostIf(d, ecLedger[p], e, row.ec_stock_number)
<1>1. /\ stockLedger' = [stockLedger EXCEPT ![p] = stockLedger[p]]
      /\ ecLedger' = [ecLedger EXCEPT ![p] = el]
  BY DEF StockInv, AccountsOK
<1>2. /\ product[p].stock_number \in Int /\ product[p].ec_stock_number \in Int
      /\ row.stock_number = product[p].stock_number
      /\ row.ec_stock_number = product[p].ec_stock_number + e
  BY Account DEF AnyRow, Moves
<1>3. p \notin Infinite => /\ Balanced(stockLedger[p], row.stock_number)
                           /\ Balanced(ecLedger[p], product[p].ec_stock_number)
  BY <1>2, Account
<1>4. ecLedger[p] \in Ledger
  BY Account
<1>5. p \notin Infinite => Balanced(el, row.ec_stock_number)
  BY <1>2, <1>3, <1>4, PostBalances
<1> HIDE DEF el
<1>6. QED
  BY <1>1, <1>3, <1>5, OneAccount

-----------------------------------------------------------------------------
(* One lemma per operation that writes a history.                          *)

LEMMA IncreaseAccounts ==
    ASSUME StockInv, LedgersAgree, NEW q \in Requests, Increase(q)
    PROVE  LedgersAgree'
<1> DEFINE p == job[q].p
           n == job[q].n
           stocked == IF p \in Infinite
                      THEN product[p]
                      ELSE [product[p] EXCEPT !.stock_number = @ + n]
           listed == ToList(p, stocked, n, setting[q])
           row == ListMore(stocked, listed)
<1>1. /\ p \in Products /\ n \in Nat /\ setting[q] \in Nat
      /\ product[p] \in Row
  BY Committer DEF Increase, Committing, RowOK
<1>2. /\ product' = [product EXCEPT ![p] = row]
      /\ stockLedger' = [stockLedger EXCEPT ![p] =
             PostIf(p \notin Infinite /\ TRUE, @, n, row.stock_number)]
      /\ ecLedger' = [ecLedger EXCEPT ![p] = PostIf(listed > 0, @, listed, row.ec_stock_number)]
  BY DEF Increase, Movement
<1>3. stocked \in Row
  BY <1>1 DEF Row
<1>4. listed \in Nat
  BY <1>1, <1>3, ToListType
<1>5. /\ product[p] \in AnyRow /\ stocked \in AnyRow
      /\ p \notin Infinite => Moves(product[p], stocked, n, 0)
  BY <1>1, <1>3, RowIsAny, StockMoves
<1> HIDE DEF stocked, listed, p, n
<1>6. row \in AnyRow /\ Moves(stocked, row, 0, listed)
  BY <1>4, <1>5, ListMoreMoves
<1> HIDE DEF row
<1>7. p \notin Infinite => Moves(product[p], row, n, listed)
  <2> SUFFICES ASSUME p \notin Infinite PROVE Moves(product[p], row, n, listed)
    OBVIOUS
  <2>1. Moves(product[p], row, n + 0, 0 + listed)
    BY <1>1, <1>4, <1>5, <1>6, MovesAdd
  <2>2. QED
    BY <1>1, <1>4, <2>1
<1>8. /\ (listed > 0) \in BOOLEAN /\ (~(listed > 0) => listed = 0)
      /\ n \in Int /\ listed \in Int
  BY <1>1, <1>4
<1>9. QED
  BY <1>1, <1>2, <1>4, <1>6, <1>7, <1>8, Posted

LEMMA DecreaseAccounts ==
    ASSUME StockInv, LedgersAgree, NEW q \in Requests, Decrease(q)
    PROVE  LedgersAgree'
<1> DEFINE p == job[q].p
           n == job[q].n
           taken == IF p \in Infinite
                    THEN product[p]
                    ELSE [product[p] EXCEPT !.stock_number = @ - n]
           delisted == ToDelist(p, taken, setting[q])
           listing == ListMore(taken, -delisted)
           row == SoldOut(p, listing)
<1>1. /\ p \in Products /\ n \in Nat /\ setting[q] \in Nat
      /\ product[p] \in Row
  BY Committer DEF Decrease, Committing, RowOK
<1>2. /\ product' = [product EXCEPT ![p] = row]
      /\ stockLedger' = [stockLedger EXCEPT ![p] =
             PostIf(p \notin Infinite /\ TRUE, @, -n, row.stock_number)]
      /\ ecLedger' = [ecLedger EXCEPT ![p] =
             PostIf(delisted > 0, @, -delisted, row.ec_stock_number)]
  BY DEF Decrease, Movement
<1>3. /\ product[p] \in AnyRow /\ taken \in AnyRow
      /\ p \notin Infinite => Moves(product[p], taken, -n, 0)
  <2>1. product[p] \in AnyRow
    BY <1>1, RowIsAny
  <2>2. [product[p] EXCEPT !.stock_number = @ - n]
          = [product[p] EXCEPT !.stock_number = @ + (-n)]
    BY <1>1, <2>1 DEF AnyRow
  <2>3. QED
    BY <1>1, <2>1, <2>2, StockMoves
<1>4. delisted \in Nat
  <2>1. Margin(taken, setting[q]) \in Int
    BY <1>1, <1>3, AnyMargin
  <2>2. QED
    BY <2>1 DEF ToDelist
<1> HIDE DEF taken, delisted, p, n
<1>5. listing \in AnyRow /\ Moves(taken, listing, 0, -delisted)
  BY <1>3, <1>4, ListMoreMoves
<1> HIDE DEF listing
<1>6. row \in AnyRow /\ Moves(listing, row, 0, 0)
  BY <1>5, FlagsMoveNothing
<1> HIDE DEF row
<1>7. p \notin Infinite => Moves(product[p], row, -n, -delisted)
  <2> SUFFICES ASSUME p \notin Infinite PROVE Moves(product[p], row, -n, -delisted)
    OBVIOUS
  <2>1. Moves(taken, row, 0 + 0, (-delisted) + 0)
    BY <1>3, <1>4, <1>5, <1>6, MovesAdd
  <2>2. Moves(taken, row, 0, -delisted)
    BY <1>4, <2>1
  <2>3. Moves(product[p], row, (-n) + 0, 0 + (-delisted))
    BY <1>1, <1>3, <1>4, <1>6, <2>2, MovesAdd
  <2>4. QED
    BY <1>1, <1>4, <2>3
<1>8. /\ (delisted > 0) \in BOOLEAN /\ (~(delisted > 0) => -delisted = 0)
      /\ -n \in Int /\ -delisted \in Int
  BY <1>1, <1>4
<1>9. QED
  BY <1>1, <1>2, <1>6, <1>7, <1>8, Posted

LEMMA EcSellAccounts ==
    ASSUME StockInv, LedgersAgree, NEW q \in Requests, EcSell(q)
    PROVE  LedgersAgree'
<1> DEFINE p == job[q].p
           n == job[q].n
           listing == ListMore(product[p], -n)
           left == IF p \in Infinite
                   THEN listing
                   ELSE [listing EXCEPT !.stock_number = @ - n]
           row == SoldOut(p, left)
<1>1. /\ p \in Products /\ n \in Nat /\ product[p] \in Row
  BY Committer DEF EcSell, Committing, RowOK
<1>2. /\ product' = [product EXCEPT ![p] = row]
      /\ stockLedger' = [stockLedger EXCEPT ![p] =
             PostIf(p \notin Infinite /\ TRUE, @, -n, row.stock_number)]
      /\ ecLedger' = [ecLedger EXCEPT ![p] = PostIf(TRUE, @, -n, row.ec_stock_number)]
  BY DEF EcSell, Movement, PostIf
<1>3. product[p] \in AnyRow /\ listing \in AnyRow /\ Moves(product[p], listing, 0, -n)
  BY <1>1, RowIsAny, ListMoreMoves
<1> HIDE DEF listing, p, n
<1>4. left \in AnyRow /\ (p \notin Infinite => Moves(listing, left, -n, 0))
  <2>1. [listing EXCEPT !.stock_number = @ - n] = [listing EXCEPT !.stock_number = @ + (-n)]
    BY <1>1, <1>3 DEF AnyRow
  <2>2. QED
    BY <1>1, <1>3, <2>1, StockMoves
<1> HIDE DEF left
<1>5. row \in AnyRow /\ Moves(left, row, 0, 0)
  BY <1>4, FlagsMoveNothing
<1> HIDE DEF row
<1>6. p \notin Infinite => Moves(product[p], row, -n, -n)
  <2> SUFFICES ASSUME p \notin Infinite PROVE Moves(product[p], row, -n, -n)
    OBVIOUS
  <2>1. Moves(product[p], left, 0 + (-n), (-n) + 0)
    BY <1>1, <1>3, <1>4, MovesAdd
  <2>2. Moves(product[p], left, -n, -n)
    BY <1>1, <2>1
  <2>3. Moves(product[p], row, (-n) + 0, (-n) + 0)
    BY <1>1, <1>3, <1>4, <1>5, <2>2, MovesAdd
  <2>4. QED
    BY <1>1, <2>3
<1>7. -n \in Int
  BY <1>1
<1>8. QED
  BY <1>1, <1>2, <1>5, <1>6, <1>7, Posted

LEMMA EcReturnAccounts ==
    ASSUME StockInv, LedgersAgree, NEW q \in Requests, EcReturn(q)
    PROVE  LedgersAgree'
<1> DEFINE p == job[q].p
           n == job[q].n
           more == ListMore(product[p], n)
           listing == Stopped(more, job[q].op)
           row == IF p \in Infinite
                  THEN listing
                  ELSE [listing EXCEPT !.stock_number = @ + n]
<1>1. /\ p \in Products /\ n \in Nat /\ product[p] \in Row
  BY Committer DEF EcReturn, RowOK
<1>2. /\ product' = [product EXCEPT ![p] = row]
      /\ stockLedger' = [stockLedger EXCEPT ![p] =
             PostIf(p \notin Infinite /\ TRUE, @, n, row.stock_number)]
      /\ ecLedger' = [ecLedger EXCEPT ![p] = PostIf(TRUE, @, n, row.ec_stock_number)]
  BY DEF EcReturn, Movement, PostIf
<1>3. product[p] \in AnyRow /\ more \in AnyRow /\ Moves(product[p], more, 0, n)
  BY <1>1, RowIsAny, ListMoreMoves
<1> HIDE DEF more, p, n
<1>4. listing \in AnyRow /\ Moves(more, listing, 0, 0)
  BY <1>3, FlagsMoveNothing
<1> HIDE DEF listing
<1>5. row \in AnyRow /\ (p \notin Infinite => Moves(listing, row, n, 0))
  BY <1>1, <1>4, StockMoves
<1> HIDE DEF row
<1>6. p \notin Infinite => Moves(product[p], row, n, n)
  <2> SUFFICES ASSUME p \notin Infinite PROVE Moves(product[p], row, n, n)
    OBVIOUS
  <2>1. Moves(product[p], listing, 0 + 0, n + 0)
    BY <1>1, <1>3, <1>4, MovesAdd
  <2>2. Moves(product[p], listing, 0, n)
    BY <1>1, <2>1
  <2>3. Moves(product[p], row, 0 + n, n + 0)
    BY <1>1, <1>3, <1>4, <1>5, <2>2, MovesAdd
  <2>4. QED
    BY <1>1, <2>3
<1>7. n \in Int
  BY <1>1
<1>8. QED
  BY <1>1, <1>2, <1>5, <1>6, <1>7, Posted

LEMMA RecalculateAccounts ==
    ASSUME StockInv, LedgersAgree, NEW q \in Requests, Recalculate(q)
    PROVE  LedgersAgree'
<1> DEFINE p == job[q].p
           margin == Margin(snap[q], setting[q])
           row == ListMore(product[p], margin)
<1>1. p \in Products /\ snap[q] \in Row /\ setting[q] \in Nat
  <2>1. /\ job[q].op = "enable" /\ job[q] \in Jobs \cup {NoJob}
        /\ snap[q] \in Row /\ setting[q] \in Nat
    BY DEF Recalculate, StockInv, RequestsOK
  <2>2. QED
    BY <2>1, JobType
<1>2. /\ product' = [product EXCEPT ![p] = row]
      /\ ecLedger' = [ecLedger EXCEPT ![p] = PostIf(margin # 0, @, margin, row.ec_stock_number)]
      /\ stockLedger' = stockLedger
  BY DEF Recalculate
<1>3. margin \in Int
  BY <1>1, MarginInt
<1> HIDE DEF p, margin
<1>4. product[p] \in AnyRow
  BY <1>1, Account
<1>5. row \in AnyRow /\ Moves(product[p], row, 0, margin)
  BY <1>3, <1>4, ListMoreMoves
<1> HIDE DEF row
<1>6. (margin # 0) \in BOOLEAN /\ (~(margin # 0) => margin = 0)
  OBVIOUS
<1>7. QED
  BY <1>1, <1>2, <1>3, <1>5, <1>6, PostedListing

\* The rows of enableEc and delete change no number.
LEMMA NothingMoves ==
    ASSUME StockInv, LedgersAgree, NEW p \in Products, NEW row,
           row.stock_number = product[p].stock_number,
           row.ec_stock_number = product[p].ec_stock_number,
           product' = [product EXCEPT ![p] = row],
           UNCHANGED <<stockLedger, ecLedger>>
    PROVE  LedgersAgree'
BY DEF StockInv, RowsOK, LedgersAgree

LEMMA EnableAccounts ==
    ASSUME StockInv, LedgersAgree, NEW q \in Requests, Enable(q)
    PROVE  LedgersAgree'
<1> DEFINE p == job[q].p
<1>1. p \in Products
  <2>1. job[q].op = "enable" /\ job[q] \in Jobs \cup {NoJob}
    BY DEF Enable, Committing, StockInv, RequestsOK
  <2>2. QED
    BY <2>1, JobType
<1>2. product[p] \in Row
  BY <1>1 DEF StockInv, RowsOK
<1>3. QED
  BY <1>1, <1>2, NothingMoves DEF Enable, Row

LEMMA DeleteAccounts ==
    ASSUME StockInv, LedgersAgree, NEW q \in Requests, Delete(q)
    PROVE  LedgersAgree'
<1> DEFINE p == job[q].p
           row == [product[p] EXCEPT !.deleted = TRUE]
<1>1. p \in Products
  <2>1. job[q].op = "delete" /\ job[q] \in Jobs \cup {NoJob}
    BY DEF Delete, Committing, StockInv, RequestsOK
  <2>2. QED
    BY <2>1, JobType
<1>2. product[p] \in Row
  BY <1>1 DEF StockInv, RowsOK
<1>3. product' = [product EXCEPT ![p] = row] /\ UNCHANGED <<stockLedger, ecLedger>>
  BY <1>1, <1>2 DEF Delete, StockInv, RowsOK
<1>4. QED
  BY <1>1, <1>2, <1>3, NothingMoves DEF Row

\* Three movements of one transaction, posted together.
LEMMA UpdateAccounts ==
    ASSUME StockInv, LedgersAgree, NEW q \in Requests, Update(q)
    PROVE  LedgersAgree'
<1> DEFINE p == job[q].p
           body == job[q].body
           r == setting[q]
           updated == Updated(product[p], body)
           switched == Switched(updated, body)
           relisted == IF body.mycalinks_ec_enabled = "on" THEN Margin(switched, r) ELSE 0
           enabled == ListMore(switched, relisted)
           publish == ToPublish(enabled, body, r)
           published == ListMore(enabled, publish)
           recalculated == IF ReserveWasChanged(snap[q], body, updated)
                           THEN Margin(updated, r) ELSE 0
           row == ListMore(published, recalculated)
           posted == relisted + publish + recalculated
<1>1. /\ product' = [product EXCEPT ![p] = row]
      /\ ecLedger' = [ecLedger EXCEPT ![p] =
             PostIf(<<relisted, publish, recalculated>> # <<0, 0, 0>>,
                    @, posted, row.ec_stock_number)]
      /\ stockLedger' = stockLedger
  BY DEF Update
<1>2. p \in Products /\ body \in UpdateBodies /\ r \in Nat
  <2>1. job[q].op = "update" /\ job[q] \in Jobs \cup {NoJob} /\ setting[q] \in Nat
    BY DEF Update, Committing, StockInv, RequestsOK
  <2>2. QED
    BY <2>1, JobType
<1>3. product[p] \in Row
  BY <1>2 DEF StockInv, RowsOK
<1> HIDE DEF p, body, r
<1>4. /\ updated \in Row /\ switched \in Row
      /\ switched.stock_number = product[p].stock_number
      /\ switched.ec_stock_number = product[p].ec_stock_number
  BY <1>2, <1>3, UpdatedRow, SwitchedRow
<1>5. relisted \in Int /\ recalculated \in Int
  BY <1>2, <1>4, MarginInt
<1>6. /\ product[p] \in AnyRow /\ switched \in AnyRow
      /\ Moves(product[p], switched, 0, 0)
  BY <1>3, <1>4, RowIsAny DEF Moves, Row
<1> HIDE DEF updated, switched, relisted, recalculated
<1>7. enabled \in AnyRow /\ Moves(switched, enabled, 0, relisted)
  BY <1>5, <1>6, ListMoreMoves
<1>8. publish \in Int
  <2>1. Margin(enabled, r) \in Int /\ body.ecPublishStockNumber \in Nat
    BY <1>2, <1>7, AnyMargin DEF UpdateBodies
  <2>2. QED
    BY <2>1 DEF ToPublish
<1> HIDE DEF enabled, publish
<1>9. published \in AnyRow /\ Moves(enabled, published, 0, publish)
  BY <1>7, <1>8, ListMoreMoves
<1> HIDE DEF published
<1>10. row \in AnyRow /\ Moves(published, row, 0, recalculated)
  BY <1>5, <1>9, ListMoreMoves
<1> HIDE DEF row
<1>11. posted \in Int /\ Moves(product[p], row, 0, posted)
  BY <1>5, <1>6, <1>7, <1>8, <1>9, <1>10 DEF Moves, AnyRow
<1> DEFINE c == <<relisted, publish, recalculated>> # <<0, 0, 0>>
<1>12. c \in BOOLEAN /\ (~c => posted = 0)
  BY <1>5, <1>8
<1>13. ecLedger' = [ecLedger EXCEPT ![p] = PostIf(c, @, posted, row.ec_stock_number)]
  BY <1>1
<1> HIDE DEF posted, c
<1>14. QED
  BY <1>1, <1>2, <1>10, <1>11, <1>12, <1>13, PostedListing

-----------------------------------------------------------------------------
LEMMA StepAccounts == StockInv /\ LedgersAgree /\ [Next]_vars => LedgersAgree'
<1> SUFFICES ASSUME StockInv, LedgersAgree, [Next]_vars PROVE LedgersAgree'
  OBVIOUS
<1>1. ASSUME NEW q \in Requests, Commit(q)
      PROVE  LedgersAgree'
  BY <1>1, IncreaseAccounts, DecreaseAccounts, EcSellAccounts, EcReturnAccounts,
     EnableAccounts, RecalculateAccounts, UpdateAccounts, DeleteAccounts DEF Commit
<1>2. CASE UNCHANGED tables
  BY <1>2 DEF tables, LedgersAgree
<1>3. CASE \E q \in Requests :
              (\E j \in Jobs : Start(q, j)) \/ Load(q) \/ Abort(q)
  BY <1>2, <1>3 DEF Start, Load, Abort
<1>4. CASE \E r \in StoreReserves : SetStoreReserve(r)
  BY <1>2, <1>4 DEF SetStoreReserve
<1>5. CASE UNCHANGED vars
  BY <1>2, <1>5 DEF vars
<1>6. QED
  BY <1>1, <1>3, <1>4, <1>5 DEF Next

LEMMA InitAccounts == Init => LedgersAgree
<1> SUFFICES ASSUME Init, NEW p \in Products \ Infinite
             PROVE  /\ Balanced(stockLedger[p], product[p].stock_number)
                    /\ Balanced(ecLedger[p], product[p].ec_stock_number)
  BY DEF LedgersAgree, Balanced
<1>1. product[p].stock_number = 0 /\ product[p].ec_stock_number = 0
  BY DEF Init
<1>2. /\ stockLedger[p] = [total |-> 0, result |-> 0]
      /\ ecLedger[p] = [total |-> 0, result |-> 0]
  BY DEF Init
<1>3. QED
  BY <1>1, <1>2 DEF Balanced

(* Whatever requests interleave, whatever they read before they locked, and however *)
(* their nested calls list and delist: the histories of every product that is       *)
(* counted add up to its row, and end with its numbers.                             *)
THEOREM HistoriesAccount == Spec => []LedgersAgree
BY StockInvariant, InitAccounts, StepAccounts, PTL DEF Spec

-----------------------------------------------------------------------------
(***************************************************************************)
(* Nothing that the reserve allows stays unlisted (NeverUnderListed),      *)
(* while one request at a time changes a product's reserve and EC is       *)
(* switched inside a transaction: what the requests read before they       *)
(* locked may have changed in every other way.                             *)
(***************************************************************************)

\* The store's reserve is one, enableEc is not called by itself, one request at a time may
\* change reserves, and no update that switches EC on recalculates besides, which would take
\* the same units off the listing twice.
QuietReserves ==
    /\ \A r, s \in StoreReserves : r = s
    /\ "enable" \notin Ops
    /\ \A q, o \in Managers : q = o
    /\ \A body \in Updates :
          body.mycalinks_ec_enabled = "on"
            => ~body.changesReserve /\ ~body.recalculateEcStockNumber

FullyListed(p, row) == p \in EcAvailable \ Infinite => Margin(row, storeReserve) <= 0

SettingsOK == \A q \in Requests : phase[q] # "idle" => setting[q] = storeReserve

Managing(q) == job[q].op = "update" /\ job[q].body.changesReserve

\* The reserve that a manager has read is still the product's.
ManagersOK ==
    \A q \in Requests :
        phase[q] # "idle" /\ Managing(q) =>
            /\ q \in Managers
            /\ phase[q] = "loaded" =>
                 snap[q].pos_reserved_stock_number = product[job[q].p].pos_reserved_stock_number

ListingInv ==
    /\ SettingsOK
    /\ ManagersOK
    /\ \A p \in Products : FullyListed(p, product[p])

\* The new row has s more units in stock and e more listed than the old one, and its reserve.
Shifts(old, new, s, e) ==
    /\ Moves(old, new, s, e)
    /\ new.pos_reserved_stock_number = old.pos_reserved_stock_number

\* The margin of a row as a number of its own.
LEMMA MarginIs ==
    ASSUME NEW row \in AnyRow, NEW r \in Nat
    PROVE  /\ Reserved(row, r) \in Nat /\ Margin(row, r) \in Int
           /\ Margin(row, r) = (IF row.stock_number > Reserved(row, r)
                                THEN row.stock_number - Reserved(row, r) ELSE 0)
                                 - row.ec_stock_number
<1>1. Reserved(row, r) \in Nat
  BY DEF AnyRow, Reserved
<1> QED
  BY <1>1, AnyMargin DEF Margin, MaximumEc

\* What listing takes off the margin, and what stock adds to it at most.
LEMMA MarginShifts ==
    ASSUME NEW old \in AnyRow, NEW new \in AnyRow, NEW s \in Int, NEW e \in Int, NEW r \in Nat,
           Shifts(old, new, s, e)
    PROVE  /\ s = 0 => Margin(new, r) = Margin(old, r) - e
           /\ s >= 0 => Margin(new, r) <= Margin(old, r) + (s - e)
           /\ s <= 0 => Margin(new, r) <= Margin(old, r) - e
<1>1. PICK R \in Nat : R = Reserved(old, r) /\ R = Reserved(new, r)
  BY MarginIs DEF Shifts, Reserved
<1>2. /\ new.stock_number = old.stock_number + s
      /\ new.ec_stock_number = old.ec_stock_number + e
  BY DEF Shifts, Moves
<1>3. PICK x \in Int, y \in Int : x = old.stock_number /\ y = old.ec_stock_number
  BY DEF AnyRow
<1>4. Margin(old, r) = (IF x > R THEN x - R ELSE 0) - y
  BY <1>1, <1>3, MarginIs
<1>5. Margin(new, r) = (IF x + s > R THEN (x + s) - R ELSE 0) - (y + e)
  <2>1. new.stock_number = x + s /\ new.ec_stock_number = y + e
    BY <1>2, <1>3
  <2>2. Margin(new, r) = (IF new.stock_number > R THEN new.stock_number - R ELSE 0)
                           - new.ec_stock_number
    BY <1>1, MarginIs
  <2> QED
    BY <2>1, <2>2
<1>6. PICK a \in Int, b \in Int : a = Margin(old, r) /\ b = Margin(new, r)
  BY MarginIs
<1>7. /\ s = 0 => b = a - e
      /\ s >= 0 => b <= a + (s - e)
      /\ s <= 0 => b <= a - e
  BY <1>1, <1>3, <1>4, <1>5, <1>6
<1> QED
  BY <1>6, <1>7

LEMMA StockAddsMargin ==
    ASSUME NEW old \in AnyRow, NEW new \in AnyRow, NEW s \in Nat, NEW e \in Int, NEW r \in Nat,
           Shifts(old, new, s, e),
           NEW a, a = Margin(old, r), NEW b, b = Margin(new, r)
    PROVE  a \in Int /\ b \in Int /\ b + e <= a + s
<1>1. a \in Int /\ b \in Int
  BY AnyMargin
<1>2. Margin(new, r) <= Margin(old, r) + (s - e)
  <2>1. s \in Int /\ s >= 0
    OBVIOUS
  <2> QED
    BY <2>1, MarginShifts
<1> QED
  BY <1>1, <1>2

LEMMA ListMoreShifts ==
    ASSUME NEW row \in AnyRow, NEW n \in Int
    PROVE  ListMore(row, n) \in AnyRow /\ Shifts(row, ListMore(row, n), 0, n)
BY DEF AnyRow, ListMore, Shifts, Moves

LEMMA StockShifts ==
    ASSUME NEW row \in AnyRow, NEW n \in Int
    PROVE  /\ [row EXCEPT !.stock_number = @ + n] \in AnyRow
           /\ Shifts(row, [row EXCEPT !.stock_number = @ + n], n, 0)
BY DEF AnyRow, Shifts, Moves

LEMMA FlagsShiftNothing ==
    ASSUME NEW row \in AnyRow, NEW p, NEW op
    PROVE  /\ SoldOut(p, row) \in AnyRow /\ Shifts(row, SoldOut(p, row), 0, 0)
           /\ Stopped(row, op) \in AnyRow /\ Shifts(row, Stopped(row, op), 0, 0)
<1>1. /\ [row EXCEPT !.deleted = TRUE].pos_reserved_stock_number = row.pos_reserved_stock_number
      /\ [row EXCEPT !.mycalinks_ec_enabled = FALSE].pos_reserved_stock_number
           = row.pos_reserved_stock_number
  BY DEF AnyRow
<1>2. SoldOut(p, row).pos_reserved_stock_number = row.pos_reserved_stock_number
  BY <1>1 DEF SoldOut
<1>3. Stopped(row, op).pos_reserved_stock_number = row.pos_reserved_stock_number
  BY <1>1 DEF Stopped
<1> QED
  BY <1>2, <1>3, FlagsMoveNothing DEF Shifts

LEMMA ShiftsAdd ==
    ASSUME NEW a \in AnyRow, NEW b, NEW c,
           NEW s \in Int, NEW e \in Int, NEW t \in Int, NEW f \in Int,
           Shifts(a, b, s, e), Shifts(b, c, t, f)
    PROVE  Shifts(a, c, s + t, e + f)
BY DEF AnyRow, Shifts, Moves

\* A row is written at the end of a request; its reserve is a manager's to change.
LEMMA ListedRow ==
    ASSUME StockInv, ListingInv, QuietReserves, NEW q \in Requests, NEW p \in Products, NEW row,
           FullyListed(p, row), product' = [product EXCEPT ![p] = row],
           \/ row.pos_reserved_stock_number = product[p].pos_reserved_stock_number
           \/ q \in Managers,
           Finish(q), UNCHANGED storeReserve
    PROVE  ListingInv'
<1>1. \A o \in Products : product'[o] = IF o = p THEN row ELSE product[o]
  BY DEF StockInv, RowsOK
<1>2. \A o \in Products : FullyListed(o, product[o])'
  BY <1>1 DEF ListingInv, FullyListed
<1>3. SettingsOK'
  BY DEF StockInv, RequestsOK, Finish, ListingInv, SettingsOK
<1>4. \A o \in Requests :
         /\ phase'[o] = IF o = q THEN "idle" ELSE phase[o]
         /\ o # q => job'[o] = job[o] /\ snap'[o] = snap[o]
  BY DEF StockInv, RequestsOK, Finish
<1>5. ASSUME NEW o \in Requests, phase'[o] # "idle", Managing(o)'
      PROVE  /\ o \in Managers
             /\ phase'[o] = "loaded" =>
                  snap'[o].pos_reserved_stock_number
                    = product'[job'[o].p].pos_reserved_stock_number
  <2>1. o # q /\ phase'[o] = phase[o] /\ job'[o] = job[o] /\ snap'[o] = snap[o]
    BY <1>4, <1>5
  <2>2. phase[o] # "idle" /\ Managing(o)
    BY <1>5, <2>1 DEF Managing
  <2>3. /\ o \in Managers
        /\ phase[o] = "loaded" =>
             snap[o].pos_reserved_stock_number = product[job[o].p].pos_reserved_stock_number
    BY <2>2 DEF ListingInv, ManagersOK
  <2>4. row.pos_reserved_stock_number = product[p].pos_reserved_stock_number
    BY <2>1, <2>3 DEF QuietReserves
  <2>5. job[o].p \in Products
    BY <2>2 DEF StockInv, RequestsOK, Jobs
  <2> QED
    BY <1>1, <2>1, <2>3, <2>4, <2>5
<1>6. ManagersOK'
  BY <1>5 DEF ManagersOK
<1> QED
  BY <1>2, <1>3, <1>6 DEF ListingInv

\* What is known of the request that writes a row, and of the row.
LEMMA Lister ==
    ASSUME StockInv, ListingInv, NEW q \in Requests, phase[q] # "idle"
    PROVE  /\ job[q].p \in Products
           /\ setting[q] = storeReserve /\ storeReserve \in Nat
           /\ product[job[q].p] \in AnyRow
           /\ FullyListed(job[q].p, product[job[q].p])
<1>1. job[q] \in Jobs
  BY DEF StockInv, RequestsOK
<1>2. job[q].p \in Products
  BY <1>1 DEF Jobs
<1>3. storeReserve \in Nat
  BY StockAssumption DEF StockInv, AccountsOK
<1> QED
  BY <1>2, <1>3, RowIsAny DEF StockInv, RowsOK, ListingInv, SettingsOK

LEMMA IncreaseLists ==
    ASSUME StockInv, ListingInv, QuietReserves, NEW q \in Requests, Increase(q)
    PROVE  ListingInv'
<1> DEFINE p == job[q].p
           n == job[q].n
           stocked == IF p \in Infinite
                      THEN product[p]
                      ELSE [product[p] EXCEPT !.stock_number = @ + n]
           listed == ToList(p, stocked, n, setting[q])
           row == ListMore(stocked, listed)
           old == product[p]
           r == storeReserve
<1>1. /\ n \in Nat /\ p \in Products /\ setting[q] = r /\ r \in Nat
      /\ old \in AnyRow /\ old \in Row /\ FullyListed(p, old)
  BY Committer, Lister DEF Increase, Committing, RowOK
<1>2. product' = [product EXCEPT ![p] = row] /\ Finish(q) /\ UNCHANGED storeReserve
  BY DEF Increase
<1> HIDE DEF p, n, r
<1>3. /\ stocked \in AnyRow /\ stocked \in Row
      /\ p \notin Infinite => Shifts(old, stocked, n, 0)
      /\ p \in Infinite => stocked = old
  BY <1>1, StockShifts DEF Row
<1> HIDE DEF stocked, old
<1>4. listed \in Nat /\ (listed > 0 => p \notin Infinite)
  BY <1>1, <1>3, ToListType
<1>5. row \in AnyRow /\ Shifts(stocked, row, 0, listed)
  BY <1>3, <1>4, ListMoreShifts
<1>6. PICK m \in Int : m = Margin(stocked, r)
  BY <1>1, <1>3, AnyMargin
<1>7. Margin(row, r) = m - listed
  <2> HIDE DEF row, listed
  <2> QED
    BY <1>1, <1>3, <1>4, <1>5, <1>6, MarginShifts
<1>8. ASSUME p \in EcAvailable \ Infinite PROVE Margin(row, r) <= 0
  <2>1. PICK k \in Int : k = Margin(old, r) /\ k <= 0
    BY <1>1, <1>8, AnyMargin DEF FullyListed, r
  <2>2. m + 0 <= k + n
    BY <1>1, <1>3, <1>6, <1>8, <2>1, StockAddsMargin
  <2>3. m <= 0 \/ listed = m
    <3>1. listed = IF m <= 0 THEN 0 ELSE IF m < n THEN m ELSE n
      BY <1>1, <1>6, <1>8 DEF ToList
    <3> QED
      BY <1>1, <2>1, <2>2, <3>1
  <2> HIDE DEF row, listed
  <2> QED
    BY <1>4, <1>7, <2>3
<1>9. row.pos_reserved_stock_number = old.pos_reserved_stock_number
  BY <1>3, <1>5 DEF Shifts
<1>10. FullyListed(p, row)
  BY <1>8 DEF FullyListed, r
<1> HIDE DEF row
<1> QED
  BY <1>1, <1>2, <1>9, <1>10, ListedRow DEF old

LEMMA DecreaseLists ==
    ASSUME StockInv, ListingInv, QuietReserves, NEW q \in Requests, Decrease(q)
    PROVE  ListingInv'
<1> DEFINE p == job[q].p
           n == job[q].n
           taken == IF p \in Infinite
                    THEN product[p]
                    ELSE [product[p] EXCEPT !.stock_number = @ - n]
           delisted == ToDelist(p, taken, setting[q])
           left == ListMore(taken, -delisted)
           row == SoldOut(p, left)
           old == product[p]
           r == storeReserve
<1>1. /\ n \in Nat /\ p \in Products /\ setting[q] = r /\ r \in Nat
      /\ old \in AnyRow /\ FullyListed(p, old)
  BY Committer, Lister DEF Decrease, Committing
<1>2. product' = [product EXCEPT ![p] = row] /\ Finish(q) /\ UNCHANGED storeReserve
  BY DEF Decrease
<1> HIDE DEF p, n, r
<1>3. /\ taken \in AnyRow
      /\ p \notin Infinite => Shifts(old, taken, -n, 0)
      /\ p \in Infinite => taken = old
  <2>1. [old EXCEPT !.stock_number = @ - n] = [old EXCEPT !.stock_number = @ + (-n)]
    BY <1>1 DEF AnyRow
  <2>2. -n \in Int
    BY <1>1
  <2>3. /\ [old EXCEPT !.stock_number = @ + (-n)] \in AnyRow
        /\ Shifts(old, [old EXCEPT !.stock_number = @ + (-n)], -n, 0)
    BY <1>1, <2>2, StockShifts
  <2> QED
    BY <1>1, <2>1, <2>3
<1> HIDE DEF taken, old
<1>4. PICK m \in Int : m = Margin(taken, r)
  BY <1>1, <1>3, AnyMargin
<1>5. /\ delisted \in Int
      /\ p \in Infinite => delisted = 0
      /\ p \notin Infinite /\ p \in EcAvailable => delisted = IF m < 0 THEN -m ELSE 0
  BY <1>1, <1>4 DEF ToDelist
<1> HIDE DEF delisted
<1>6. left \in AnyRow /\ Shifts(taken, left, 0, -delisted)
  BY <1>3, <1>5, ListMoreShifts
<1> HIDE DEF left
<1>7. row \in AnyRow /\ Shifts(left, row, 0, 0)
  BY <1>6, FlagsShiftNothing
<1> HIDE DEF row
<1>8. Margin(row, r) = m + delisted
  <2>1. Margin(left, r) = Margin(taken, r) - (-delisted)
    BY <1>1, <1>3, <1>5, <1>6, MarginShifts
  <2>2. Margin(row, r) = Margin(left, r) - 0
    BY <1>1, <1>6, <1>7, MarginShifts
  <2>3. Margin(left, r) \in Int
    BY <1>1, <1>6, AnyMargin
  <2> QED
    BY <1>4, <1>5, <2>1, <2>2, <2>3
<1>9. ASSUME p \in EcAvailable \ Infinite PROVE Margin(row, r) <= 0
  <2>1. PICK k \in Int : k = Margin(old, r) /\ k <= 0
    BY <1>1, <1>9, AnyMargin DEF FullyListed, r
  <2>2. Margin(taken, r) <= Margin(old, r) - 0
    BY <1>1, <1>3, <1>9, MarginShifts
  <2>3. m <= 0
    BY <1>4, <2>1, <2>2
  <2> QED
    BY <1>5, <1>8, <1>9, <2>3
<1>10. row.pos_reserved_stock_number = old.pos_reserved_stock_number
  BY <1>3, <1>6, <1>7 DEF Shifts
<1>11. FullyListed(p, row)
  BY <1>9 DEF FullyListed, r
<1> QED
  BY <1>1, <1>2, <1>10, <1>11, ListedRow DEF old

LEMMA EcSellLists ==
    ASSUME StockInv, ListingInv, QuietReserves, NEW q \in Requests, EcSell(q)
    PROVE  ListingInv'
<1> DEFINE p == job[q].p
           n == job[q].n
           old == product[p]
           listing == ListMore(old, -n)
           left == IF p \in Infinite
                   THEN listing
                   ELSE [listing EXCEPT !.stock_number = @ - n]
           row == SoldOut(p, left)
           r == storeReserve
<1>1. /\ n \in Nat /\ n > 0 /\ p \in Products /\ setting[q] = r /\ r \in Nat
      /\ old \in AnyRow /\ old \in Row /\ FullyListed(p, old)
  BY Committer, Lister DEF EcSell, Committing, RowOK
<1>2. product' = [product EXCEPT ![p] = row] /\ Finish(q) /\ UNCHANGED storeReserve
  BY DEF EcSell
<1>3. old.ec_stock_number - n >= 0
  BY DEF EcSell, DecreaseEcAllowed
<1> HIDE DEF p, n, r
<1>4. listing \in AnyRow /\ Shifts(old, listing, 0, -n)
  BY <1>1, ListMoreShifts
<1> HIDE DEF listing
<1>5. /\ left \in AnyRow
      /\ p \in Infinite => left = listing
      /\ p \notin Infinite => Shifts(listing, left, -n, 0)
  <2>1. [listing EXCEPT !.stock_number = @ - n] = [listing EXCEPT !.stock_number = @ + (-n)]
    BY <1>1, <1>4 DEF AnyRow
  <2>2. -n \in Int
    BY <1>1
  <2>3. /\ [listing EXCEPT !.stock_number = @ + (-n)] \in AnyRow
        /\ Shifts(listing, [listing EXCEPT !.stock_number = @ + (-n)], -n, 0)
    BY <1>4, <2>2, StockShifts
  <2> QED
    BY <1>4, <2>1, <2>3
<1> HIDE DEF left
<1>6. row \in AnyRow /\ Shifts(left, row, 0, 0)
  BY <1>5, FlagsShiftNothing
<1> HIDE DEF row
<1>7. row.pos_reserved_stock_number = old.pos_reserved_stock_number
  <2>1. left.pos_reserved_stock_number = listing.pos_reserved_stock_number
    BY <1>5 DEF Shifts
  <2> QED
    BY <1>4, <1>6, <2>1 DEF Shifts
<1>8. ASSUME p \in EcAvailable \ Infinite PROVE Margin(row, r) <= 0
  <2>1. PICK R \in Nat : R = Reserved(old, r) /\ R = Reserved(row, r)
    BY <1>1, <1>7, MarginIs DEF Reserved
  <2>2. PICK x \in Int, y \in Int : x = old.stock_number /\ y = old.ec_stock_number
    BY <1>1 DEF AnyRow
  <2>3. row.ec_stock_number = y - n /\ row.stock_number = x - n
    <3>1. Shifts(listing, left, -n, 0)
      BY <1>5, <1>8
    <3>2. listing.ec_stock_number = y + (-n) /\ listing.stock_number = x + 0
      BY <1>4, <2>2 DEF Shifts, Moves
    <3>3. left.ec_stock_number = (y + (-n)) + 0 /\ left.stock_number = (x + 0) + (-n)
      BY <3>1, <3>2 DEF Shifts, Moves
    <3>4. /\ row.ec_stock_number = left.ec_stock_number + 0
          /\ row.stock_number = left.stock_number + 0
      BY <1>6 DEF Shifts, Moves
    <3> QED
      BY <1>1, <2>2, <3>3, <3>4
  <2>4. (IF x > R THEN x - R ELSE 0) - y <= 0
    <3>1. Margin(old, r) <= 0
      BY <1>1, <1>8 DEF FullyListed, r
    <3>2. Margin(old, r) = (IF x > R THEN x - R ELSE 0) - y
      BY <1>1, <2>1, <2>2, MarginIs
    <3> QED
      BY <3>1, <3>2
  <2>5. y - n >= 0
    BY <1>3, <2>2
  <2>6. Margin(row, r) = (IF x - n > R THEN (x - n) - R ELSE 0) - (y - n)
    BY <1>1, <1>6, <2>1, <2>3, MarginIs
  <2> QED
    BY <1>1, <2>4, <2>5, <2>6
<1>9. FullyListed(p, row)
  BY <1>8 DEF FullyListed, r
<1> HIDE DEF old
<1> QED
  BY <1>1, <1>2, <1>7, <1>9, ListedRow DEF old

LEMMA EcReturnLists ==
    ASSUME StockInv, ListingInv, QuietReserves, NEW q \in Requests, EcReturn(q)
    PROVE  ListingInv'
<1> DEFINE p == job[q].p
           n == job[q].n
           old == product[p]
           more == ListMore(old, n)
           listing == Stopped(more, job[q].op)
           row == IF p \in Infinite
                  THEN listing
                  ELSE [listing EXCEPT !.stock_number = @ + n]
           r == storeReserve
<1>1. /\ n \in Nat /\ p \in Products /\ setting[q] = r /\ r \in Nat
      /\ old \in AnyRow /\ FullyListed(p, old)
  BY Committer, Lister DEF EcReturn
<1>2. product' = [product EXCEPT ![p] = row] /\ Finish(q) /\ UNCHANGED storeReserve
  BY DEF EcReturn
<1> HIDE DEF p, n, r
<1>3. more \in AnyRow /\ Shifts(old, more, 0, n)
  BY <1>1, ListMoreShifts
<1> HIDE DEF more, old
<1>4. listing \in AnyRow /\ Shifts(more, listing, 0, 0)
  BY <1>3, FlagsShiftNothing
<1> HIDE DEF listing
<1>5. /\ row \in AnyRow
      /\ p \in Infinite => row = listing
      /\ p \notin Infinite => Shifts(listing, row, n, 0)
  BY <1>1, <1>4, StockShifts
<1> HIDE DEF row
<1>6. Shifts(old, listing, 0, n)
  <2>1. Shifts(old, listing, 0 + 0, n + 0)
    BY <1>1, <1>3, <1>4, ShiftsAdd
  <2> QED
    BY <1>1, <2>1
<1>7. row.pos_reserved_stock_number = old.pos_reserved_stock_number
  BY <1>5, <1>6 DEF Shifts
<1>8. ASSUME p \in EcAvailable \ Infinite PROVE Margin(row, r) <= 0
  <2>1. PICK k \in Int, l \in Int, m \in Int :
           /\ k = Margin(old, r) /\ k <= 0 /\ l = Margin(listing, r) /\ m = Margin(row, r)
    BY <1>1, <1>4, <1>5, <1>8, AnyMargin DEF FullyListed, r
  <2>2. l + n <= k + 0
    BY <1>1, <1>4, <1>6, <2>1, StockAddsMargin
  <2>3. m + 0 <= l + n
    BY <1>1, <1>4, <1>5, <1>8, <2>1, StockAddsMargin
  <2> QED
    BY <1>1, <2>1, <2>2, <2>3
<1>9. FullyListed(p, row)
  BY <1>8 DEF FullyListed, r
<1> QED
  BY <1>1, <1>2, <1>7, <1>9, ListedRow DEF old

LEMMA DeleteLists ==
    ASSUME StockInv, ListingInv, QuietReserves, NEW q \in Requests, Delete(q)
    PROVE  ListingInv'
<1> DEFINE p == job[q].p
           row == [product[p] EXCEPT !.deleted = TRUE]
<1>1. /\ p \in Products /\ storeReserve \in Nat
      /\ product[p] \in AnyRow /\ FullyListed(p, product[p])
  BY Lister DEF Delete, Committing
<1>2. product' = [product EXCEPT ![p] = row] /\ Finish(q) /\ UNCHANGED storeReserve
  BY <1>1 DEF Delete, StockInv, RowsOK
<1>3. Margin(row, storeReserve) = Margin(product[p], storeReserve)
      /\ row.pos_reserved_stock_number = product[p].pos_reserved_stock_number
  BY <1>1 DEF AnyRow, Margin, MaximumEc, Reserved
<1>4. FullyListed(p, row)
  BY <1>1, <1>3 DEF FullyListed
<1> HIDE DEF p, row
<1> QED
  BY <1>1, <1>2, <1>3, <1>4, ListedRow

\* One of the two recalculations has the whole margin of the row, unless the reserve, and so
\* the margin, is as it was; publishing only takes from it.
LEMMA UpdateLists ==
    ASSUME StockInv, ListingInv, QuietReserves, NEW q \in Requests, Update(q)
    PROVE  ListingInv'
<1> DEFINE p == job[q].p
           body == job[q].body
           old == product[p]
           updated == Updated(old, body)
           switched == Switched(updated, body)
           relisted == IF body.mycalinks_ec_enabled = "on" THEN Margin(switched, setting[q]) ELSE 0
           enabled == ListMore(switched, relisted)
           publish == ToPublish(enabled, body, setting[q])
           published == ListMore(enabled, publish)
           recalculated == IF ReserveWasChanged(snap[q], body, updated)
                           THEN Margin(updated, setting[q]) ELSE 0
           row == ListMore(published, recalculated)
           r == storeReserve
<1>1. /\ p \in Products /\ setting[q] = r /\ r \in Nat
      /\ old \in AnyRow /\ old \in Row /\ FullyListed(p, old)
  BY Lister DEF Update, Committing, StockInv, RowsOK
<1>2. product' = [product EXCEPT ![p] = row] /\ Finish(q) /\ UNCHANGED storeReserve
  BY DEF Update
<1>3. /\ body \in UpdateBodies
      /\ body.mycalinks_ec_enabled = "on"
           => ~body.changesReserve /\ ~body.recalculateEcStockNumber
  <2>1. job[q].op = "update" /\ job[q] \in Jobs
    BY DEF Update, Committing, StockInv, RequestsOK
  <2>2. body \in Updates
    BY <2>1 DEF Jobs
  <2> QED
    BY <2>2, StockAssumption DEF QuietReserves
<1>4. body.changesReserve =>
         /\ q \in Managers
         /\ snap[q].pos_reserved_stock_number = old.pos_reserved_stock_number
  BY DEF Update, Committing, ListingInv, ManagersOK, Managing
<1> HIDE DEF p, body, r
<1>5. /\ updated \in Row /\ updated \in AnyRow
      /\ ~body.changesReserve => updated = old
      /\ updated.stock_number = old.stock_number
      /\ updated.ec_stock_number = old.ec_stock_number
  BY <1>1, <1>3, UpdatedRow, RowIsAny DEF Updated
<1>6. PICK m \in Int : m = Margin(updated, r)
  BY <1>1, <1>5, AnyMargin
<1>7. /\ recalculated = IF ReserveWasChanged(snap[q], body, updated) THEN m ELSE 0
      /\ body.mycalinks_ec_enabled = "on" => recalculated = 0
  BY <1>1, <1>3, <1>6 DEF ReserveWasChanged
<1>8. \/ updated.pos_reserved_stock_number = old.pos_reserved_stock_number
      \/ ReserveWasChanged(snap[q], body, updated)
  BY <1>4, <1>5 DEF ReserveWasChanged
<1>9. ASSUME updated.pos_reserved_stock_number = old.pos_reserved_stock_number
      PROVE  m = Margin(old, r)
  BY <1>1, <1>5, <1>6, <1>9, MarginIs DEF Reserved
<1> HIDE DEF updated
<1>10. switched \in AnyRow /\ Shifts(updated, switched, 0, 0)
  <2>1. /\ switched \in Row /\ switched.stock_number = updated.stock_number
        /\ switched.ec_stock_number = updated.ec_stock_number
    BY <1>5, SwitchedRow
  <2>2. switched.pos_reserved_stock_number = updated.pos_reserved_stock_number
    BY <1>5 DEF Switched, Row
  <2> QED
    BY <1>5, <2>1, <2>2, RowIsAny DEF Shifts, Moves, AnyRow
<1>11. Margin(switched, r) = m
  <2>1. Margin(switched, r) = Margin(updated, r) - 0
    BY <1>1, <1>5, <1>10, MarginShifts
  <2> QED
    BY <1>6, <2>1
<1>12. relisted = IF body.mycalinks_ec_enabled = "on" THEN m ELSE 0
  BY <1>1, <1>11
<1> HIDE DEF switched, relisted, recalculated, old
<1>13. enabled \in AnyRow /\ Shifts(switched, enabled, 0, relisted)
  BY <1>6, <1>10, <1>12, ListMoreShifts
<1>14. Margin(enabled, r) = m - relisted
  BY <1>1, <1>6, <1>10, <1>11, <1>12, <1>13, MarginShifts
<1>15. publish \in Nat
  <2>1. Margin(enabled, setting[q]) \in Int /\ body.ecPublishStockNumber \in Nat
    BY <1>1, <1>3, <1>13, AnyMargin DEF UpdateBodies
  <2> QED
    BY <2>1 DEF ToPublish
<1> HIDE DEF enabled, publish
<1>16. published \in AnyRow /\ Shifts(enabled, published, 0, publish)
  BY <1>13, <1>15, ListMoreShifts
<1> HIDE DEF published
<1>17. row \in AnyRow /\ Shifts(published, row, 0, recalculated)
  BY <1>6, <1>7, <1>16, ListMoreShifts
<1> HIDE DEF row
<1>18. Margin(row, r) = ((m - relisted) - publish) - recalculated
  <2>1. Margin(published, r) = Margin(enabled, r) - publish
    BY <1>1, <1>13, <1>15, <1>16, MarginShifts
  <2>2. Margin(row, r) = Margin(published, r) - recalculated
    BY <1>1, <1>6, <1>7, <1>16, <1>17, MarginShifts
  <2> QED
    BY <1>14, <2>1, <2>2
<1>19. ASSUME p \in EcAvailable \ Infinite PROVE Margin(row, r) <= 0
  <2>1. CASE relisted + recalculated = m
    BY <1>6, <1>7, <1>12, <1>15, <1>18, <2>1
  <2>2. CASE relisted + recalculated # m
    <3>1. relisted = 0 /\ recalculated = 0
      BY <1>6, <1>7, <1>12, <2>2
    <3>2. ~ReserveWasChanged(snap[q], body, updated)
      BY <1>6, <1>7, <2>2, <3>1
    <3>3. m <= 0
      BY <1>1, <1>8, <1>9, <1>19, <3>2 DEF FullyListed, r
    <3> QED
      BY <1>6, <1>15, <1>18, <3>1, <3>3
  <2> QED
    BY <2>1, <2>2
<1>20. FullyListed(p, row)
  BY <1>19 DEF FullyListed, r
<1>21. \/ row.pos_reserved_stock_number = old.pos_reserved_stock_number
       \/ q \in Managers
  BY <1>4, <1>5, <1>10, <1>13, <1>16, <1>17 DEF Shifts
<1> QED
  BY <1>1, <1>2, <1>20, <1>21, ListedRow DEF old

LEMMA InitLists == Init => ListingInv
<1> SUFFICES ASSUME Init PROVE ListingInv
  OBVIOUS
<1>1. storeReserve \in Nat
  BY StockAssumption DEF Init
<1>2. ASSUME NEW p \in Products PROVE FullyListed(p, product[p])
  BY <1>1 DEF Init, FullyListed, Margin, MaximumEc, Reserved
<1> QED
  BY <1>2 DEF ListingInv, SettingsOK, ManagersOK, Init

LEMMA StepLists == StockInv /\ ListingInv /\ QuietReserves /\ [Next]_vars => ListingInv'
<1> SUFFICES ASSUME StockInv, ListingInv, QuietReserves, [Next]_vars PROVE ListingInv'
  OBVIOUS
<1>1. ASSUME NEW q \in Requests, Commit(q) PROVE ListingInv'
  <2>1. ~Enable(q) /\ ~Recalculate(q)
    BY DEF Enable, Recalculate, Committing, StockInv, RequestsOK, QuietReserves, Jobs
  <2> QED
    BY <1>1, <2>1, IncreaseLists, DecreaseLists, EcSellLists, EcReturnLists, DeleteLists,
       UpdateLists DEF Commit
<1>2. ASSUME NEW q \in Requests, (\E j \in Jobs : Start(q, j)) \/ Load(q) \/ Abort(q)
      PROVE  ListingInv'
  <2>1. UNCHANGED <<product, storeReserve>>
    BY <1>2 DEF Start, Load, Abort, tables
  <2>2. SettingsOK'
    BY <1>2, <2>1 DEF Start, Load, Abort, Finish, StockInv, RequestsOK, ListingInv, SettingsOK
  <2>3. ManagersOK'
    <3>1. CASE \E j \in Jobs : Start(q, j)
      <4>1. PICK j \in Jobs : Start(q, j)
        BY <3>1
      <4>2. \A o \in Requests :
               /\ phase'[o] = IF o = q THEN "started" ELSE phase[o]
               /\ job'[o] = IF o = q THEN j ELSE job[o]
        BY <4>1 DEF Start, StockInv, RequestsOK
      <4>3. snap' = snap /\ (j.op = "update" /\ j.body.changesReserve => q \in Managers)
        BY <4>1 DEF Start
      <4> QED
        BY <2>1, <4>2, <4>3 DEF ListingInv, ManagersOK, Managing
    <3>2. CASE Load(q)
      <4>1. /\ phase[q] = "started" /\ job' = job
            /\ phase' = [phase EXCEPT ![q] = "loaded"]
            /\ snap' = [snap EXCEPT ![q] = product[job[q].p]]
        BY <3>2 DEF Load
      <4>2. \A o \in Requests :
               /\ phase'[o] = IF o = q THEN "loaded" ELSE phase[o]
               /\ snap'[o] = IF o = q THEN product[job[q].p] ELSE snap[o]
        BY <4>1 DEF StockInv, RequestsOK
      <4> QED
        BY <2>1, <4>1, <4>2 DEF ListingInv, ManagersOK, Managing
    <3>3. CASE Abort(q)
      <4>1. \A o \in Requests :
               /\ phase'[o] = IF o = q THEN "idle" ELSE phase[o]
               /\ o # q => job'[o] = job[o] /\ snap'[o] = snap[o]
        BY <3>3 DEF Abort, Finish, StockInv, RequestsOK
      <4> QED
        BY <2>1, <4>1 DEF ListingInv, ManagersOK, Managing
    <3> QED
      BY <1>2, <3>1, <3>2, <3>3
  <2> QED
    BY <2>1, <2>2, <2>3 DEF ListingInv, FullyListed
<1>3. ASSUME NEW r \in StoreReserves, SetStoreReserve(r) PROVE FALSE
  BY <1>3 DEF SetStoreReserve, QuietReserves, StockInv, AccountsOK
<1>4. CASE UNCHANGED vars
  BY <1>4 DEF vars, tables, request, ListingInv, SettingsOK, ManagersOK, Managing, FullyListed
<1> QED
  BY <1>1, <1>2, <1>3, <1>4 DEF Next

\* While one request at a time changes the reserve of a product, every movement of the stock
\* and of a reserve lists what becomes free for EC, whatever else has changed since the
\* requests read: no listing of a counted product is below what the reserve allows
\* (increaseStock, decreaseStock, update, recalculateEcStockNumber).
THEOREM NothingStaysUnlisted ==
    ASSUME QuietReserves
    PROVE  Spec => []NeverUnderListed
<1>1. ListingInv => NeverUnderListed
  BY StockAssumption DEF ListingInv, FullyListed, NeverUnderListed
<1>2. StockInv /\ ListingInv /\ [Next]_vars => ListingInv'
  BY StepLists
<1> QED
  BY <1>1, <1>2, StockInvariant, InitLists, PTL DEF Spec

\* A sale on EC leaves the units of the reserve whatever the requests and settings are,
\* unless more was listed than the reserve allows.
THEOREM SalesLeaveReserve == Spec => EcSaleLeavesReserve
<1>1. ASSUME StockInv, [Next]_vars, NEW p \in Products,
             sold'[p] > sold[p], Margin(product[p], storeReserve) >= 0
      PROVE  product'[p].stock_number >= Reserved(product[p], storeReserve)
  <2>1. PICK q \in Requests : EcSell(q) /\ job[q].p = p
    <3>1. ASSUME UNCHANGED sold PROVE FALSE
      BY <1>1, <3>1 DEF StockInv, AccountsOK
    <3>2. ~(\E q \in Requests : EcReturn(q))
      <4> SUFFICES ASSUME NEW q \in Requests, EcReturn(q) PROVE FALSE
        OBVIOUS
      <4>1. job[q].n \in Nat
        BY <1>1, Committer DEF EcReturn
      <4> QED
        BY <1>1, <4>1 DEF EcReturn, StockInv, AccountsOK
    <3>3. PICK q \in Requests : EcSell(q)
      <4>1. ASSUME NEW q \in Requests, Commit(q), ~EcSell(q) PROVE UNCHANGED sold
        BY <3>2, <4>1 DEF Commit, Increase, Decrease, Enable, Recalculate, Update, Delete
      <4>2. ASSUME NEW q \in Requests, (\E j \in Jobs : Start(q, j)) \/ Load(q) \/ Abort(q)
            PROVE  UNCHANGED sold
        BY <4>2 DEF Start, Load, Abort, tables
      <4>3. ASSUME (\E r \in StoreReserves : SetStoreReserve(r)) \/ UNCHANGED vars
            PROVE  UNCHANGED sold
        BY <4>3 DEF SetStoreReserve, vars, tables
      <4> QED
        BY <1>1, <3>1, <4>1, <4>2, <4>3 DEF Next
    <3>4. job[q].p = p
      BY <1>1, <3>3 DEF EcSell, StockInv, AccountsOK
    <3> QED
      BY <3>3, <3>4
  <2>2. PICK n \in Nat : n = job[q].n /\ n > 0
    BY <1>1, <2>1, Committer DEF EcSell, Committing
  <2>3. product[p] \in Row /\ product[p] \in AnyRow /\ storeReserve \in Nat
    BY <1>1, StockAssumption, RowIsAny DEF StockInv, RowsOK, AccountsOK
  <2>4. product[p].ec_stock_number - n >= 0
    BY <2>1, <2>2 DEF EcSell, DecreaseEcAllowed
  <2>5. PICK R \in Nat, x \in Nat, y \in Nat :
           /\ R = Reserved(product[p], storeReserve)
           /\ x = product[p].stock_number /\ y = product[p].ec_stock_number
    BY <2>3, MarginIs DEF Row
  <2>6. (IF x > R THEN x - R ELSE 0) - y >= 0
    BY <1>1, <2>3, <2>5, MarginIs
  <2>7. x - n >= R
    BY <2>2, <2>4, <2>5, <2>6
  <2>8. product'[p].stock_number \in {x, x - n}
    <3> DEFINE listing == ListMore(product[p], -n)
               left == IF p \in Infinite
                       THEN listing
                       ELSE [listing EXCEPT !.stock_number = @ - n]
    <3>1. product'[p] = SoldOut(p, left)
      <4>1. product' = [product EXCEPT ![p] = SoldOut(p, left)]
        BY <2>1, <2>2 DEF EcSell
      <4> HIDE DEF left
      <4> QED
        BY <1>1, <4>1 DEF StockInv, RowsOK
    <3>2. listing.stock_number = x /\ listing \in AnyRow
      <4>1. -n \in Int
        BY <2>2
      <4>2. listing \in AnyRow
        BY <2>3, <4>1, ListMoreMoves
      <4>3. listing.stock_number = product[p].stock_number
        BY <2>3 DEF ListMore, Row
      <4> QED
        BY <2>5, <4>2, <4>3
    <3>3. left.stock_number \in {x, x - n} /\ left \in AnyRow
      <4> HIDE DEF listing
      <4> QED
        BY <2>2, <3>2 DEF AnyRow
    <3> HIDE DEF left
    <3>4. SoldOut(p, left).stock_number = left.stock_number
      BY <3>3 DEF SoldOut, AnyRow
    <3> QED
      BY <3>1, <3>3, <3>4
  <2> QED
    BY <2>2, <2>5, <2>7, <2>8
<1>2. StockInv /\ [Next]_vars =>
         [\A p \in Products :
             sold'[p] > sold[p] /\ Margin(product[p], storeReserve) >= 0
               => product'[p].stock_number >= Reserved(product[p], storeReserve)]_vars
  BY <1>1
<1> QED
  BY <1>2, StockInvariant, PTL DEF Spec, EcSaleLeavesReserve

=============================================================================
