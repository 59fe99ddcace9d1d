--------------------------- MODULE EcOrderProofs ----------------------------
(***************************************************************************)
(* Proofs about EcOrder, for any stores, stock, quantities, methods,       *)
(* payments and requests: goods are shipped, and orders and payments are   *)
(* marked as paid, only for money that was collected.                      *)
(*                                                                         *)
(* When the customer uses one tab, a payment is open exactly while the     *)
(* order waits for it; when each store also has one employee at work, what *)
(* is shipped is final, the order holds the units it should, and refunds   *)
(* add up.  The code asks for neither: what it does otherwise is told at   *)
(* the hypotheses.                                                         *)
(***************************************************************************)
EXTENDS EcOrder, TLAPS, FiniteSetTheorems

-----------------------------------------------------------------------------
(* The inductive invariant.  The sums of money play no part in it.         *)

Collected(p) == gmo[p].paid \/ payment[p].method = "CASH_ON_DELIVERY"
MoneyIsThere == \E p \in Payments : Collected(p)

\* The columns that are written one by one.
TablesOK ==
    /\ "status" \in DOMAIN order
    /\ DOMAIN cart = Stores /\ \A s \in Stores : "status" \in DOMAIN cart[s]
    /\ DOMAIN payment = Payments
    /\ \A p \in Payments :
          /\ {"status", "method"} \subseteq DOMAIN payment[p]
          /\ payment[p].status = "none" => payment[p] = NoPayment
    /\ DOMAIN gmo = Payments /\ \A p \in Payments : "paid" \in DOMAIN gmo[p]

\* What a request has checked when it read stays so: no money that was collected is
\* ever forgotten, so that it may be late.
WorkAt(q) ==
    /\ job[q] \in Jobs
    /\ phase[q] = "open" => job[q].op = "store"
    /\ job[q].op = "callback" => gmo[job[q].payment].paid
    /\ job[q].op = "store" /\ seen[q].status = "COMPLETED" => MoneyIsThere

RequestsOK ==
    /\ DOMAIN phase = Requests /\ DOMAIN job = Requests /\ DOMAIN seen = Requests
    /\ \A q \in Requests : phase[q] = "idle" \/ WorkAt(q)

OrderInv == TablesOK /\ RequestsOK /\ PaidIsCollected /\ CompletedIsCollected

-----------------------------------------------------------------------------
(* Requests.                                                               *)

\* What a request does for whom.
LEMMA JobKinds ==
    ASSUME NEW j \in Jobs
    PROVE  /\ j.op \in {"upsert", "pay", "callback", "timeout", "store"}
           /\ j.op = "callback" => j.payment \in Payments
           /\ j.op = "store" => /\ j.store \in Stores
                                /\ j.change \in {"wait", "complete", "cancel", "shortage"}
BY DEF Jobs, Changes

\* Money that was collected is never forgotten.
MoneyStays ==
    \A p \in Payments : (gmo[p].paid => gmo'[p].paid) /\ (Collected(p) => Collected(p)')

\* The request q takes a step, the others wait.
LEMMA RequestsStay ==
    ASSUME OrderInv, NEW q \in Requests, MoneyStays,
           DOMAIN phase' = Requests, DOMAIN job' = Requests, DOMAIN seen' = Requests,
           \A p \in Requests \ {q} : /\ phase'[p] = phase[p] /\ job'[p] = job[p]
                                     /\ seen'[p] = seen[p],
           phase'[q] = "idle" \/ WorkAt(q)'
    PROVE  RequestsOK' /\ (MoneyIsThere => MoneyIsThere')
<1>1. MoneyIsThere => MoneyIsThere'
  BY DEF MoneyIsThere, MoneyStays
<1>2. ASSUME NEW p \in Requests \ {q}, phase[p] # "idle" PROVE WorkAt(p)'
  <2>1. WorkAt(p)
    BY <1>2 DEF OrderInv, RequestsOK
  <2>2. job[p].op = "callback" => job[p].payment \in Payments
    BY <2>1, JobKinds DEF WorkAt
  <2> QED
    BY <1>1, <2>1, <2>2 DEF WorkAt, MoneyStays
<1> QED
  BY <1>1, <1>2 DEF RequestsOK

LEMMA FinishKeeps ==
    ASSUME OrderInv, NEW q \in Requests, Finish(q), MoneyStays
    PROVE  RequestsOK' /\ (MoneyIsThere => MoneyIsThere')
BY RequestsStay DEF Finish, OrderInv, RequestsOK, MoneyStays, Collected

\* A request that has read changes nothing yet.
LEMMA ReadKeeps ==
    ASSUME OrderInv, NEW q \in Requests, NEW j \in Jobs, NEW what, ReadBy(q, j, what),
           UNCHANGED <<orderRows, gmo>>,
           j.op = "callback" => gmo[j.payment].paid,
           j.op = "store" /\ what.status = "COMPLETED" => MoneyIsThere
    PROVE  OrderInv'
<1>1. UNCHANGED <<order, cart, payment, gmo>>
  BY DEF orderRows
<1>2. MoneyStays /\ TablesOK' /\ PaidIsCollected' /\ CompletedIsCollected'
  BY <1>1 DEF OrderInv, MoneyStays, Collected, TablesOK, PaidIsCollected, CompletedIsCollected
<1>3. MoneyIsThere' = MoneyIsThere
  BY <1>1 DEF MoneyIsThere, Collected
<1>4. phase'[q] = "read" /\ job'[q] = j /\ seen'[q] = what
  BY DEF ReadBy, OrderInv, RequestsOK
<1>5. WorkAt(q)'
  BY <1>1, <1>3, <1>4 DEF WorkAt
<1>6. RequestsOK'
  BY <1>2, <1>5, RequestsStay
     DEF ReadBy, OrderInv, RequestsOK, MoneyStays, Collected, WorkAt, MoneyIsThere
<1> QED
  BY <1>2, <1>6 DEF OrderInv

\* What is to be shown of a step that ends a request.
LEMMA Ended ==
    ASSUME OrderInv, NEW q \in Requests, Finish(q), MoneyStays, TablesOK',
           \A p \in Payments : payment'[p].status = "COMPLETED" => Collected(p)',
           order'.status = "PAID" \/ (\E s \in Stores : cart'[s].status = "COMPLETED")
              => MoneyIsThere \/ MoneyIsThere'
    PROVE  OrderInv'
<1>1. RequestsOK' /\ (MoneyIsThere => MoneyIsThere')
  BY FinishKeeps DEF Finish, MoneyStays, Collected
<1>2. CompletedIsCollected'
  BY DEF CompletedIsCollected, Collected
<1>3. PaidIsCollected'
  BY <1>1 DEF PaidIsCollected, MoneyIsThere, Collected
<1> QED
  BY <1>1, <1>2, <1>3 DEF OrderInv

-----------------------------------------------------------------------------
(* The handlers.                                                           *)

LEMMA ReadsKeep ==
    ASSUME OrderInv, NEW q \in Requests,
           UpsertRead(q) \/ PayRead(q) \/ CallbackRead(q) \/ TimeoutRead(q) \/ StoreRead(q)
    PROVE  OrderInv'
<1>1. \A j : j \in Allowed[q] => j \in Jobs
  BY OrderAssumption
<1>2. CASE UpsertRead(q)
  <2>1. PICK quantities \in [Stores -> Quantities] :
            /\ ReadBy(q, [op |-> "upsert", quantities |-> quantities], Null)
            /\ UNCHANGED <<orderRows, gmo>>
    BY <1>2 DEF UpsertRead
  <2> DEFINE j == [op |-> "upsert", quantities |-> quantities]
  <2>2. j \in Jobs /\ j.op = "upsert"
    BY <1>1, <2>1 DEF ReadBy
  <2> HIDE DEF j
  <2> QED
    BY <2>1, <2>2, ReadKeeps DEF ReadBy, j
<1>3. CASE PayRead(q)
  <2>1. PICK method \in Methods :
            /\ ReadBy(q, [op |-> "pay", method |-> method],
                      [cart |-> cart, draft |-> draft, total_price |-> order.total_price])
            /\ UNCHANGED <<orderRows, gmo>>
    BY <1>3 DEF PayRead
  <2>2. [op |-> "pay", method |-> method] \in Jobs
    BY <1>1, <2>1 DEF ReadBy
  <2> QED
    BY <2>1, <2>2, ReadKeeps DEF ReadBy
<1>4. CASE CallbackRead(q)
  <2>1. PICK p \in Payments :
            /\ gmo[p].paid
            /\ ReadBy(q, [op |-> "callback", payment |-> p], {"payment", "order"})
            /\ UNCHANGED <<orderRows, gmo>>
    BY <1>4 DEF CallbackRead, Confirmable
  <2>2. [op |-> "callback", payment |-> p] \in Jobs
    BY <1>1, <2>1 DEF ReadBy
  <2> QED
    BY <2>1, <2>2, ReadKeeps DEF ReadBy
<1>5. CASE TimeoutRead(q)
  <2>1. PICK t \in timers :
            /\ ReadBy(q, [op |-> "timeout", payment |-> t], Null)
            /\ UNCHANGED <<orderRows, gmo>>
    BY <1>5 DEF TimeoutRead
  <2>2. [op |-> "timeout", payment |-> t] \in Jobs
    BY <1>1, <2>1 DEF ReadBy
  <2> QED
    BY <2>1, <2>2, ReadKeeps DEF ReadBy
<1>6. CASE StoreRead(q)
  <2>1. PICK s \in Stores : \E j \in Changes(s) :
            /\ StoreMay(j)
            /\ ReadBy(q, j, [status |-> StatusFor(j)])
            /\ UNCHANGED <<orderRows, gmo>>
    BY <1>6 DEF StoreRead
  <2>2. PICK j \in Changes(s) :
            /\ StoreMay(j)
            /\ ReadBy(q, j, [status |-> StatusFor(j)])
            /\ UNCHANGED <<orderRows, gmo>>
    BY <2>1
  <2>3. /\ j \in Jobs /\ j.op = "store"
        /\ j.change \in {"wait", "complete", "cancel", "shortage"}
    BY <1>1, <2>2, JobKinds DEF ReadBy, Changes
  <2>4. StatusFor(j) = "COMPLETED" => j.change = "complete"
    BY <2>3, OrderAssumption DEF StatusFor
  <2>5. j.change = "complete" => order.status = "PAID"
    BY <2>2, <2>3 DEF StoreMay
  <2>6. StatusFor(j) = "COMPLETED" => MoneyIsThere
    BY <2>4, <2>5 DEF OrderInv, PaidIsCollected, MoneyIsThere, Collected
  <2> DEFINE what == [status |-> StatusFor(j)]
  <2>7. (what.status = "COMPLETED" => MoneyIsThere) /\ ReadBy(q, j, what)
    BY <2>2, <2>6
  <2> HIDE DEF what
  <2> QED
    BY <2>2, <2>3, <2>7, ReadKeeps DEF ReadBy
<1> QED
  BY <1>2, <1>3, <1>4, <1>5, <1>6

LEMMA UpsertKeeps ==
    ASSUME OrderInv, NEW q \in Requests, UpsertCommit(q)
    PROVE  OrderInv'
<1>1. /\ Finish(q) /\ UNCHANGED <<payment, gmo>>
      /\ order'.status = order.status /\ "status" \in DOMAIN order'
      /\ cart' = [s \in Stores |-> NewCart(job[q].quantities[s])]
  BY DEF UpsertCommit, OrderInv, TablesOK
<1>2. MoneyStays
  BY <1>1 DEF MoneyStays, Collected
<1>3. \A s \in Stores : cart'[s].status = "DRAFT" /\ "status" \in DOMAIN cart'[s]
  BY <1>1 DEF NewCart
<1>4. TablesOK'
  BY <1>1, <1>3 DEF OrderInv, TablesOK
<1>5. /\ \A p \in Payments : payment'[p].status = "COMPLETED" => Collected(p)'
      /\ order'.status = "PAID" => MoneyIsThere
  BY <1>1 DEF OrderInv, CompletedIsCollected, PaidIsCollected, Collected, MoneyIsThere
<1> QED
  BY <1>1, <1>2, <1>3, <1>4, <1>5, Ended DEF Finish, MoneyStays, Collected, TablesOK, MoneyIsThere

LEMMA ChargeIs ==
    ASSUME NEW method, NEW amount, NEW paid \in BOOLEAN
    PROVE  /\ "paid" \in DOMAIN Charge(method, amount, paid)
           /\ method # "CASH_ON_DELIVERY" => Charge(method, amount, paid).paid = paid
BY DEF Charge, NoCharge

\* What is paid for at once was collected, or is on delivery.
LEMMA PayKeeps ==
    ASSUME OrderInv, NEW q \in Requests, PayCommit(q)
    PROVE  OrderInv'
<1>1. PICK p \in Payments, skips \in BOOLEAN :
          LET method == job[q].method
              amount == seen[q].total_price
              paid == PaidAtOnce(method, skips)
          IN
          /\ PayReaches(q, p)
          /\ payment' = [payment EXCEPT ![p] =
                  [status |-> IF paid THEN "COMPLETED" ELSE "PAYING",
                   method |-> method, amount |-> amount]]
          /\ order' = [order EXCEPT !.status = IF paid THEN "PAID" ELSE "UNPAID",
                                    !.method = method]
          /\ cart' = CartsAfterPay(method, paid)
          /\ gmo' = [gmo EXCEPT ![p] = Charge(method, amount, paid)]
          /\ Finish(q)
  BY DEF PayCommit
<1> DEFINE method == job[q].method
           amount == seen[q].total_price
           paid == PaidAtOnce(method, skips)
<1>2. ~gmo[p].paid /\ payment[p].method # "CASH_ON_DELIVERY"
  <2>1. payment[p] = NoPayment /\ gmo[p] = NoCharge
    BY <1>1 DEF PayReaches, Unused, OrderInv, TablesOK
  <2>2. Null # "CASH_ON_DELIVERY"
    BY OrderAssumption
  <2> QED
    BY <2>1, <2>2 DEF NoPayment, NoCharge
<1>3. /\ payment'[p].status = (IF paid THEN "COMPLETED" ELSE "PAYING")
      /\ payment'[p].method = method
      /\ {"status", "method"} \subseteq DOMAIN payment'[p]
      /\ DOMAIN payment' = Payments
      /\ \A u \in Payments \ {p} : payment'[u] = payment[u]
  BY <1>1 DEF OrderInv, TablesOK
<1>4. /\ DOMAIN gmo' = Payments /\ gmo'[p] = Charge(method, amount, paid)
      /\ \A u \in Payments \ {p} : gmo'[u] = gmo[u]
  BY <1>1 DEF OrderInv, TablesOK
<1>5. /\ "paid" \in DOMAIN gmo'[p]
      /\ method # "CASH_ON_DELIVERY" => gmo'[p].paid = paid
  <2>1. paid \in BOOLEAN
    BY DEF PaidAtOnce
  <2> HIDE DEF paid, method, amount
  <2> QED
    BY <1>4, <2>1, ChargeIs
<1>6. MoneyStays
  BY <1>2, <1>3, <1>4 DEF MoneyStays, Collected
<1>7. paid => Collected(p)'
  BY <1>3, <1>5 DEF Collected
<1>8. /\ order'.status = (IF paid THEN "PAID" ELSE "UNPAID") /\ "status" \in DOMAIN order'
  BY <1>1 DEF OrderInv, TablesOK
<1>9. /\ DOMAIN cart' = Stores
      /\ \A s \in Stores : /\ "status" \in DOMAIN cart'[s]
                           /\ cart'[s].status = "COMPLETED" => cart[s].status = "COMPLETED"
  BY <1>1 DEF CartsAfterPay, CartsSetTo, OrderInv, TablesOK
<1>10. TablesOK'
  BY <1>3, <1>4, <1>5, <1>8, <1>9 DEF OrderInv, TablesOK
<1>11. \A u \in Payments : payment'[u].status = "COMPLETED" => Collected(u)'
  BY <1>3, <1>4, <1>7 DEF OrderInv, CompletedIsCollected, Collected
<1>12. order'.status = "PAID" \/ (\E s \in Stores : cart'[s].status = "COMPLETED")
           => MoneyIsThere \/ MoneyIsThere'
  BY <1>7, <1>8, <1>9 DEF OrderInv, PaidIsCollected, MoneyIsThere, Collected
<1> HIDE DEF method, amount, paid
<1> QED
  BY <1>1, <1>6, <1>10, <1>11, <1>12, Ended DEF Finish, MoneyStays, Collected, TablesOK, MoneyIsThere

\* The rows are as they were; GMO may have been told of a payment that is not in them.
LEMMA PayFailsKeeps ==
    ASSUME OrderInv, NEW q \in Requests, PayFails(q)
    PROVE  OrderInv'
<1>1. PICK p \in Payments, skips \in BOOLEAN :
          /\ PayReaches(q, p)
          /\ job[q].method # "CASH_ON_DELIVERY"
          /\ gmo' = [gmo EXCEPT ![p] = Charge(job[q].method, seen[q].total_price,
                                              PaidAtOnce(job[q].method, skips))]
          /\ Finish(q)
          /\ UNCHANGED orderRows
  BY DEF PayFails
<1>2. UNCHANGED <<order, cart, payment>>
  BY <1>1 DEF orderRows
<1>3. ~gmo[p].paid
  BY <1>1 DEF PayReaches, Unused, NoCharge
<1>4. /\ DOMAIN gmo' = Payments /\ \A u \in Payments : "paid" \in DOMAIN gmo'[u]
      /\ \A u \in Payments \ {p} : gmo'[u] = gmo[u]
  BY <1>1 DEF Charge, OrderInv, TablesOK
<1>5. MoneyStays
  BY <1>2, <1>3, <1>4 DEF MoneyStays, Collected
<1>6. TablesOK'
  BY <1>2, <1>4 DEF OrderInv, TablesOK
<1>7. /\ \A u \in Payments : payment'[u].status = "COMPLETED" => Collected(u)'
      /\ order'.status = "PAID" \/ (\E s \in Stores : cart'[s].status = "COMPLETED")
            => MoneyIsThere
  BY <1>2, <1>5 DEF OrderInv, CompletedIsCollected, PaidIsCollected, Collected, MoneyIsThere, MoneyStays
<1> QED
  BY <1>1, <1>5, <1>6, <1>7, Ended DEF Finish, MoneyStays, Collected, TablesOK, MoneyIsThere

\* The callback has asked GMO: the payment that it completes, and the order that it sets
\* to PAID, were paid, however late it is.
LEMMA CallbackKeeps ==
    ASSUME OrderInv, NEW q \in Requests, CompletePayment(q) \/ PayOrder(q)
    PROVE  OrderInv'
<1>1. /\ phase[q] \in {"read", "confirming"} /\ job[q].op = "callback"
      /\ UNCHANGED gmo
      /\ Written(q, "payment") \/ Written(q, "order")
  BY DEF CompletePayment, PayOrder, Confirming
<1>2. WorkAt(q)
  BY <1>1 DEF OrderInv, RequestsOK
<1> DEFINE mine == job[q].payment
<1>3. mine \in Payments /\ gmo[mine].paid
  BY <1>1, <1>2, JobKinds DEF WorkAt
<1>4. MoneyIsThere
  BY <1>3 DEF MoneyIsThere, Collected
<1>5. /\ DOMAIN payment' = Payments
      /\ \A p \in Payments :
            /\ {"status", "method"} \subseteq DOMAIN payment'[p]
            /\ payment'[p].status = "none" => payment'[p] = NoPayment
            /\ payment'[p].method = payment[p].method
            /\ p # mine => payment'[p] = payment[p]
  BY <1>3 DEF CompletePayment, PayOrder, OrderInv, TablesOK
<1>6. /\ DOMAIN cart' = Stores /\ "status" \in DOMAIN order'
      /\ \A s \in Stores : "status" \in DOMAIN cart'[s]
  BY DEF CompletePayment, PayOrder, CartsSetTo, OrderInv, TablesOK
<1>7. MoneyStays /\ TablesOK'
  BY <1>1, <1>5, <1>6 DEF MoneyStays, Collected, OrderInv, TablesOK
<1>8. MoneyIsThere'
  BY <1>4, <1>7 DEF MoneyStays, MoneyIsThere
<1>9. PaidIsCollected' /\ CompletedIsCollected'
  <2>1. CompletedIsCollected'
    BY <1>1, <1>3, <1>5 DEF OrderInv, CompletedIsCollected
  <2>2. PaidIsCollected'
    BY <1>8 DEF MoneyIsThere, PaidIsCollected, Collected
  <2> QED
    BY <2>1, <2>2
<1>10. phase'[q] = "idle" \/ WorkAt(q)'
  <2>1. phase'[q] = "idle" \/ (phase'[q] = "confirming" /\ job' = job)
    BY <1>1 DEF Written, Finish, OrderInv, RequestsOK
  <2> QED
    BY <1>1, <1>2, <2>1 DEF WorkAt
<1>11. RequestsOK'
  <2>1. /\ DOMAIN phase' = Requests /\ DOMAIN job' = Requests /\ DOMAIN seen' = Requests
        /\ \A p \in Requests \ {q} : /\ phase'[p] = phase[p] /\ job'[p] = job[p]
                                     /\ seen'[p] = seen[p]
    BY <1>1 DEF Written, Finish, OrderInv, RequestsOK
  <2> QED
    BY <2>1, <1>7, <1>10, RequestsStay DEF MoneyStays, Collected, WorkAt, MoneyIsThere
<1> QED
  BY <1>7, <1>9, <1>11 DEF OrderInv

LEMMA TimeoutKeeps ==
    ASSUME OrderInv, NEW q \in Requests, TimeoutCommit(q)
    PROVE  OrderInv'
<1>1. /\ Finish(q) /\ UNCHANGED gmo
      /\ order' = [order EXCEPT !.status = "DRAFT"]
      /\ payment' = PaymentsCanceled /\ cart' = CartsSetTo("DRAFT")
  BY DEF TimeoutCommit
<1>2. /\ DOMAIN payment' = Payments
      /\ \A p \in Payments :
            /\ {"status", "method"} \subseteq DOMAIN payment'[p]
            /\ payment'[p].method = payment[p].method
            /\ payment'[p] = payment[p] \/ payment'[p].status = "CANCELED"
  BY <1>1 DEF PaymentsCanceled, OrderInv, TablesOK
<1>3. /\ DOMAIN cart' = Stores /\ "status" \in DOMAIN order' /\ order'.status = "DRAFT"
      /\ \A s \in Stores : "status" \in DOMAIN cart'[s] /\ cart'[s].status = "DRAFT"
  BY <1>1 DEF CartsSetTo, OrderInv, TablesOK
<1>4. MoneyStays /\ TablesOK'
  BY <1>1, <1>2, <1>3 DEF MoneyStays, Collected, OrderInv, TablesOK
<1>5. \A p \in Payments : payment'[p].status = "COMPLETED" => Collected(p)'
  BY <1>1, <1>2 DEF OrderInv, CompletedIsCollected, Collected
<1> QED
  BY <1>1, <1>3, <1>4, <1>5, Ended DEF Finish, MoneyStays, Collected, TablesOK, MoneyIsThere

\* A cart is shipped by a request that has read of a paid order.
LEMMA StoreKeeps ==
    ASSUME OrderInv, NEW q \in Requests, StoreUpdate(q) \/ StoreRefund(q) \/ RefundFails(q)
    PROVE  OrderInv'
<1>1. phase[q] # "idle" /\ job[q].op = "store" /\ Finish(q) /\ UNCHANGED payment
  BY DEF StoreUpdate, StoreRefund, RefundFails, RefundReaches, Committing, orderRows,
         OrderInv, RequestsOK, WorkAt
<1>2. WorkAt(q)
  BY <1>1 DEF OrderInv, RequestsOK
<1>3. /\ DOMAIN gmo' = Payments
      /\ \A p \in Payments : gmo'[p].paid = gmo[p].paid /\ "paid" \in DOMAIN gmo'[p]
  BY DEF StoreUpdate, StoreRefund, RefundFails, RefundReaches, GmoRefunds, OrderInv, TablesOK
<1>4. MoneyStays
  BY <1>1, <1>3 DEF MoneyStays, Collected
<1>5. "status" \in DOMAIN order' /\ order'.status = order.status
  BY DEF StoreUpdate, StoreRefund, RefundFails, orderRows, OrderInv, TablesOK
<1>6. /\ DOMAIN cart' = Stores
      /\ \A s \in Stores :
            /\ "status" \in DOMAIN cart'[s]
            /\ cart'[s].status \in {cart[s].status, seen[q].status}
  <2>1. CASE StoreUpdate(q)
    BY <2>1 DEF StoreUpdate, OrderInv, TablesOK
  <2>2. CASE StoreRefund(q)
    BY <2>2 DEF StoreRefund, CartAfter, OrderInv, TablesOK
  <2>3. CASE RefundFails(q)
    BY <2>3 DEF RefundFails, orderRows, OrderInv, TablesOK
  <2> QED
    BY <2>1, <2>2, <2>3
<1>7. TablesOK'
  BY <1>1, <1>3, <1>5, <1>6 DEF OrderInv, TablesOK
<1>8. \A p \in Payments : payment'[p].status = "COMPLETED" => Collected(p)'
  BY <1>1, <1>3 DEF OrderInv, CompletedIsCollected, Collected
<1>9. order'.status = "PAID" \/ (\E s \in Stores : cart'[s].status = "COMPLETED") => MoneyIsThere
  BY <1>1, <1>2, <1>5, <1>6 DEF OrderInv, PaidIsCollected, MoneyIsThere, Collected, WorkAt
<1> QED
  BY <1>1, <1>4, <1>7, <1>8, <1>9, Ended DEF Finish, MoneyStays, Collected, TablesOK, MoneyIsThere

LEMMA StoreOpenKeeps ==
    ASSUME OrderInv, NEW q \in Requests, StoreOpen(q)
    PROVE  OrderInv'
<1>1. /\ phase[q] = "read" /\ job[q].op = "store"
      /\ UNCHANGED <<order, cart, payment, gmo, job>>
  BY DEF StoreOpen, Committing, orderRows
<1>2. /\ DOMAIN phase' = Requests /\ DOMAIN job' = Requests /\ DOMAIN seen' = Requests
      /\ phase'[q] = "open" /\ seen'[q].status = seen[q].status
      /\ \A p \in Requests \ {q} : /\ phase'[p] = phase[p] /\ job'[p] = job[p]
                                   /\ seen'[p] = seen[p]
  BY <1>1 DEF StoreOpen, OrderInv, RequestsOK
<1>3. MoneyStays /\ TablesOK' /\ PaidIsCollected' /\ CompletedIsCollected'
  BY <1>1 DEF OrderInv, MoneyStays, Collected, TablesOK, PaidIsCollected, CompletedIsCollected
<1>4. WorkAt(q)'
  <2>1. WorkAt(q)
    BY <1>1 DEF OrderInv, RequestsOK
  <2> QED
    BY <1>1, <1>2, <2>1 DEF WorkAt, MoneyIsThere, Collected
<1>5. RequestsOK'
  BY <1>2, <1>3, <1>4, RequestsStay DEF MoneyStays, Collected, WorkAt, MoneyIsThere
<1> QED
  BY <1>3, <1>5 DEF OrderInv

LEMMA AbortKeeps ==
    ASSUME OrderInv, NEW q \in Requests, Abort(q)
    PROVE  OrderInv'
<1>1. Finish(q) /\ UNCHANGED <<order, cart, payment, gmo>>
  BY DEF Abort, orderRows
<1>2. MoneyStays /\ TablesOK'
  BY <1>1 DEF OrderInv, MoneyStays, Collected, TablesOK
<1>3. /\ \A p \in Payments : payment'[p].status = "COMPLETED" => Collected(p)'
      /\ order'.status = "PAID" \/ (\E s \in Stores : cart'[s].status = "COMPLETED")
            => MoneyIsThere
  BY <1>1 DEF OrderInv, CompletedIsCollected, PaidIsCollected, Collected, MoneyIsThere
<1> QED
  BY <1>1, <1>2, <1>3, Ended DEF Finish, MoneyStays, Collected, TablesOK, MoneyIsThere

\* Nobody's request: the customer at the bank, the message of a timer, and nothing at all.
LEMMA OutsideKeeps ==
    ASSUME OrderInv,
           TimeoutIgnored \/ (\E p \in Payments : CustomerPays(p)) \/ UNCHANGED vars
    PROVE  OrderInv'
<1>1. UNCHANGED <<order, cart, payment, phase, job, seen>>
  BY DEF TimeoutIgnored, CustomerPays, vars, orderRows, request
<1>2. /\ DOMAIN gmo' = Payments
      /\ \A u \in Payments : (gmo[u].paid => gmo'[u].paid) /\ "paid" \in DOMAIN gmo'[u]
  <2>1. ASSUME NEW p \in Payments, CustomerPays(p)
        PROVE  /\ DOMAIN gmo' = Payments
               /\ \A u \in Payments : (gmo[u].paid => gmo'[u].paid) /\ "paid" \in DOMAIN gmo'[u]
    BY <2>1 DEF CustomerPays, OrderInv, TablesOK
  <2>2. CASE TimeoutIgnored \/ UNCHANGED vars
    BY <2>2 DEF TimeoutIgnored, vars, OrderInv, TablesOK
  <2> QED
    BY <2>1, <2>2
<1>3. MoneyStays
  BY <1>1, <1>2 DEF MoneyStays, Collected
<1>4. MoneyIsThere => MoneyIsThere'
  BY <1>3 DEF MoneyStays, MoneyIsThere
<1>5. TablesOK'
  BY <1>1, <1>2 DEF OrderInv, TablesOK
<1>6. CompletedIsCollected'
  BY <1>1, <1>2 DEF OrderInv, CompletedIsCollected
<1>7. PaidIsCollected'
  BY <1>1, <1>4 DEF OrderInv, PaidIsCollected, MoneyIsThere, Collected
<1>8. RequestsOK'
  <2>1. ASSUME NEW q \in Requests, phase[q] # "idle" PROVE WorkAt(q)'
    <3>1. WorkAt(q)
      BY <2>1 DEF OrderInv, RequestsOK
    <3>2. job[q].op = "callback" => job[q].payment \in Payments
      BY <3>1, JobKinds DEF WorkAt
    <3> QED
      BY <1>1, <1>2, <1>4, <3>1, <3>2 DEF WorkAt
  <2> QED
    BY <1>1, <2>1 DEF OrderInv, RequestsOK
<1> QED
  BY <1>5, <1>6, <1>7, <1>8 DEF OrderInv

-----------------------------------------------------------------------------
(* The invariant, and what it is for.                                      *)

LEMMA InitHolds == Init => OrderInv
<1> SUFFICES ASSUME Init PROVE OrderInv
  OBVIOUS
<1>1. \A s \in Stores : cart[s].status = "DRAFT" /\ "status" \in DOMAIN cart[s]
  BY DEF Init, NewCart
<1>2. DOMAIN cart = Stores /\ order.status = "DRAFT" /\ "status" \in DOMAIN order
  BY DEF Init
<1>3. TablesOK
  BY <1>1, <1>2 DEF Init, TablesOK, NoPayment, NoCharge
<1>4. RequestsOK
  BY DEF Init, RequestsOK
<1>5. PaidIsCollected /\ CompletedIsCollected
  BY <1>1, <1>2 DEF Init, PaidIsCollected, CompletedIsCollected, NoPayment
<1> QED
  BY <1>3, <1>4, <1>5 DEF OrderInv

LEMMA NextKeeps == OrderInv /\ [Next]_vars => OrderInv'
<1> SUFFICES ASSUME OrderInv, [Next]_vars PROVE OrderInv'
  OBVIOUS
<1>1. ASSUME NEW q \in Requests,
             Customer(q) \/ Callback(q) \/ Timeout(q) \/ Store(q) \/ Abort(q)
      PROVE  OrderInv'
  BY <1>1, ReadsKeep, UpsertKeeps, PayKeeps, PayFailsKeeps, CallbackKeeps, TimeoutKeeps,
     StoreKeeps, StoreOpenKeeps, AbortKeeps DEF Customer, Callback, Timeout, Store
<1>2. CASE TimeoutIgnored \/ (\E p \in Payments : CustomerPays(p)) \/ UNCHANGED vars
  BY <1>2, OutsideKeeps
<1> QED
  BY <1>1, <1>2 DEF Next

LEMMA Invariant == Spec => []OrderInv
<1>1. Init => OrderInv
  BY InitHolds
<1>2. OrderInv /\ [Next]_vars => OrderInv'
  BY NextKeeps
<1> QED
  BY <1>1, <1>2, PTL DEF Spec

\* However late a callback or a store's update is, and whatever transactions are rolled back
\* after GMO was called, an order is PAID, a payment row is COMPLETED and a cart is shipped
\* only when money was collected or is to be collected on delivery: the callback asks GMO,
\* and what is paid at once was charged.
THEOREM GoodsArePaidFor == Spec => []MoneyIsCollected
<1>1. OrderInv => MoneyIsCollected
  BY DEF OrderInv, MoneyIsCollected
<1> QED
  BY <1>1, Invariant, PTL

-----------------------------------------------------------------------------
(* What the rows and the requests are, whoever is at work.                 *)

CartStatuses ==
    {"DRAFT", "UNPAID", "PREPARE_FOR_SHIPPING", "WAIT_FOR_SHIPPING", "COMPLETED", "CANCELED"}

CartRow ==
    [status : CartStatuses, original_item_count : Nat, item_count : Nat, total_price : Int]

RowsOK ==
    /\ order.status \in {"DRAFT", "UNPAID", "PAID"}
    /\ cart \in [Stores -> CartRow]
    /\ product \in [Stores -> [ec_stock_number : Int, deleted : BOOLEAN]]
    /\ refunds \in [Stores -> Int]

\* The status that a store's request writes, by what it asked for.
StatusWritten(change) ==
    CASE change = "wait" -> {"UNPAID", "WAIT_FOR_SHIPPING"}
      [] change = "complete" -> {"COMPLETED"}
      [] change = "cancel" -> {"CANCELED"}
      [] change = "shortage" -> {Null}

Does(q, op) == phase[q] # "idle" /\ job[q].op = op

JobOK(q) ==
    /\ phase[q] \in {"read", "open", "confirming"}
    /\ job[q] \in Allowed[q]
    /\ phase[q] = "open" => job[q].op = "store" /\ job[q].change \in {"cancel", "shortage"}
    /\ job[q].op = "pay" => seen[q].cart \in [Stores -> CartRow]
    /\ job[q].op = "store" => seen[q].status \in StatusWritten(job[q].change)

JobsOK == \A q \in Requests : phase[q] = "idle" \/ JobOK(q)

BaseInv == OrderInv /\ RowsOK /\ JobsOK

\* The step of the request q leaves the others where they are.
Others(q) ==
    \A r \in Requests \ {q} : phase'[r] = phase[r] /\ job'[r] = job[r] /\ seen'[r] = seen[r]

LEMMA JobsKept ==
    ASSUME JobsOK, NEW q \in Requests, Others(q), phase'[q] = "idle" \/ JobOK(q)'
    PROVE  JobsOK'
BY DEF JobsOK, JobOK, Others

LEMMA JobType ==
    ASSUME BaseInv, NEW q \in Requests, phase[q] # "idle"
    PROVE  /\ JobOK(q) /\ job[q] \in Jobs /\ job[q] \in Allowed[q]
           /\ job[q].op \in {"upsert", "pay", "callback", "timeout", "store"}
           /\ job[q].op = "store" => /\ job[q].store \in Stores
                                     /\ job[q].change \in {"wait", "complete", "cancel", "shortage"}
BY JobKinds, OrderAssumption DEF BaseInv, JobsOK, JobOK

LEMMA RowTypes ==
    ASSUME BaseInv, NEW s \in Stores
    PROVE  /\ cart[s] \in CartRow
           /\ cart[s].status \in CartStatuses
           /\ cart[s].original_item_count \in Nat
           /\ cart[s].item_count \in Nat
           /\ cart[s].total_price \in Int
           /\ product[s] \in [ec_stock_number : Int, deleted : BOOLEAN]
           /\ product[s].ec_stock_number \in Int
           /\ refunds[s] \in Int
BY DEF BaseInv, RowsOK, CartRow

LEMMA FinishIs ==
    ASSUME BaseInv, NEW q \in Requests, Finish(q)
    PROVE  Others(q) /\ phase'[q] = "idle"
BY DEF Finish, Others, BaseInv, OrderInv, RequestsOK

LEMMA ReadIs ==
    ASSUME BaseInv, NEW q \in Requests, NEW j, NEW what, ReadBy(q, j, what)
    PROVE  /\ Others(q) /\ phase'[q] = "read" /\ job'[q] = j /\ seen'[q] = what
           /\ phase[q] = "idle" /\ j \in Allowed[q] /\ j \in Jobs
BY OrderAssumption DEF ReadBy, Others, BaseInv, OrderInv, RequestsOK

\* What a request has found when it has read.
Found(q) ==
    \/ job'[q].op \in {"upsert", "pay"} /\ order.status = "DRAFT"
         /\ (job'[q].op = "pay" => seen'[q].cart = cart)
    \/ job'[q].op = "callback" /\ order.status = "UNPAID"
    \/ job'[q].op = "timeout"
    \/ /\ job'[q].op = "store" /\ job'[q].store \in Stores
       /\ order.status # "DRAFT"
       /\ cart[job'[q].store].status \notin {"DRAFT", "CANCELED", "COMPLETED"}
       /\ job'[q].change = "complete" => order.status = "PAID"
       /\ job'[q].change = "shortage" =>
             LET row == cart[job'[q].store] IN row.item_count = row.original_item_count

LEMMA ReadDoes ==
    ASSUME BaseInv, NEW q \in Requests,
           UpsertRead(q) \/ PayRead(q) \/ CallbackRead(q) \/ TimeoutRead(q) \/ StoreRead(q)
    PROVE  /\ UNCHANGED <<order, cart, payment, product, refunds>>
           /\ Others(q) /\ phase'[q] = "read" /\ JobOK(q)' /\ Found(q)
<1>1. UNCHANGED <<order, cart, payment, product, refunds>>
  BY DEF UpsertRead, PayRead, CallbackRead, TimeoutRead, StoreRead, orderRows
<1>2. CASE UpsertRead(q)
  <2>1. PICK quantities \in [Stores -> Quantities] :
            /\ ReadBy(q, [op |-> "upsert", quantities |-> quantities], Null)
            /\ order.status = "DRAFT"
    BY <1>2 DEF UpsertRead
  <2> DEFINE j == [op |-> "upsert", quantities |-> quantities]
  <2>2. j.op = "upsert" /\ ReadBy(q, j, Null)
    BY <2>1
  <2> HIDE DEF j
  <2>3. /\ Others(q) /\ phase'[q] = "read" /\ job'[q] = j /\ j \in Allowed[q]
    BY <2>2, ReadIs
  <2> QED
    BY <1>1, <2>1, <2>2, <2>3 DEF JobOK, Found
<1>3. CASE PayRead(q)
  <2>1. PICK method \in Methods :
            /\ ReadBy(q, [op |-> "pay", method |-> method],
                      [cart |-> cart, draft |-> draft, total_price |-> order.total_price])
            /\ order.status = "DRAFT"
    BY <1>3 DEF PayRead
  <2> DEFINE j == [op |-> "pay", method |-> method]
             what == [cart |-> cart, draft |-> draft, total_price |-> order.total_price]
  <2>2. j.op = "pay" /\ what.cart = cart /\ ReadBy(q, j, what)
    BY <2>1
  <2> HIDE DEF j, what
  <2>3. /\ Others(q) /\ phase'[q] = "read" /\ job'[q] = j /\ seen'[q] = what /\ j \in Allowed[q]
    BY <2>2, ReadIs
  <2> QED
    BY <1>1, <2>1, <2>2, <2>3 DEF JobOK, Found, BaseInv, RowsOK
<1>4. CASE CallbackRead(q)
  <2>1. PICK p \in Payments :
            /\ ReadBy(q, [op |-> "callback", payment |-> p], {"payment", "order"})
            /\ order.status = "UNPAID"
    BY <1>4 DEF CallbackRead, Confirmable
  <2> DEFINE j == [op |-> "callback", payment |-> p]
  <2>2. j.op = "callback" /\ ReadBy(q, j, {"payment", "order"})
    BY <2>1
  <2> HIDE DEF j
  <2>3. /\ Others(q) /\ phase'[q] = "read" /\ job'[q] = j /\ j \in Allowed[q]
    BY <2>2, ReadIs
  <2> QED
    BY <1>1, <2>1, <2>2, <2>3 DEF JobOK, Found
<1>5. CASE TimeoutRead(q)
  <2>1. PICK t \in timers : ReadBy(q, [op |-> "timeout", payment |-> t], Null)
    BY <1>5 DEF TimeoutRead
  <2> DEFINE j == [op |-> "timeout", payment |-> t]
  <2>2. j.op = "timeout" /\ ReadBy(q, j, Null)
    BY <2>1
  <2> HIDE DEF j
  <2>3. /\ Others(q) /\ phase'[q] = "read" /\ job'[q] = j /\ j \in Allowed[q]
    BY <2>2, ReadIs
  <2> QED
    BY <1>1, <2>1, <2>2, <2>3 DEF JobOK, Found
<1>6. CASE StoreRead(q)
  <2>1. PICK s \in Stores : \E j \in Changes(s) :
            /\ order.status # "DRAFT" /\ Handled(s) /\ StoreMay(j)
            /\ ReadBy(q, j, [status |-> StatusFor(j)])
    BY <1>6 DEF StoreRead
  <2>2. PICK j \in Changes(s) :
            /\ order.status # "DRAFT" /\ Handled(s) /\ StoreMay(j)
            /\ ReadBy(q, j, [status |-> StatusFor(j)])
    BY <2>1
  <2>3. j.op = "store" /\ j.store = s /\ j.change \in {"wait", "complete", "cancel", "shortage"}
    BY <2>2 DEF Changes
  <2> DEFINE what == [status |-> StatusFor(j)]
  <2>4. what.status = StatusFor(j) /\ ReadBy(q, j, what)
    BY <2>2
  <2>5. StatusFor(j) \in StatusWritten(j.change)
    BY <2>3 DEF StatusFor, StatusWritten
  <2> HIDE DEF what
  <2>6. /\ Others(q) /\ phase'[q] = "read" /\ job'[q] = j /\ seen'[q] = what /\ j \in Allowed[q]
    BY <2>4, ReadIs
  <2>7. JobOK(q)'
    BY <2>3, <2>4, <2>5, <2>6 DEF JobOK
  <2>8. Found(q)
    <3>1. j.change = "complete" => order.status = "PAID"
      BY <2>2, <2>3 DEF StoreMay
    <3>2. j.change = "shortage" => cart[s].item_count = cart[s].original_item_count
      BY <2>2, <2>3 DEF StoreMay
    <3> QED
      BY <2>2, <2>3, <2>6, <3>1, <3>2 DEF Found, Handled
  <2> QED
    BY <1>1, <2>6, <2>7, <2>8
<1> QED
  BY <1>2, <1>3, <1>4, <1>5, <1>6

\* Steps of a request that leave the rows of the order and the stock alone.
LEMMA QuietDoes ==
    ASSUME BaseInv, NEW q \in Requests,
           PayFails(q) \/ RefundFails(q) \/ Abort(q) \/ CompletePayment(q) \/ StoreOpen(q)
    PROVE  /\ UNCHANGED <<order, cart, product, refunds>>
           /\ Others(q) /\ phase[q] # "idle"
           /\ \/ phase'[q] = "idle"
              \/ /\ JobOK(q)' /\ job'[q] = job[q] /\ phase'[q] # "idle"
                 /\ job[q].op \in {"store", "callback"}
                 /\ job[q].op = "store" => seen'[q].status = seen[q].status
                 /\ job[q].op = "callback" => seen'[q] \subseteq seen[q]
<1>1. UNCHANGED <<order, cart, product, refunds>>
  BY DEF PayFails, RefundFails, Abort, CompletePayment, StoreOpen, orderRows
<1>2. phase[q] # "idle"
  BY DEF PayFails, PayReaches, RefundFails, RefundReaches, Abort, CompletePayment, Confirming,
         StoreOpen, Committing
<1>3. CASE PayFails(q) \/ RefundFails(q) \/ Abort(q)
  <2>1. Finish(q)
    BY <1>3 DEF PayFails, RefundFails, Abort
  <2> QED
    BY <1>1, <1>2, <2>1, FinishIs
<1>4. CASE CompletePayment(q)
  <2>1. Written(q, "payment") /\ job[q].op = "callback"
    BY <1>4 DEF CompletePayment, Confirming
  <2>2. CASE Finish(q)
    BY <1>1, <1>2, <2>2, FinishIs
  <2>3. CASE ~Finish(q)
    <3>1. /\ Others(q) /\ phase'[q] = "confirming" /\ job'[q] = job[q]
          /\ seen'[q] = seen[q] \ {"payment"}
      BY <2>1, <2>3 DEF Written, Others, BaseInv, OrderInv, RequestsOK
    <3> QED
      BY <1>1, <1>2, <2>1, <3>1, JobType DEF JobOK
  <2> QED
    BY <2>2, <2>3
<1>5. CASE StoreOpen(q)
  <2>1. /\ Others(q) /\ phase'[q] = "open" /\ job'[q] = job[q] /\ seen'[q].status = seen[q].status
        /\ job[q].op = "store" /\ job[q].change \in {"cancel", "shortage"}
    BY <1>5 DEF StoreOpen, Committing, Others, BaseInv, OrderInv, RequestsOK
  <2> QED
    BY <1>1, <1>2, <2>1, JobType DEF JobOK
<1> QED
  BY <1>3, <1>4, <1>5

LEMMA NewCartIs ==
    ASSUME NEW n \in Nat
    PROVE  /\ NewCart(n) \in CartRow
           /\ NewCart(n).status = "DRAFT"
           /\ NewCart(n).original_item_count = n /\ NewCart(n).item_count = n
           /\ NewCart(n).total_price = n + Fee
BY OrderAssumption DEF NewCart, CartRow, CartStatuses

LEMMA UpsertDoes ==
    ASSUME BaseInv, NEW q \in Requests, UpsertCommit(q)
    PROVE  /\ Does(q, "upsert") /\ Others(q) /\ phase'[q] = "idle"
           /\ UNCHANGED <<payment, product, refunds>>
           /\ order'.status = order.status
           /\ cart' \in [Stores -> CartRow]
           /\ \A s \in Stores : /\ cart'[s].status = "DRAFT"
                                /\ cart'[s].item_count = cart'[s].original_item_count
                                /\ cart'[s].total_price = cart'[s].original_item_count + Fee
<1>1. /\ Finish(q) /\ phase[q] = "read" /\ job[q].op = "upsert"
      /\ cart' = [s \in Stores |-> NewCart(job[q].quantities[s])]
      /\ UNCHANGED <<payment, product, refunds>>
      /\ order'.status = order.status
  BY DEF UpsertCommit, Committing, BaseInv, OrderInv, TablesOK
<1>2. job[q].quantities \in [Stores -> Nat]
  <2>1. job[q] \in Jobs /\ job[q].op = "upsert"
    BY <1>1, JobType
  <2>2. job[q] \in [op : {"upsert"}, quantities : [Stores -> Quantities]]
    BY <2>1 DEF Jobs, Changes
  <2> QED
    BY <2>2, OrderAssumption
<1>3. \A s \in Stores : cart'[s] = NewCart(job[q].quantities[s])
  BY <1>1
<1>4. \A s \in Stores :
         /\ cart'[s] \in CartRow /\ cart'[s].status = "DRAFT"
         /\ cart'[s].item_count = cart'[s].original_item_count
         /\ cart'[s].total_price = cart'[s].original_item_count + Fee
  <2> SUFFICES ASSUME NEW s \in Stores
               PROVE  /\ cart'[s] \in CartRow /\ cart'[s].status = "DRAFT"
                      /\ cart'[s].item_count = cart'[s].original_item_count
                      /\ cart'[s].total_price = cart'[s].original_item_count + Fee
    OBVIOUS
  <2>1. job[q].quantities[s] \in Nat
    BY <1>2
  <2> QED
    BY <1>3, <2>1, NewCartIs
<1>5. cart' \in [Stores -> CartRow]
  BY <1>1, <1>4
<1> QED
  BY <1>1, <1>4, <1>5, FinishIs DEF Does

LEMMA CartsSetIs ==
    ASSUME BaseInv, NEW status \in CartStatuses
    PROVE  /\ CartsSetTo(status) \in [Stores -> CartRow]
           /\ \A s \in Stores :
                 /\ CartsSetTo(status)[s].status = status
                 /\ CartsSetTo(status)[s].item_count = cart[s].item_count
                 /\ CartsSetTo(status)[s].original_item_count = cart[s].original_item_count
                 /\ CartsSetTo(status)[s].total_price = cart[s].total_price
BY RowTypes DEF CartsSetTo, CartRow

\* The rows that pay writes when its transaction commits.
PayWrites(q, method, paid) ==
    /\ order'.status = IF paid THEN "PAID" ELSE "UNPAID"
    /\ cart' = CartsAfterPay(method, paid)
    /\ \A s \in Stores :
          product'[s].ec_stock_number
             = product[s].ec_stock_number - seen[q].cart[s].original_item_count

LEMMA SoldIs ==
    ASSUME NEW s, NEW row \in [ec_stock_number : Int, deleted : BOOLEAN], NEW n \in Nat
    PROVE  /\ Sold(s, row, n) \in [ec_stock_number : Int, deleted : BOOLEAN]
           /\ Sold(s, row, n).ec_stock_number = row.ec_stock_number - n
<1> DEFINE last == (s \in SpecialPrice /\ row.ec_stock_number = n)
           d == [row EXCEPT !.ec_stock_number = @ - n]
<1>1. d \in [ec_stock_number : Int, deleted : BOOLEAN]
        /\ d.ec_stock_number = row.ec_stock_number - n
  OBVIOUS
<1>2. Sold(s, row, n) = [d EXCEPT !.deleted = last]
  BY DEF Sold
<1>3. last \in BOOLEAN
  OBVIOUS
<1> HIDE DEF d, last
<1> QED
  BY <1>1, <1>2, <1>3

LEMMA CartAfterIs ==
    ASSUME NEW row \in CartRow, NEW j, NEW status,
           j.change = "shortage" => j.left \in Nat,
           Amount(row, j) \in Int, status = Null \/ status \in CartStatuses
    PROVE  LET r == CartAfter(row, j, status) IN
           /\ r \in CartRow
           /\ r.status = IF status = Null THEN row.status ELSE status
           /\ r.original_item_count = row.original_item_count
           /\ r.item_count = IF j.change = "shortage" THEN j.left ELSE row.item_count
           /\ r.total_price = row.total_price - Amount(row, j)
<1> DEFINE amount == Amount(row, j)
           st == IF status = Null THEN row.status ELSE status
           n == IF j.change = "shortage" THEN j.left ELSE row.item_count
           d == [row EXCEPT !.status = st]
           e == [d EXCEPT !.item_count = n]
           r == [e EXCEPT !.total_price = row.total_price - amount]
<1>1. st \in CartStatuses /\ n \in Nat /\ amount \in Int /\ row.total_price \in Int
        /\ row.total_price - amount \in Int
  BY DEF CartRow
<1>2. CartAfter(row, j, status) = r
  BY DEF CartAfter
<1> HIDE DEF amount, st, n
<1>3. d \in CartRow /\ d.status = st /\ d.original_item_count = row.original_item_count
  BY <1>1 DEF CartRow
<1> HIDE DEF d
<1>4. e \in CartRow /\ e.status = st /\ e.original_item_count = row.original_item_count
        /\ e.item_count = n
  BY <1>1, <1>3 DEF CartRow
<1> HIDE DEF e
<1>5. r \in CartRow /\ r.status = st /\ r.original_item_count = row.original_item_count
        /\ r.item_count = n /\ r.total_price = row.total_price - amount
  BY <1>1, <1>4 DEF CartRow
<1> HIDE DEF r
<1> QED
  BY <1>2, <1>5 DEF amount, st, n

LEMMA PayDoes ==
    ASSUME BaseInv, NEW q \in Requests, PayCommit(q)
    PROVE  /\ Does(q, "pay") /\ Others(q) /\ phase'[q] = "idle"
           /\ RowsOK' /\ UNCHANGED refunds
           /\ \E method \in Methods, paid \in BOOLEAN : PayWrites(q, method, paid)
           /\ \E p \in Payments :
                 /\ payment[p].status = "none"
                 /\ payment' = [payment EXCEPT ![p] = payment'[p]]
                 /\ payment'[p].status = IF order'.status = "PAID" THEN "COMPLETED" ELSE "PAYING"
<1>1. PICK p \in Payments, skips \in BOOLEAN :
          LET method == job[q].method
              amount == seen[q].total_price
              paid == PaidAtOnce(method, skips)
          IN
          /\ PayReaches(q, p)
          /\ product' = Consumed(seen[q].cart)
          /\ payment' = [payment EXCEPT ![p] =
                  [status |-> IF paid THEN "COMPLETED" ELSE "PAYING",
                   method |-> method, amount |-> amount]]
          /\ order' = [order EXCEPT !.status = IF paid THEN "PAID" ELSE "UNPAID",
                                    !.method = method]
          /\ cart' = CartsAfterPay(method, paid)
          /\ Finish(q)
          /\ UNCHANGED refunds
  BY DEF PayCommit
<1> DEFINE paid == PaidAtOnce(job[q].method, skips)
<1>2. paid \in BOOLEAN /\ job[q].op = "pay" /\ phase[q] = "read"
  BY <1>1 DEF PaidAtOnce, PayReaches, Committing
<1>3. job[q].method \in Methods /\ seen[q].cart \in [Stores -> CartRow]
  <2>1. job[q] \in Jobs /\ JobOK(q)
    BY <1>2, JobType
  <2>2. job[q] \in [op : {"pay"}, method : Methods]
    BY <1>2, <2>1 DEF Jobs, Changes
  <2> QED
    BY <1>2, <2>1, <2>2 DEF JobOK
<1>4. order'.status = IF paid THEN "PAID" ELSE "UNPAID"
  BY <1>1 DEF BaseInv, OrderInv, TablesOK
<1>5. \A s \in Stores :
         /\ product'[s] \in [ec_stock_number : Int, deleted : BOOLEAN]
         /\ product'[s].ec_stock_number
               = product[s].ec_stock_number - seen[q].cart[s].original_item_count
  <2> SUFFICES ASSUME NEW s \in Stores
               PROVE  /\ product'[s] \in [ec_stock_number : Int, deleted : BOOLEAN]
                      /\ product'[s].ec_stock_number
                            = product[s].ec_stock_number - seen[q].cart[s].original_item_count
    OBVIOUS
  <2> DEFINE n == seen[q].cart[s].original_item_count
  <2>1. n \in Nat /\ product[s] \in [ec_stock_number : Int, deleted : BOOLEAN]
    BY <1>3, RowTypes DEF CartRow
  <2>2. product'[s] = Sold(s, product[s], n)
    BY <1>1 DEF Consumed
  <2> HIDE DEF n
  <2> QED
    BY <2>1, <2>2, SoldIs DEF n
<1>6. product' \in [Stores -> [ec_stock_number : Int, deleted : BOOLEAN]]
  BY <1>1, <1>5 DEF Consumed
<1>7. cart' \in [Stores -> CartRow]
  BY <1>1, CartsSetIs DEF CartsAfterPay, CartStatuses, BaseInv, RowsOK
<1>8. RowsOK'
  BY <1>1, <1>4, <1>6, <1>7 DEF BaseInv, RowsOK
<1>9. PayWrites(q, job[q].method, paid)
  BY <1>1, <1>4, <1>5 DEF PayWrites
<1>10. /\ payment[p].status = "none"
       /\ payment' = [payment EXCEPT ![p] = payment'[p]]
       /\ payment'[p].status = IF order'.status = "PAID" THEN "COMPLETED" ELSE "PAYING"
  <2>1. payment[p].status = "none"
    BY <1>1 DEF PayReaches, Unused
  <2> QED
    BY <1>1, <1>4, <2>1 DEF BaseInv, OrderInv, TablesOK
<1> HIDE DEF paid
<1> QED
  BY <1>1, <1>2, <1>3, <1>8, <1>9, <1>10, FinishIs DEF Does

LEMMA PayOrderDoes ==
    ASSUME BaseInv, NEW q \in Requests, PayOrder(q)
    PROVE  /\ Does(q, "callback") /\ "order" \in seen[q] /\ Others(q)
           /\ UNCHANGED <<payment, product, refunds>>
           /\ order'.status = "PAID" /\ cart' = CartsSetTo("PREPARE_FOR_SHIPPING")
           /\ RowsOK'
           /\ \/ phase'[q] = "idle"
              \/ /\ JobOK(q)' /\ job'[q] = job[q] /\ phase'[q] # "idle"
                 /\ seen'[q] = seen[q] \ {"order"}
<1>1. /\ phase[q] \in {"read", "confirming"} /\ job[q].op = "callback" /\ "order" \in seen[q]
      /\ UNCHANGED <<payment, product, refunds>>
      /\ order'.status = "PAID" /\ cart' = CartsSetTo("PREPARE_FOR_SHIPPING")
      /\ Written(q, "order")
  BY DEF PayOrder, Confirming, BaseInv, OrderInv, TablesOK
<1>2. RowsOK'
  BY <1>1, CartsSetIs DEF BaseInv, RowsOK, CartStatuses
<1>3. CASE Finish(q)
  BY <1>1, <1>2, <1>3, FinishIs DEF Does
<1>4. CASE ~Finish(q)
  <2>1. /\ Others(q) /\ phase'[q] = "confirming" /\ job'[q] = job[q]
        /\ seen'[q] = seen[q] \ {"order"}
    BY <1>1, <1>4 DEF Written, Others, BaseInv, OrderInv, RequestsOK
  <2> QED
    BY <1>1, <1>2, <2>1, JobType DEF JobOK, Does
<1> QED
  BY <1>3, <1>4

LEMMA TimeoutDoes ==
    ASSUME BaseInv, NEW q \in Requests, TimeoutCommit(q)
    PROVE  /\ Does(q, "timeout") /\ Others(q) /\ phase'[q] = "idle"
           /\ UNCHANGED refunds /\ payment' = PaymentsCanceled
           /\ order.status = "UNPAID" /\ order'.status = "DRAFT"
           /\ cart' = CartsSetTo("DRAFT")
           /\ RowsOK'
           /\ \A s \in Stores :
                 product'[s].ec_stock_number
                    = product[s].ec_stock_number + cart[s].original_item_count
<1>1. /\ phase[q] = "read" /\ job[q].op = "timeout" /\ Finish(q)
      /\ UNCHANGED refunds /\ payment' = PaymentsCanceled
      /\ order.status = "UNPAID" /\ order'.status = "DRAFT"
      /\ cart' = CartsSetTo("DRAFT")
      /\ product' = [s \in Stores |-> Restocked(product[s], cart[s].original_item_count)]
  BY DEF TimeoutCommit, StillUnpaid, Committing, BaseInv, OrderInv, TablesOK
<1>2. \A s \in Stores :
         /\ product'[s] \in [ec_stock_number : Int, deleted : BOOLEAN]
         /\ product'[s].ec_stock_number
               = product[s].ec_stock_number + cart[s].original_item_count
  BY <1>1, RowTypes DEF Restocked
<1>3. RowsOK'
  BY <1>1, <1>2, CartsSetIs DEF BaseInv, RowsOK, CartStatuses
<1> QED
  BY <1>1, <1>2, <1>3, FinishIs DEF Does

LEMMA StoreUpdateDoes ==
    ASSUME BaseInv, NEW q \in Requests, StoreUpdate(q)
    PROVE  LET s == job[q].store IN
           /\ Does(q, "store") /\ Others(q) /\ phase'[q] = "idle"
           /\ job[q].change \in {"wait", "complete"} /\ s \in Stores
           /\ UNCHANGED <<order, payment, product, refunds>>
           /\ cart' = [cart EXCEPT ![s].status = seen[q].status]
           /\ seen[q].status \in {"UNPAID", "WAIT_FOR_SHIPPING", "COMPLETED"}
           /\ RowsOK'
<1> DEFINE s == job[q].store
<1>1. /\ phase[q] = "read" /\ job[q].op = "store" /\ job[q].change \in {"wait", "complete"}
      /\ Finish(q) /\ UNCHANGED <<order, payment, product, refunds>>
      /\ cart' = [cart EXCEPT ![s].status = seen[q].status]
  BY DEF StoreUpdate, Committing
<1>2. s \in Stores /\ JobOK(q)
  BY <1>1, JobType
<1>3. seen[q].status \in {"UNPAID", "WAIT_FOR_SHIPPING", "COMPLETED"}
  BY <1>1, <1>2 DEF JobOK, StatusWritten
<1>4. cart' \in [Stores -> CartRow]
  BY <1>1, <1>2, <1>3 DEF BaseInv, RowsOK, CartRow, CartStatuses
<1> QED
  BY <1>1, <1>2, <1>3, <1>4, FinishIs DEF Does, BaseInv, RowsOK

\* What a refund makes of its cart, of the stock and of the refunds.
RefundWrites(q, s) ==
    LET row == cart[s]
        amount == Amount(row, job[q])
    IN
    /\ amount \in Int
    /\ \A t \in Stores \ {s} : /\ cart'[t] = cart[t] /\ product'[t] = product[t]
                               /\ refunds'[t] = refunds[t]
    /\ cart'[s].status = IF seen[q].status = Null THEN row.status ELSE seen[q].status
    /\ cart'[s].original_item_count = row.original_item_count
    /\ cart'[s].item_count = IF job[q].change = "shortage" THEN job[q].left ELSE row.item_count
    /\ cart'[s].total_price = row.total_price - amount
    /\ product'[s].ec_stock_number = product[s].ec_stock_number + Returned(row, job[q])
    /\ refunds'[s] = refunds[s] + amount

LEMMA RefundDoes ==
    ASSUME BaseInv, NEW q \in Requests, StoreRefund(q)
    PROVE  LET s == job[q].store IN
           /\ Does(q, "store") /\ Others(q) /\ phase'[q] = "idle"
           /\ job[q].change \in {"cancel", "shortage"} /\ s \in Stores
           /\ job[q].change = "shortage" => job[q].left \in Nat
           /\ order'.status = order.status /\ UNCHANGED payment
           /\ RefundWrites(q, s)
           /\ RowsOK'
<1> DEFINE s == job[q].store
           row == cart[s]
           amount == Amount(row, job[q])
<1>1. /\ phase[q] = "open" /\ Finish(q) /\ UNCHANGED payment
      /\ order'.status = order.status
      /\ product' = [product EXCEPT ![s] = Restocked(@, Returned(row, job[q]))]
      /\ cart' = [cart EXCEPT ![s] = CartAfter(@, job[q], seen[q].status)]
      /\ refunds' = [refunds EXCEPT ![s] = @ + amount]
  BY DEF StoreRefund, RefundReaches, BaseInv, OrderInv, TablesOK
<1>2. /\ JobOK(q) /\ job[q] \in Jobs /\ job[q].op = "store" /\ s \in Stores
      /\ job[q].change \in {"cancel", "shortage"}
  BY <1>1, JobType DEF JobOK
<1>3. job[q].change = "shortage" => job[q].left \in Nat
  <2> HAVE job[q].change = "shortage"
  <2>1. job[q] \in [op : {"store"}, store : {s}, change : {"shortage"}, left : Quantities]
    BY <1>2 DEF Jobs, Changes
  <2> QED
    BY <2>1, OrderAssumption
<1>4. seen[q].status \in {"CANCELED", Null}
  BY <1>2 DEF JobOK, StatusWritten
<1>5. /\ row \in CartRow /\ row.status \in CartStatuses /\ row.original_item_count \in Nat
      /\ row.item_count \in Nat /\ row.total_price \in Int
      /\ product[s] \in [ec_stock_number : Int, deleted : BOOLEAN] /\ refunds[s] \in Int
  BY <1>2, RowTypes
<1>6. amount \in Int /\ Returned(row, job[q]) \in Int
  BY <1>2, <1>3, <1>5 DEF Amount, Returned
<1>7. /\ cart'[s] = CartAfter(row, job[q], seen[q].status)
      /\ product'[s] = Restocked(product[s], Returned(row, job[q]))
      /\ refunds'[s] = refunds[s] + amount
      /\ \A t \in Stores \ {s} : /\ cart'[t] = cart[t] /\ product'[t] = product[t]
                                 /\ refunds'[t] = refunds[t]
  BY <1>1, <1>2 DEF BaseInv, RowsOK
<1> HIDE DEF amount, row, s
<1>8. LET r == CartAfter(row, job[q], seen[q].status) IN
         /\ r \in CartRow
         /\ r.status = IF seen[q].status = Null THEN row.status ELSE seen[q].status
         /\ r.original_item_count = row.original_item_count
         /\ r.item_count = IF job[q].change = "shortage" THEN job[q].left ELSE row.item_count
         /\ r.total_price = row.total_price - amount
  BY <1>3, <1>4, <1>5, <1>6, CartAfterIs DEF amount, CartStatuses
<1>9. Restocked(product[s], Returned(row, job[q]))
         = [ec_stock_number |-> product[s].ec_stock_number + Returned(row, job[q]),
            deleted |-> product[s].deleted]
  BY <1>5 DEF Restocked
<1>10. RefundWrites(q, s)
  BY <1>6, <1>7, <1>8, <1>9 DEF RefundWrites, amount, row
<1>11. cart'[s] \in CartRow /\ product'[s] \in [ec_stock_number : Int, deleted : BOOLEAN]
         /\ refunds'[s] \in Int
  BY <1>5, <1>6, <1>7, <1>8, <1>9
<1>12. RowsOK'
  BY <1>1, <1>2, <1>7, <1>11 DEF BaseInv, RowsOK
<1> QED
  BY <1>1, <1>2, <1>3, <1>10, <1>12, FinishIs DEF Does, s

LEMMA OutsideDoes ==
    ASSUME TimeoutIgnored \/ (\E p \in Payments : CustomerPays(p)) \/ UNCHANGED vars
    PROVE  UNCHANGED <<order, cart, payment, product, refunds, phase, job, seen>>
BY DEF TimeoutIgnored, CustomerPays, vars, orderRows, request

LEMMA InitBase == Init => BaseInv
<1> SUFFICES ASSUME Init PROVE BaseInv
  OBVIOUS
<1>1. PICK quantities \in [Stores -> {n \in Quantities : n <= Stock}] :
          cart = [s \in Stores |-> NewCart(quantities[s])]
  BY DEF Init
<1>2. cart \in [Stores -> CartRow]
  <2>1. \A s \in Stores : quantities[s] \in Nat
    BY OrderAssumption
  <2> QED
    BY <1>1, <2>1, NewCartIs
<1>3. /\ order.status = "DRAFT" /\ refunds = [s \in Stores |-> 0]
      /\ product = [s \in Stores |-> [ec_stock_number |-> Stock, deleted |-> FALSE]]
      /\ \A q \in Requests : phase[q] = "idle"
  BY DEF Init
<1>4. RowsOK
  BY <1>2, <1>3, OrderAssumption DEF RowsOK
<1> QED
  BY <1>3, <1>4, InitHolds DEF BaseInv, JobsOK

\* The steps of a request, by what they write.
LEMMA Steps ==
    ASSUME NEW q \in Requests,
           Customer(q) \/ Callback(q) \/ Timeout(q) \/ Store(q) \/ Abort(q)
    PROVE  \/ UpsertRead(q) \/ PayRead(q) \/ CallbackRead(q) \/ TimeoutRead(q) \/ StoreRead(q)
           \/ PayFails(q) \/ RefundFails(q) \/ Abort(q) \/ CompletePayment(q) \/ StoreOpen(q)
           \/ UpsertCommit(q) \/ PayCommit(q) \/ PayOrder(q) \/ TimeoutCommit(q)
           \/ StoreUpdate(q) \/ StoreRefund(q)
BY DEF Customer, Callback, Timeout, Store

LEMMA BaseInvariant == Spec => []BaseInv
<1>1. ASSUME BaseInv, [Next]_vars PROVE BaseInv'
  <2>1. OrderInv'
    BY <1>1, NextKeeps DEF BaseInv
  <2>2. ASSUME NEW q \in Requests,
               Customer(q) \/ Callback(q) \/ Timeout(q) \/ Store(q) \/ Abort(q)
        PROVE  RowsOK' /\ JobsOK'
    <3>1. CASE UpsertRead(q) \/ PayRead(q) \/ CallbackRead(q) \/ TimeoutRead(q) \/ StoreRead(q)
      BY <1>1, <3>1, ReadDoes, JobsKept DEF BaseInv, RowsOK
    <3>2. CASE PayFails(q) \/ RefundFails(q) \/ Abort(q) \/ CompletePayment(q) \/ StoreOpen(q)
      BY <1>1, <3>2, QuietDoes, JobsKept DEF BaseInv, RowsOK
    <3>3. CASE UpsertCommit(q)
      BY <1>1, <3>3, UpsertDoes, JobsKept DEF BaseInv, RowsOK
    <3>4. CASE PayCommit(q)
      BY <1>1, <3>4, PayDoes, JobsKept DEF BaseInv
    <3>5. CASE PayOrder(q)
      BY <1>1, <3>5, PayOrderDoes, JobsKept DEF BaseInv
    <3>6. CASE TimeoutCommit(q)
      BY <1>1, <3>6, TimeoutDoes, JobsKept DEF BaseInv
    <3>7. CASE StoreUpdate(q)
      BY <1>1, <3>7, StoreUpdateDoes, JobsKept DEF BaseInv
    <3>8. CASE StoreRefund(q)
      BY <1>1, <3>8, RefundDoes, JobsKept DEF BaseInv
    <3> QED
      BY <2>2, <3>1, <3>2, <3>3, <3>4, <3>5, <3>6, <3>7, <3>8, Steps
  <2>3. CASE TimeoutIgnored \/ (\E p \in Payments : CustomerPays(p)) \/ UNCHANGED vars
    <3>1. UNCHANGED <<order, cart, product, refunds, phase, job, seen>>
      BY <2>3, OutsideDoes
    <3>2. RowsOK'
      BY <1>1, <3>1 DEF BaseInv, RowsOK
    <3>3. JobsOK'
      BY <1>1, <3>1 DEF BaseInv, JobsOK, JobOK
    <3> QED
      BY <2>1, <3>2, <3>3 DEF BaseInv
  <2> QED
    BY <1>1, <2>1, <2>2, <2>3 DEF Next, BaseInv
<1> QED
  BY InitBase, <1>1, PTL DEF Spec

-----------------------------------------------------------------------------
(* Pages, callbacks and webhooks of the customer one at a time, and one    *)
(* employee for each store: what is paid stays paid, and what is shipped   *)
(* stays as it is.                                                         *)

CustomerOps == {"upsert", "pay", "callback"}

\* At most one request of the customer, or of GMO about the customer's payment, is at work.
\* In two tabs, one may rewrite or pay the cart that the other has just paid: the order is
\* found by its code, not by its status.  Of two callbacks (or a callback and a webhook) that
\* have both read an unpaid order, the second sets carts to PREPARE_FOR_SHIPPING that the
\* stores may have shipped after the first.
OneCustomerRequest ==
    \A q, r \in Requests : \A j \in Allowed[q], k \in Allowed[r] :
       j.op \in CustomerOps /\ k.op \in CustomerOps => q = r

\* At most one request is at work on a store's cart.  Two would each write what they found the
\* cart to allow before the other wrote: a cart could be canceled after it was shipped.
OneEmployee ==
    \A q, r \in Requests : \A j \in Allowed[q], k \in Allowed[r] :
       j.op = "store" /\ k.op = "store" /\ j.store = k.store => q = r

LEMMA OnlyCustomer ==
    ASSUME OneCustomerRequest, BaseInv, NEW q \in Requests, NEW r \in Requests \ {q},
           phase[q] # "idle", job[q].op \in CustomerOps,
           phase[r] # "idle"
    PROVE  job[r].op \notin CustomerOps
BY JobType DEF OneCustomerRequest

LEMMA OnlyEmployee ==
    ASSUME OneEmployee, BaseInv, NEW q \in Requests, NEW r \in Requests \ {q},
           Does(q, "store"), Does(r, "store")
    PROVE  job[r].store # job[q].store
BY JobType DEF OneEmployee, Does

SetsPaid(q) == Does(q, "callback") /\ "order" \in seen[q]

\* What the requests go by: the customer's pages are of a draft, its callback of an order
\* that is not paid, and a store ships what is paid.
PaidAt(q) ==
    /\ Does(q, "upsert") \/ Does(q, "pay") => order.status = "DRAFT"
    /\ SetsPaid(q) => order.status # "PAID"
    /\ Does(q, "store") /\ seen[q].status = "COMPLETED" => order.status = "PAID"

PaidIsLast ==
    /\ \A q \in Requests : PaidAt(q)
    /\ \A s \in Stores : cart[s].status = "COMPLETED" => order.status = "PAID"

PaidInv == BaseInv /\ PaidIsLast

\* Others see the same order as before.
LEMMA OthersPaid ==
    ASSUME PaidInv, NEW q \in Requests, Others(q), order'.status = order.status, PaidAt(q)'
    PROVE  \A r \in Requests : PaidAt(r)'
BY DEF PaidInv, PaidIsLast, PaidAt, SetsPaid, Does, Others

LEMMA PaidStep ==
    ASSUME OneCustomerRequest, PaidInv, [Next]_vars
    PROVE  PaidIsLast'
<1>1. BaseInv /\ PaidIsLast
  BY DEF PaidInv
<1>2. ASSUME NEW q \in Requests,
             Customer(q) \/ Callback(q) \/ Timeout(q) \/ Store(q) \/ Abort(q)
      PROVE  PaidIsLast'
  <2>0. ASSUME phase'[q] = "idle" PROVE PaidAt(q)'
    BY <2>0 DEF PaidAt, SetsPaid, Does
  <2>1. CASE UpsertRead(q) \/ PayRead(q) \/ CallbackRead(q) \/ TimeoutRead(q) \/ StoreRead(q)
    <3>1. UNCHANGED <<order, cart>> /\ Others(q) /\ phase'[q] = "read" /\ JobOK(q)' /\ Found(q)
      BY <1>1, <2>1, ReadDoes
    <3>2. PaidAt(q)'
      <4>1. job'[q].op = "store" /\ seen'[q].status = "COMPLETED" => job'[q].change = "complete"
        <5> HAVE job'[q].op = "store" /\ seen'[q].status = "COMPLETED"
        <5>1. seen'[q].status \in StatusWritten(job'[q].change)
          BY <3>1 DEF JobOK
        <5>2. job'[q].change \in {"wait", "complete", "cancel", "shortage"}
          <6>1. job'[q] \in Jobs
            BY <3>1, OrderAssumption DEF JobOK
          <6> QED
            BY <6>1, JobKinds
        <5> QED
          BY <5>1, <5>2, OrderAssumption DEF StatusWritten
      <4> QED
        BY <3>1, <4>1 DEF Found, PaidAt, SetsPaid, Does
    <3> QED
      BY <1>1, <3>1, <3>2, OthersPaid DEF PaidInv, PaidIsLast
  <2>2. CASE PayFails(q) \/ RefundFails(q) \/ Abort(q) \/ CompletePayment(q) \/ StoreOpen(q)
    <3>1. /\ UNCHANGED <<order, cart>> /\ Others(q)
          /\ \/ phase'[q] = "idle"
             \/ /\ job'[q] = job[q] /\ phase'[q] # "idle" /\ phase[q] # "idle"
                /\ job[q].op = "store" => seen'[q].status = seen[q].status
                /\ job[q].op = "callback" => seen'[q] \subseteq seen[q]
                /\ job[q].op \in {"store", "callback"}
      BY <1>1, <2>2, QuietDoes
    <3>2. PaidAt(q)'
      BY <1>1, <2>0, <3>1 DEF PaidIsLast, PaidAt, SetsPaid, Does
    <3> QED
      BY <1>1, <3>1, <3>2, OthersPaid DEF PaidInv, PaidIsLast
  <2>3. CASE UpsertCommit(q)
    <3>1. /\ Others(q) /\ phase'[q] = "idle" /\ order'.status = order.status
          /\ \A s \in Stores : cart'[s].status = "DRAFT"
      BY <1>1, <2>3, UpsertDoes
    <3> QED
      BY <1>1, <2>0, <3>1, OthersPaid DEF PaidInv, PaidIsLast
  <2>4. CASE PayCommit(q)
    <3>1. /\ Does(q, "pay") /\ Others(q) /\ phase'[q] = "idle"
      BY <1>1, <2>4, PayDoes
    <3>2. PICK method \in Methods, paid \in BOOLEAN : PayWrites(q, method, paid)
      BY <1>1, <2>4, PayDoes
    <3>3. order.status = "DRAFT"
      BY <1>1, <3>1 DEF PaidIsLast, PaidAt
    <3>4. \A s \in Stores : cart'[s].status # "COMPLETED"
      BY <1>1, <3>2, <3>3, CartsSetIs
         DEF PayWrites, CartsAfterPay, CartStatuses, PaidIsLast
    <3>5. ASSUME NEW r \in Requests \ {q} PROVE PaidAt(r)'
      <4>1. phase[r] # "idle" => job[r].op \notin CustomerOps
        BY <1>1, <3>1, OnlyCustomer DEF Does, CustomerOps
      <4> QED
        BY <1>1, <3>1, <3>3, <4>1 DEF PaidIsLast, PaidAt, SetsPaid, Does, Others, CustomerOps
    <3> QED
      BY <2>0, <3>1, <3>4, <3>5 DEF PaidIsLast
  <2>5. CASE PayOrder(q)
    <3>1. /\ Does(q, "callback") /\ Others(q)
          /\ order'.status = "PAID"
          /\ phase'[q] = "idle" \/ (job'[q] = job[q] /\ seen'[q] = seen[q] \ {"order"})
      BY <1>1, <2>5, PayOrderDoes
    <3>2. PaidAt(q)'
      BY <2>0, <3>1 DEF PaidAt, SetsPaid, Does
    <3>3. ASSUME NEW r \in Requests \ {q} PROVE PaidAt(r)'
      <4>1. phase[r] # "idle" => job[r].op \notin CustomerOps
        BY <1>1, <3>1, OnlyCustomer DEF Does, CustomerOps
      <4> QED
        BY <1>1, <3>1, <4>1 DEF PaidIsLast, PaidAt, SetsPaid, Does, Others, CustomerOps
    <3> QED
      BY <3>1, <3>2, <3>3 DEF PaidIsLast
  <2>6. CASE TimeoutCommit(q)
    <3>1. /\ Others(q) /\ phase'[q] = "idle"
          /\ order.status = "UNPAID" /\ order'.status = "DRAFT"
          /\ cart' = CartsSetTo("DRAFT")
      BY <1>1, <2>6, TimeoutDoes
    <3>2. \A s \in Stores : cart'[s].status = "DRAFT"
      BY <1>1, <3>1, CartsSetIs DEF CartStatuses
    <3>3. ASSUME NEW r \in Requests \ {q} PROVE PaidAt(r)'
      BY <1>1, <3>1 DEF PaidIsLast, PaidAt, SetsPaid, Does, Others
    <3> QED
      BY <2>0, <3>1, <3>2, <3>3 DEF PaidIsLast
  <2>7. CASE StoreUpdate(q)
    <3>1. /\ Does(q, "store") /\ Others(q) /\ phase'[q] = "idle" /\ job[q].store \in Stores
          /\ UNCHANGED order
          /\ cart' = [cart EXCEPT ![job[q].store].status = seen[q].status]
      BY <1>1, <2>7, StoreUpdateDoes
    <3>2. \A s \in Stores : cart'[s].status = "COMPLETED" => order'.status = "PAID"
      BY <1>1, <3>1, RowTypes DEF PaidIsLast, PaidAt, CartRow, BaseInv, RowsOK
    <3> QED
      BY <1>1, <2>0, <3>1, <3>2, OthersPaid DEF PaidInv, PaidIsLast
  <2>8. CASE StoreRefund(q)
    <3>1. /\ Does(q, "store") /\ Others(q) /\ phase'[q] = "idle" /\ job[q].store \in Stores
          /\ order'.status = order.status
          /\ RefundWrites(q, job[q].store)
      BY <1>1, <2>8, RefundDoes
    <3>2. \A s \in Stores : cart'[s].status = "COMPLETED" => order'.status = "PAID"
      BY <1>1, <3>1 DEF PaidIsLast, PaidAt, RefundWrites
    <3> QED
      BY <1>1, <2>0, <3>1, <3>2, OthersPaid DEF PaidInv, PaidIsLast
  <2> QED
    BY <1>2, <2>1, <2>2, <2>3, <2>4, <2>5, <2>6, <2>7, <2>8, Steps
<1>3. CASE TimeoutIgnored \/ (\E p \in Payments : CustomerPays(p)) \/ UNCHANGED vars
  BY <1>1, <1>3, OutsideDoes DEF PaidIsLast, PaidAt, SetsPaid, Does
<1> QED
  BY <1>2, <1>3 DEF Next

LEMMA PaidInvariant == ASSUME OneCustomerRequest PROVE Spec => []PaidInv
<1>1. Init => PaidIsLast
  <2> SUFFICES ASSUME Init PROVE PaidIsLast
    OBVIOUS
  <2>1. \A q \in Requests : phase[q] = "idle"
    BY DEF Init
  <2>2. \A s \in Stores : cart[s].status = "DRAFT"
    BY DEF Init, NewCart
  <2> QED
    BY <2>1, <2>2 DEF PaidIsLast, PaidAt, SetsPaid, Does
<1>2. PaidInv /\ BaseInv' /\ [Next]_vars => PaidInv'
  BY PaidStep DEF PaidInv
<1> QED
  BY InitBase, <1>1, <1>2, BaseInvariant, PTL DEF Spec, PaidInv

-----------------------------------------------------------------------------
\* While a store's only employee is at work on its cart, nobody ships it.
NotShipped == \A q \in Requests : Does(q, "store") => cart[job[q].store].status # "COMPLETED"

LEMMA NotShippedStep ==
    ASSUME OneCustomerRequest, OneEmployee, PaidInv, NotShipped, [Next]_vars
    PROVE  /\ NotShipped'
           /\ \A s \in Stores : cart[s].status = "COMPLETED"
                                   => cart'[s] = cart[s] /\ refunds'[s] = refunds[s]
<1> DEFINE Final == \A s \in Stores : cart[s].status = "COMPLETED"
                                   => cart'[s] = cart[s] /\ refunds'[s] = refunds[s]
<1>1. BaseInv /\ PaidIsLast
  BY DEF PaidInv
<1>2. \A q \in Requests : Does(q, "store") => job[q].store \in Stores
  BY <1>1, JobType DEF Does
<1>3. ASSUME NEW q \in Requests, Others(q),
             \A s \in Stores : cart'[s].status = "COMPLETED" =>
                \/ cart[s].status = "COMPLETED"
                \/ Does(q, "store") /\ job[q].store = s,
             \/ phase'[q] = "idle"
             \/ /\ job'[q] = job[q] /\ phase[q] # "idle"
                /\ Does(q, "store") => cart'[job[q].store].status # "COMPLETED"
             \/ job'[q].op = "store" =>
                   job'[q].store \in Stores /\ cart'[job'[q].store].status # "COMPLETED"
      PROVE  NotShipped'
  <2> SUFFICES ASSUME NEW r \in Requests, phase'[r] # "idle", job'[r].op = "store"
               PROVE  cart'[job'[r].store].status # "COMPLETED"
    BY DEF NotShipped, Does
  <2>1. CASE r = q
    BY <1>3, <2>1 DEF Does
  <2>2. CASE r # q
    <3>1. Does(r, "store") /\ job'[r] = job[r] /\ job[r].store \in Stores
      BY <1>2, <1>3, <2>2 DEF Others, Does
    <3>2. cart[job[r].store].status # "COMPLETED"
      BY <3>1 DEF NotShipped
    <3>3. Does(q, "store") => job[r].store # job[q].store
      BY <1>1, <2>2, <3>1, OnlyEmployee
    <3> QED
      BY <1>3, <3>1, <3>2, <3>3
  <2> QED
    BY <2>1, <2>2
<1>4. ASSUME NEW q \in Requests,
             Customer(q) \/ Callback(q) \/ Timeout(q) \/ Store(q) \/ Abort(q)
      PROVE  NotShipped' /\ Final
  <2>1. CASE UpsertRead(q) \/ PayRead(q) \/ CallbackRead(q) \/ TimeoutRead(q) \/ StoreRead(q)
    <3>1. UNCHANGED <<cart, refunds>> /\ Others(q) /\ Found(q)
      BY <1>1, <2>1, ReadDoes
    <3>2. job'[q].op = "store" =>
             job'[q].store \in Stores /\ cart'[job'[q].store].status # "COMPLETED"
      BY <3>1 DEF Found
    <3> QED
      BY <1>3, <3>1, <3>2
  <2>2. CASE PayFails(q) \/ RefundFails(q) \/ Abort(q) \/ CompletePayment(q) \/ StoreOpen(q)
    <3>1. /\ UNCHANGED <<cart, refunds>> /\ Others(q)
          /\ phase'[q] = "idle" \/ (job'[q] = job[q] /\ phase[q] # "idle")
      BY <1>1, <2>2, QuietDoes
    <3>2. Does(q, "store") => cart'[job[q].store].status # "COMPLETED"
      BY <3>1 DEF NotShipped
    <3> QED
      BY <1>3, <3>1, <3>2
  <2>3. CASE UpsertCommit(q)
    <3>1. /\ Does(q, "upsert") /\ Others(q) /\ phase'[q] = "idle"
          /\ \A s \in Stores : cart'[s].status = "DRAFT"
      BY <1>1, <2>3, UpsertDoes
    <3>2. \A s \in Stores : cart[s].status # "COMPLETED"
      BY <1>1, <3>1 DEF PaidIsLast, PaidAt
    <3> QED
      BY <1>3, <3>1, <3>2
  <2>4. CASE PayCommit(q)
    <3>1. /\ Does(q, "pay") /\ Others(q) /\ phase'[q] = "idle"
      BY <1>1, <2>4, PayDoes
    <3>2. PICK method \in Methods, paid \in BOOLEAN : PayWrites(q, method, paid)
      BY <1>1, <2>4, PayDoes
    <3>3. \A s \in Stores : cart[s].status # "COMPLETED"
      BY <1>1, <3>1 DEF PaidIsLast, PaidAt
    <3>4. \A s \in Stores : cart'[s].status # "COMPLETED"
      BY <1>1, <3>2, <3>3, CartsSetIs DEF PayWrites, CartsAfterPay, CartStatuses
    <3> QED
      BY <1>3, <3>1, <3>3, <3>4
  <2>5. CASE PayOrder(q)
    <3>1. /\ Does(q, "callback") /\ "order" \in seen[q] /\ Others(q)
          /\ phase'[q] = "idle" \/ (job'[q] = job[q] /\ phase[q] # "idle")
          /\ cart' = CartsSetTo("PREPARE_FOR_SHIPPING")
      BY <1>1, <2>5, PayOrderDoes DEF Does
    <3>2. \A s \in Stores : cart[s].status # "COMPLETED"
      BY <1>1, <3>1 DEF PaidIsLast, PaidAt, SetsPaid
    <3>3. \A s \in Stores : cart'[s].status # "COMPLETED"
      BY <1>1, <3>1, CartsSetIs DEF CartStatuses
    <3> QED
      BY <1>3, <3>1, <3>2, <3>3 DEF Does
  <2>6. CASE TimeoutCommit(q)
    <3>1. /\ Others(q) /\ phase'[q] = "idle"
          /\ order.status = "UNPAID" /\ cart' = CartsSetTo("DRAFT")
      BY <1>1, <2>6, TimeoutDoes
    <3>2. \A s \in Stores : cart[s].status # "COMPLETED"
      BY <1>1, <3>1 DEF PaidIsLast
    <3>3. \A s \in Stores : cart'[s].status # "COMPLETED"
      BY <1>1, <3>1, CartsSetIs DEF CartStatuses
    <3> QED
      BY <1>3, <3>1, <3>2, <3>3
  <2>7. CASE StoreUpdate(q)
    <3>1. /\ Does(q, "store") /\ Others(q) /\ phase'[q] = "idle" /\ job[q].store \in Stores
          /\ UNCHANGED refunds
          /\ cart' = [cart EXCEPT ![job[q].store].status = seen[q].status]
      BY <1>1, <2>7, StoreUpdateDoes
    <3>2. \A s \in Stores : s # job[q].store => cart'[s] = cart[s]
      BY <1>1, <3>1 DEF BaseInv, RowsOK
    <3>3. cart[job[q].store].status # "COMPLETED"
      BY <3>1 DEF NotShipped
    <3> QED
      BY <1>3, <3>1, <3>2, <3>3
  <2>8. CASE StoreRefund(q)
    <3>1. /\ Does(q, "store") /\ Others(q) /\ phase'[q] = "idle" /\ job[q].store \in Stores
          /\ RefundWrites(q, job[q].store)
      BY <1>1, <2>8, RefundDoes
    <3>2. \A s \in Stores : s # job[q].store => cart'[s] = cart[s] /\ refunds'[s] = refunds[s]
      BY <3>1 DEF RefundWrites
    <3>3. cart[job[q].store].status # "COMPLETED"
      BY <3>1 DEF NotShipped
    <3> QED
      BY <1>3, <3>1, <3>2, <3>3
  <2> QED
    BY <1>4, <2>1, <2>2, <2>3, <2>4, <2>5, <2>6, <2>7, <2>8, Steps
<1>5. CASE TimeoutIgnored \/ (\E p \in Payments : CustomerPays(p)) \/ UNCHANGED vars
  BY <1>5, OutsideDoes DEF NotShipped, Does
<1> QED
  BY <1>4, <1>5 DEF Next

\* While the pages, callbacks and webhooks of the customer come one at a time, and one employee
\* of each store is at work, however they are delayed and whatever timers and other stores do
\* meanwhile: what has been shipped is neither canceled, nor refunded, nor changed again (the
\* PUT of a store, pay, the callback).
THEOREM WhatIsShippedStays ==
    ASSUME OneCustomerRequest, OneEmployee
    PROVE  Spec => ShippedIsFinal
<1>1. Init => NotShipped
  BY DEF Init, NotShipped, Does
<1>2. PaidInv /\ NotShipped /\ [Next]_vars => NotShipped'
  BY NotShippedStep
<1>3. PaidInv /\ NotShipped /\ [Next]_vars
        => [\A s \in Stores : cart[s].status = "COMPLETED"
               => cart'[s] = cart[s] /\ refunds'[s] = refunds[s]]_vars
  BY NotShippedStep
<1> QED
  BY <1>1, <1>2, <1>3, PaidInvariant, PTL DEF Spec, ShippedIsFinal

-----------------------------------------------------------------------------
(* The payments, in an order whose customer's callbacks have not come yet. *)

NobodyDoes(op) == \A q \in Requests : \A j \in Allowed[q] : j.op # op

Paying(p) == payment[p].status = "PAYING"

OneOpen ==
    /\ order.status = "DRAFT" => \A p \in Payments : ~Paying(p)
    /\ order.status = "UNPAID" => \E p \in Payments : \A u \in Payments : Paying(u) <=> u = p

LEMMA OneOpenStep ==
    ASSUME OneCustomerRequest, NobodyDoes("callback"), PaidInv, OneOpen, [Next]_vars
    PROVE  OneOpen'
<1>1. BaseInv /\ PaidIsLast /\ DOMAIN payment = Payments
  BY DEF PaidInv, BaseInv, OrderInv, TablesOK
<1>2. CASE payment' = payment /\ order'.status = order.status
  BY <1>2 DEF OneOpen, Paying
<1>3. ASSUME NEW q \in Requests,
             Customer(q) \/ Callback(q) \/ Timeout(q) \/ Store(q) \/ Abort(q)
      PROVE  OneOpen'
  <2>1. CASE UpsertRead(q) \/ PayRead(q) \/ CallbackRead(q) \/ TimeoutRead(q) \/ StoreRead(q)
    BY <1>1, <1>2, <2>1, ReadDoes
  <2>2. CASE PayFails(q) \/ RefundFails(q) \/ Abort(q) \/ StoreOpen(q)
    BY <1>2, <2>2 DEF PayFails, RefundFails, Abort, StoreOpen, orderRows
  <2>3. CASE CompletePayment(q) \/ PayOrder(q)
    <3>1. phase[q] # "idle" /\ job[q].op = "callback"
      BY <2>3 DEF CompletePayment, PayOrder, Confirming
    <3> QED
      BY <1>1, <3>1, JobType DEF NobodyDoes
  <2>4. CASE UpsertCommit(q)
    BY <1>1, <1>2, <2>4, UpsertDoes
  <2>5. CASE PayCommit(q)
    <3>1. Does(q, "pay")
      BY <1>1, <2>5, PayDoes
    <3>2. order.status = "DRAFT"
      BY <1>1, <3>1 DEF PaidIsLast, PaidAt
    <3>3. PICK p \in Payments :
                 /\ payment' = [payment EXCEPT ![p] = payment'[p]]
                 /\ payment'[p].status = IF order'.status = "PAID" THEN "COMPLETED" ELSE "PAYING"
      BY <1>1, <2>5, PayDoes
    <3>4. order'.status \in {"PAID", "UNPAID"}
      BY <1>1, <2>5, PayDoes DEF PayWrites
    <3>5. \A u \in Payments \ {p} : payment'[u] = payment[u]
      BY <1>1, <3>3
    <3>6. \A u \in Payments \ {p} : ~(payment'[u].status = "PAYING")
      BY <3>2, <3>5 DEF OneOpen, Paying
    <3> QED
      BY <3>3, <3>4, <3>6 DEF OneOpen, Paying
  <2>6. CASE TimeoutCommit(q)
    <3>1. payment' = PaymentsCanceled /\ order'.status = "DRAFT"
      BY <1>1, <2>6, TimeoutDoes
    <3>2. \A u \in Payments : payment'[u].status # "PAYING"
      BY <1>1, <3>1 DEF PaymentsCanceled, BaseInv, OrderInv, TablesOK
    <3> QED
      BY <3>1, <3>2 DEF OneOpen, Paying
  <2>7. CASE StoreUpdate(q)
    BY <1>1, <1>2, <2>7, StoreUpdateDoes
  <2>8. CASE StoreRefund(q)
    BY <1>1, <1>2, <2>8, RefundDoes
  <2> QED
    BY <1>3, <2>1, <2>2, <2>3, <2>4, <2>5, <2>6, <2>7, <2>8, Steps
<1>4. CASE TimeoutIgnored \/ (\E p \in Payments : CustomerPays(p)) \/ UNCHANGED vars
  BY <1>2, <1>4, OutsideDoes
<1> QED
  BY <1>3, <1>4 DEF Next

\* With one request of the customer at a time, and however often and late the timers come: a draft has no
\* payment that a callback could complete, and an order that waits for money has one
\* (createPayment, paymentTimeout), until the first callback comes: it completes the payment
\* and pays the order in two statements, in either order.
THEOREM OnePaymentAtATime ==
    ASSUME OneCustomerRequest, NobodyDoes("callback")
    PROVE  Spec => []OnePaymentIsOpen
<1>1. Init => OneOpen
  BY DEF Init, OneOpen, Paying, NoPayment
<1>2. PaidInv /\ OneOpen /\ [Next]_vars => OneOpen'
  BY OneOpenStep
<1>3. OneOpen => OnePaymentIsOpen
  <2> SUFFICES ASSUME OneOpen PROVE OnePaymentIsOpen
    OBVIOUS
  <2> DEFINE open == {p \in Payments : payment[p].status = "PAYING"}
  <2>1. order.status = "DRAFT" => open = {}
    BY DEF OneOpen, Paying
  <2>2. order.status = "UNPAID" => Cardinality(open) = 1
    <3> HAVE order.status = "UNPAID"
    <3>1. PICK p \in Payments : open = {p}
      BY DEF OneOpen, Paying
    <3> QED
      BY <3>1, FS_Singleton
  <2> QED
    BY <2>1, <2>2 DEF OnePaymentIsOpen
<1> QED
  BY <1>1, <1>2, <1>3, PaidInvariant, PTL DEF Spec

-----------------------------------------------------------------------------
(* The units that the order holds, and the money that it gives back, in an *)
(* order paid by card or on delivery for which no timer comes, or in one   *)
(* that is still the customer's and the timers' alone.                     *)

\* A late callback or a timer sets all the carts to one status, those too that a store has
\* canceled meanwhile, which have given their units back.
ByCard == NobodyDoes("timeout") /\ Methods \cap Cash = {}
BeforeStores == NobodyDoes("callback") /\ NobodyDoes("store")

\* Nothing of the cart was canceled, reported missing or refunded.
Untouched(s) ==
    /\ cart[s].status # "CANCELED"
    /\ cart[s].item_count = cart[s].original_item_count
    /\ cart[s].total_price = cart[s].original_item_count + Fee
    /\ refunds[s] = 0
    /\ ByCard => cart[s].status = "DRAFT"

\* What the requests go by: pay takes the units of the carts as they are, a callback finds an
\* order that waits for money, and a store works on what is paid and not canceled.
GoodsAt(q) ==
    /\ Does(q, "pay") => seen[q].cart = cart
    /\ SetsPaid(q) => order.status = "UNPAID"
    /\ Does(q, "store") =>
          LET row == cart[job[q].store] IN
          /\ order.status = "PAID"
          /\ row.status \notin {"DRAFT", "CANCELED"}
          /\ job[q].change = "shortage" => row.item_count = row.original_item_count

GoodsOK ==
    /\ order.status # "PAID" => \A s \in Stores : Untouched(s)
    /\ \A q \in Requests : GoodsAt(q)

Goods == GoodsOK /\ StockFollowsOrder /\ RefundsAddUp

LEMMA GoodsOfReads ==
    ASSUME ByCard \/ BeforeStores, BaseInv, Goods, NEW q \in Requests,
           UpsertRead(q) \/ PayRead(q) \/ CallbackRead(q) \/ TimeoutRead(q) \/ StoreRead(q)
    PROVE  Goods'
<1>1. /\ UNCHANGED <<order, cart, product, refunds>>
      /\ Others(q) /\ phase'[q] = "read" /\ JobOK(q)' /\ Found(q)
  BY ReadDoes
<1>2. GoodsAt(q)'
  <2>1. job'[q].op = "store" => order.status = "PAID"
    <3> HAVE job'[q].op = "store"
    <3>1. ByCard
      BY <1>1 DEF BeforeStores, NobodyDoes, JobOK
    <3> QED
      BY <1>1, <3>1 DEF Found, Goods, GoodsOK, Untouched
  <2> QED
    BY <1>1, <2>1 DEF Found, GoodsAt, SetsPaid, Does
<1>3. ASSUME NEW r \in Requests \ {q} PROVE GoodsAt(r)'
  BY <1>1 DEF Goods, GoodsOK, GoodsAt, SetsPaid, Does, Others
<1>4. GoodsOK'
  BY <1>1, <1>2, <1>3 DEF Goods, GoodsOK, Untouched
<1> QED
  BY <1>1, <1>4 DEF Goods, StockFollowsOrder, Taken, Due, RefundsAddUp

LEMMA GoodsOfQuiet ==
    ASSUME BaseInv, Goods, NEW q \in Requests,
           PayFails(q) \/ RefundFails(q) \/ Abort(q) \/ CompletePayment(q) \/ StoreOpen(q)
    PROVE  Goods'
<1>1. /\ UNCHANGED <<order, cart, product, refunds>>
      /\ Others(q)
      /\ \/ phase'[q] = "idle"
         \/ /\ job'[q] = job[q] /\ phase'[q] # "idle" /\ phase[q] # "idle"
            /\ job[q].op \in {"store", "callback"}
            /\ job[q].op = "callback" => seen'[q] \subseteq seen[q]
  BY QuietDoes
<1>2. GoodsAt(q)'
  BY <1>1 DEF Goods, GoodsOK, GoodsAt, SetsPaid, Does
<1>3. ASSUME NEW r \in Requests \ {q} PROVE GoodsAt(r)'
  BY <1>1 DEF Goods, GoodsOK, GoodsAt, SetsPaid, Does, Others
<1>4. GoodsOK'
  BY <1>1, <1>2, <1>3 DEF Goods, GoodsOK, Untouched
<1> QED
  BY <1>1, <1>4 DEF Goods, StockFollowsOrder, Taken, Due, RefundsAddUp

LEMMA GoodsOfUpsert ==
    ASSUME OneCustomerRequest, PaidInv, Goods, NEW q \in Requests, UpsertCommit(q)
    PROVE  Goods'
<1>1. BaseInv /\ PaidIsLast
  BY DEF PaidInv
<1>2. /\ Does(q, "upsert") /\ Others(q) /\ phase'[q] = "idle"
      /\ UNCHANGED <<product, refunds>>
      /\ order'.status = order.status
      /\ \A s \in Stores : /\ cart'[s].status = "DRAFT"
                           /\ cart'[s].item_count = cart'[s].original_item_count
                           /\ cart'[s].total_price = cart'[s].original_item_count + Fee
  BY <1>1, UpsertDoes
<1>3. order.status = "DRAFT"
  BY <1>1, <1>2 DEF PaidIsLast, PaidAt
<1>4. ASSUME NEW r \in Requests \ {q} PROVE GoodsAt(r)'
  <2>1. phase[r] # "idle" => job[r].op \notin CustomerOps
    BY <1>1, <1>2, OnlyCustomer DEF Does, CustomerOps
  <2> QED
    BY <1>2, <1>3, <2>1 DEF Goods, GoodsOK, GoodsAt, SetsPaid, Does, Others, CustomerOps
<1>5. GoodsAt(q)'
  BY <1>2 DEF GoodsAt, SetsPaid, Does
<1>6. \A s \in Stores : Untouched(s)'
  BY <1>2, <1>3 DEF Goods, GoodsOK, Untouched
<1>7. StockFollowsOrder'
  BY <1>2, <1>3 DEF Goods, StockFollowsOrder, Taken, Due
<1> QED
  BY <1>2, <1>3, <1>4, <1>5, <1>6, <1>7 DEF Goods, GoodsOK, RefundsAddUp

LEMMA GoodsOfPay ==
    ASSUME OneCustomerRequest, PaidInv, Goods, NEW q \in Requests, PayCommit(q)
    PROVE  Goods'
<1>1. BaseInv /\ PaidIsLast
  BY DEF PaidInv
<1>2. Does(q, "pay") /\ Others(q) /\ phase'[q] = "idle" /\ UNCHANGED refunds
  BY <1>1, PayDoes
<1>3. PICK method \in Methods, paid \in BOOLEAN : PayWrites(q, method, paid)
  BY <1>1, PayDoes
<1>4. order.status = "DRAFT" /\ seen[q].cart = cart
  BY <1>1, <1>2 DEF PaidIsLast, PaidAt, Goods, GoodsOK, GoodsAt
<1>5. /\ order'.status \in {"UNPAID", "PAID"}
      /\ \A s \in Stores :
            /\ cart'[s].item_count = cart[s].item_count
            /\ cart'[s].original_item_count = cart[s].original_item_count
            /\ cart'[s].total_price = cart[s].total_price
            /\ cart'[s].status # "CANCELED"
            /\ ByCard /\ order'.status = "UNPAID" => cart'[s].status = "DRAFT"
  <2>1. CASE paid
    BY <1>1, <1>3, <2>1, CartsSetIs DEF PayWrites, CartsAfterPay, CartStatuses
  <2>2. CASE ~paid /\ method \in Cash
    BY <1>1, <1>3, <2>2, CartsSetIs DEF PayWrites, CartsAfterPay, CartStatuses, ByCard
  <2>3. CASE ~paid /\ method \notin Cash
    BY <1>3, <1>4, <2>3 DEF PayWrites, CartsAfterPay, Goods, GoodsOK, Untouched
  <2> QED
    BY <2>1, <2>2, <2>3
<1>6. \A s \in Stores : Taken(s)' = cart'[s].item_count
  <2> SUFFICES ASSUME NEW s \in Stores PROVE Taken(s)' = cart'[s].item_count
    OBVIOUS
  <2>1. Taken(s) = 0 /\ Untouched(s)
    BY <1>4 DEF Goods, GoodsOK, StockFollowsOrder, Due
  <2>2. product'[s].ec_stock_number = product[s].ec_stock_number - cart[s].item_count
    BY <1>3, <1>4, <2>1 DEF PayWrites, Untouched
  <2> QED
    BY <1>1, <1>5, <2>1, <2>2, RowTypes, OrderAssumption DEF Taken
<1>7. StockFollowsOrder'
  BY <1>5, <1>6 DEF StockFollowsOrder, Due
<1>8. \A s \in Stores : order'.status # "PAID" => Untouched(s)'
  BY <1>2, <1>4, <1>5 DEF Goods, GoodsOK, Untouched
<1>9. RefundsAddUp'
  <2> SUFFICES ASSUME NEW s \in Stores
               PROVE  /\ refunds'[s] + cart'[s].total_price = cart'[s].original_item_count + Fee
                      /\ cart'[s].total_price = cart'[s].item_count + Fee
    BY <1>5 DEF RefundsAddUp
  <2>1. Untouched(s)
    BY <1>4 DEF Goods, GoodsOK
  <2> QED
    BY <1>1, <1>2, <1>5, <2>1, RowTypes, OrderAssumption DEF Untouched
<1>10. ASSUME NEW r \in Requests \ {q} PROVE GoodsAt(r)'
  <2>1. phase[r] # "idle" => job[r].op \notin CustomerOps
    BY <1>1, <1>2, OnlyCustomer DEF Does, CustomerOps
  <2> QED
    BY <1>2, <1>4, <2>1 DEF Goods, GoodsOK, GoodsAt, SetsPaid, Does, Others, CustomerOps
<1>11. GoodsAt(q)'
  BY <1>2 DEF GoodsAt, SetsPaid, Does
<1> QED
  BY <1>7, <1>8, <1>9, <1>10, <1>11 DEF Goods, GoodsOK

LEMMA GoodsOfPayOrder ==
    ASSUME OneCustomerRequest, ByCard \/ BeforeStores, PaidInv, Goods,
           NEW q \in Requests, PayOrder(q)
    PROVE  Goods'
<1>1. BaseInv /\ PaidIsLast
  BY DEF PaidInv
<1>2. /\ Does(q, "callback") /\ "order" \in seen[q] /\ Others(q)
      /\ UNCHANGED <<product, refunds>>
      /\ order'.status = "PAID" /\ cart' = CartsSetTo("PREPARE_FOR_SHIPPING")
      /\ phase'[q] = "idle" \/ (job'[q] = job[q] /\ seen'[q] = seen[q] \ {"order"})
  BY <1>1, PayOrderDoes
<1>3. order.status = "UNPAID"
  BY <1>2 DEF Goods, GoodsOK, GoodsAt, SetsPaid
<1>4. \A s \in Stores : /\ cart'[s].status = "PREPARE_FOR_SHIPPING"
                        /\ cart'[s].item_count = cart[s].item_count
                        /\ cart'[s].original_item_count = cart[s].original_item_count
                        /\ cart'[s].total_price = cart[s].total_price
  BY <1>1, <1>2, CartsSetIs DEF CartStatuses
<1>5. \A s \in Stores : Untouched(s)
  BY <1>3 DEF Goods, GoodsOK
<1>6. StockFollowsOrder'
  BY <1>2, <1>3, <1>4, <1>5 DEF Goods, StockFollowsOrder, Taken, Due, Untouched
<1>7. RefundsAddUp'
  <2> SUFFICES ASSUME NEW s \in Stores
               PROVE  /\ refunds'[s] + cart'[s].total_price = cart'[s].original_item_count + Fee
                      /\ cart'[s].total_price = cart'[s].item_count + Fee
    BY <1>4 DEF RefundsAddUp
  <2> QED
    BY <1>1, <1>2, <1>4, <1>5, RowTypes, OrderAssumption DEF Untouched
<1>8. ASSUME NEW r \in Requests \ {q} PROVE GoodsAt(r)'
  <2>1. phase[r] # "idle" => job[r].op \notin CustomerOps
    BY <1>1, <1>2, OnlyCustomer DEF Does, CustomerOps
  <2> QED
    BY <1>2, <1>3, <2>1 DEF Goods, GoodsOK, GoodsAt, SetsPaid, Does, Others, CustomerOps
<1>9. GoodsAt(q)'
  BY <1>2 DEF GoodsAt, SetsPaid, Does
<1> QED
  BY <1>2, <1>6, <1>7, <1>8, <1>9 DEF Goods, GoodsOK

LEMMA GoodsOfTimeout ==
    ASSUME ByCard \/ BeforeStores, PaidInv, Goods, NEW q \in Requests, TimeoutCommit(q)
    PROVE  Goods'
<1>1. BaseInv /\ PaidIsLast
  BY DEF PaidInv
<1>2. /\ Does(q, "timeout") /\ Others(q) /\ phase'[q] = "idle"
      /\ UNCHANGED refunds
      /\ order.status = "UNPAID" /\ order'.status = "DRAFT"
      /\ cart' = CartsSetTo("DRAFT")
      /\ \A s \in Stores :
            product'[s].ec_stock_number = product[s].ec_stock_number + cart[s].original_item_count
  BY <1>1, TimeoutDoes
<1>3. \A s \in Stores : /\ cart'[s].status = "DRAFT"
                        /\ cart'[s].item_count = cart[s].item_count
                        /\ cart'[s].original_item_count = cart[s].original_item_count
                        /\ cart'[s].total_price = cart[s].total_price
  BY <1>1, <1>2, CartsSetIs DEF CartStatuses
<1>4. ~ByCard
  BY <1>1, <1>2, JobType DEF ByCard, NobodyDoes, Does
<1>5. \A s \in Stores : Untouched(s)
  BY <1>2 DEF Goods, GoodsOK
<1>6. \A s \in Stores : Untouched(s)'
  BY <1>2, <1>3, <1>5 DEF Untouched
<1>7. \A s \in Stores : Taken(s)' = 0
  <2> SUFFICES ASSUME NEW s \in Stores PROVE Taken(s)' = 0
    OBVIOUS
  <2>1. Taken(s) = cart[s].original_item_count
    BY <1>2, <1>5 DEF Goods, StockFollowsOrder, Due, Untouched
  <2> QED
    BY <1>1, <1>2, <2>1, RowTypes, OrderAssumption DEF Taken
<1>8. ASSUME NEW r \in Requests \ {q} PROVE GoodsAt(r)'
  <2>1. ~Does(r, "store") /\ ~Does(r, "pay")
    BY <1>1, <1>2 DEF Goods, GoodsOK, GoodsAt, PaidIsLast, PaidAt
  <2>2. ~Does(r, "callback")
    BY <1>1, <1>4, JobType DEF BeforeStores, NobodyDoes, Does
  <2> QED
    BY <1>2, <2>1, <2>2 DEF GoodsAt, SetsPaid, Does, Others
<1>9. GoodsAt(q)'
  BY <1>2 DEF GoodsAt, SetsPaid, Does
<1> QED
  BY <1>2, <1>6, <1>7, <1>8, <1>9
     DEF Goods, GoodsOK, StockFollowsOrder, Due, RefundsAddUp

\* A store works on its own cart: the other stores' requests see what they saw.
LEMMA StoreApart ==
    ASSUME OneEmployee, PaidInv, Goods, NEW q \in Requests, Does(q, "store"),
           Others(q), order'.status = order.status,
           \A s \in Stores \ {job[q].store} : cart'[s] = cart[s],
           phase'[q] = "idle"
    PROVE  GoodsOK'
<1>0. BaseInv /\ PaidIsLast /\ order.status = "PAID"
  BY DEF PaidInv, Goods, GoodsOK, GoodsAt
<1>1. ASSUME NEW r \in Requests \ {q} PROVE GoodsAt(r)'
  <2>1. Does(r, "store") => job[r].store \in Stores \ {job[q].store}
    BY <1>0, OnlyEmployee, JobType DEF Does
  <2>2. ~Does(r, "pay")
    BY <1>0 DEF PaidIsLast, PaidAt
  <2> QED
    BY <1>0, <2>1, <2>2 DEF Goods, GoodsOK, GoodsAt, SetsPaid, Does, Others
<1>2. GoodsAt(q)'
  BY DEF GoodsAt, SetsPaid, Does
<1> QED
  BY <1>0, <1>1, <1>2 DEF GoodsOK

LEMMA GoodsOfStoreUpdate ==
    ASSUME OneEmployee, PaidInv, Goods, NEW q \in Requests, StoreUpdate(q)
    PROVE  Goods'
<1>1. BaseInv
  BY DEF PaidInv
<1> DEFINE s == job[q].store
<1>2. /\ Does(q, "store") /\ Others(q) /\ phase'[q] = "idle" /\ s \in Stores
      /\ UNCHANGED <<order, product, refunds>>
      /\ cart' = [cart EXCEPT ![s].status = seen[q].status]
      /\ seen[q].status \in {"UNPAID", "WAIT_FOR_SHIPPING", "COMPLETED"}
  BY <1>1, StoreUpdateDoes
<1>3. order.status = "PAID" /\ cart[s].status # "CANCELED"
  BY <1>2 DEF Goods, GoodsOK, GoodsAt
<1>4. \A t \in Stores \ {s} : cart'[t] = cart[t]
  BY <1>1, <1>2 DEF BaseInv, RowsOK
<1>5. /\ cart'[s].status # "CANCELED"
      /\ cart'[s].item_count = cart[s].item_count
      /\ cart'[s].original_item_count = cart[s].original_item_count
      /\ cart'[s].total_price = cart[s].total_price
  <2>1. cart[s] \in CartRow /\ cart'[s] = [cart[s] EXCEPT !.status = seen[q].status]
    BY <1>1, <1>2, RowTypes DEF BaseInv, RowsOK
  <2> QED
    BY <1>2, <2>1 DEF CartRow
<1>6. GoodsOK'
  BY <1>2, <1>4, StoreApart
<1> HIDE DEF s
<1>7. StockFollowsOrder'
  BY <1>2, <1>3, <1>4, <1>5 DEF Goods, StockFollowsOrder, Taken, Due
<1>8. RefundsAddUp'
  BY <1>2, <1>3, <1>4, <1>5 DEF Goods, RefundsAddUp
<1> QED
  BY <1>6, <1>7, <1>8 DEF Goods

LEMMA GoodsOfStoreRefund ==
    ASSUME OneEmployee, PaidInv, Goods, NEW q \in Requests, StoreRefund(q)
    PROVE  Goods'
<1>1. BaseInv
  BY DEF PaidInv
<1>0. PICK s \in Stores : s = job[q].store
  BY <1>1, RefundDoes
<1> DEFINE amount == Amount(cart[s], job[q])
<1>2. /\ Does(q, "store") /\ Others(q) /\ phase'[q] = "idle" /\ s = job[q].store
      /\ job[q].change \in {"cancel", "shortage"}
      /\ job[q].change = "shortage" => job[q].left \in Nat
      /\ order'.status = order.status
      /\ RefundWrites(q, s)
  BY <1>0, <1>1, RefundDoes
<1>3. /\ order.status = "PAID" /\ cart[s].status # "CANCELED"
      /\ job[q].change = "shortage" => cart[s].item_count = cart[s].original_item_count
  BY <1>2 DEF Goods, GoodsOK, GoodsAt
<1>4. \A t \in Stores \ {s} :
         cart'[t] = cart[t] /\ product'[t] = product[t] /\ refunds'[t] = refunds[t]
  BY <1>2 DEF RefundWrites
<1>5. seen[q].status = IF job[q].change = "cancel" THEN "CANCELED" ELSE Null
  BY <1>1, <1>2, JobType DEF JobOK, StatusWritten, Does
<1>6. /\ cart'[s].status = IF job[q].change = "cancel" THEN "CANCELED" ELSE cart[s].status
      /\ cart'[s].original_item_count = cart[s].original_item_count
      /\ cart'[s].item_count = IF job[q].change = "shortage" THEN job[q].left
                               ELSE cart[s].item_count
      /\ cart'[s].total_price = cart[s].total_price - amount
      /\ product'[s].ec_stock_number
            = product[s].ec_stock_number + Returned(cart[s], job[q])
      /\ refunds'[s] = refunds[s] + amount
  BY <1>2, <1>5, OrderAssumption DEF RefundWrites
<1>7. /\ Taken(s) = cart[s].item_count
      /\ refunds[s] + cart[s].total_price = cart[s].original_item_count + Fee
      /\ cart[s].total_price = cart[s].item_count + Fee
  BY <1>2, <1>3 DEF Goods, StockFollowsOrder, Due, RefundsAddUp
<1>8. GoodsOK'
  BY <1>2, <1>4, StoreApart
<1>9. /\ cart[s].original_item_count \in Nat /\ cart[s].item_count \in Nat
      /\ cart[s].total_price \in Int /\ product[s].ec_stock_number \in Int
      /\ refunds[s] \in Int /\ Fee \in Nat /\ Stock \in Nat
  BY <1>1, <1>2, RowTypes, OrderAssumption
<1>10. /\ Taken(s)' = Due(s)'
       /\ refunds'[s] + cart'[s].total_price = cart'[s].original_item_count + Fee
       /\ cart'[s].total_price = IF cart'[s].status = "CANCELED"
                                 THEN 0 ELSE cart'[s].item_count + Fee
  <2>1. CASE job[q].change = "cancel"
    <3>1. Returned(cart[s], job[q]) = cart[s].item_count /\ amount = cart[s].total_price
      BY <2>1 DEF Returned, Amount
    <3> HIDE DEF amount
    <3>2. Stock - product'[s].ec_stock_number = 0
      BY <1>6, <1>7, <1>9, <3>1 DEF Taken
    <3> QED
      BY <1>2, <1>3, <1>6, <1>7, <1>9, <2>1, <3>1, <3>2 DEF Taken, Due
  <2>2. CASE job[q].change = "shortage"
    <3> DEFINE left == job[q].left
    <3>1. /\ Returned(cart[s], job[q]) = cart[s].original_item_count - left
          /\ amount = cart[s].original_item_count - left
          /\ left \in Nat /\ cart'[s].item_count = left
      BY <1>2, <1>6, <2>2 DEF Returned, Amount
    <3> HIDE DEF amount, left
    <3>2. Stock - product'[s].ec_stock_number = left
      BY <1>3, <1>6, <1>7, <1>9, <2>2, <3>1 DEF Taken
    <3>3. cart'[s].total_price = left + Fee
             /\ refunds'[s] + cart'[s].total_price = cart[s].original_item_count + Fee
      BY <1>3, <1>6, <1>7, <1>9, <2>2, <3>1
    <3> QED
      BY <1>2, <1>3, <1>6, <2>2, <3>1, <3>2, <3>3 DEF Taken, Due
  <2> QED
    BY <1>2, <2>1, <2>2
<1>11. StockFollowsOrder'
  BY <1>2, <1>4, <1>10 DEF Goods, StockFollowsOrder, Taken, Due
<1>12. RefundsAddUp'
  BY <1>2, <1>3, <1>4, <1>10 DEF Goods, RefundsAddUp
<1> QED
  BY <1>8, <1>11, <1>12 DEF Goods

LEMMA GoodsStep ==
    ASSUME OneCustomerRequest, OneEmployee, ByCard \/ BeforeStores, PaidInv, Goods, [Next]_vars
    PROVE  Goods'
<1>1. BaseInv
  BY DEF PaidInv
<1>2. ASSUME NEW q \in Requests,
             Customer(q) \/ Callback(q) \/ Timeout(q) \/ Store(q) \/ Abort(q)
      PROVE  Goods'
  BY <1>1, <1>2, Steps, GoodsOfReads, GoodsOfQuiet, GoodsOfUpsert, GoodsOfPay, GoodsOfPayOrder,
     GoodsOfTimeout, GoodsOfStoreUpdate, GoodsOfStoreRefund
<1>3. CASE TimeoutIgnored \/ (\E p \in Payments : CustomerPays(p)) \/ UNCHANGED vars
  <2>1. UNCHANGED <<order, cart, payment, product, refunds, phase, job, seen>>
    BY <1>3, OutsideDoes
  <2>2. GoodsOK'
    BY <2>1 DEF Goods, GoodsOK, GoodsAt, SetsPaid, Does, Untouched
  <2> QED
    BY <2>1, <2>2 DEF Goods, StockFollowsOrder, Taken, Due, RefundsAddUp
<1> QED
  BY <1>2, <1>3 DEF Next

LEMMA InitGoods == Init => Goods
<1> SUFFICES ASSUME Init PROVE Goods
  OBVIOUS
<1>1. PICK quantities \in [Stores -> {n \in Quantities : n <= Stock}] :
          cart = [s \in Stores |-> NewCart(quantities[s])]
  BY DEF Init
<1>2. \A s \in Stores : Untouched(s)
  <2> SUFFICES ASSUME NEW s \in Stores PROVE Untouched(s)
    OBVIOUS
  <2>1. cart[s] = NewCart(quantities[s]) /\ quantities[s] \in Nat /\ refunds[s] = 0
    BY <1>1, OrderAssumption DEF Init
  <2> QED
    BY <2>1, NewCartIs DEF Untouched
<1>3. /\ order.status = "DRAFT" /\ \A q \in Requests : phase[q] = "idle"
      /\ \A s \in Stores : Taken(s) = 0
  BY OrderAssumption DEF Init, Taken
<1> QED
  BY <1>2, <1>3 DEF Goods, GoodsOK, GoodsAt, SetsPaid, Does, StockFollowsOrder, Due, RefundsAddUp

LEMMA GoodsInvariant ==
    ASSUME OneCustomerRequest, OneEmployee, ByCard \/ BeforeStores
    PROVE  Spec => []Goods
<1>1. PaidInv /\ Goods /\ [Next]_vars => Goods'
  BY GoodsStep
<1> QED
  BY <1>1, InitGoods, PaidInvariant, PTL DEF Spec

\* With one request of the customer at a time and one employee for each store: whatever is
\* late or rolled back, and however customer, stores and timers cross, the order holds exactly the units of the carts that can be paid or are
\* paid and not canceled (consumeProducts, rollbackProducts, the PUT of a store), until the
\* first callback if timers come, and until the end of an order for which none does.
THEOREM UnitsFollowTheOrder ==
    ASSUME OneCustomerRequest, OneEmployee, ByCard \/ BeforeStores
    PROVE  Spec => []StockFollowsOrder
<1>1. Goods => StockFollowsOrder
  BY DEF Goods
<1> QED
  BY <1>1, GoodsInvariant, PTL

\* Under the same conditions, what a cart has refunded and what it still costs add up to what
\* was ordered, and a canceled cart is refunded in full (the PUT of a store,
\* refundPartialPayment).
THEOREM RefundsAddUpToTheOrder ==
    ASSUME OneCustomerRequest, OneEmployee, ByCard \/ BeforeStores
    PROVE  Spec => []RefundsAddUp
<1>1. Goods => RefundsAddUp
  BY DEF Goods
<1> QED
  BY <1>1, GoodsInvariant, PTL
=============================================================================
