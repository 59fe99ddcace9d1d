------------------------------ MODULE EcOrder -------------------------------
(***************************************************************************)
(* One order of the EC mall, from the cart to the shipping: the stock it   *)
(* takes, its payments at GMO, the timer that gives the stock back, and    *)
(* what each store does with its own part (cart) of the order.             *)
(*                                                                         *)
(* Every handler first reads the order outside of any transaction, makes   *)
(* its checks, and then writes: phase "read" lies between the two.  A      *)
(* transaction is one step, at its commit, unless what it reads or calls   *)
(* on the way matters: a store's refund locks its cart, reads the order's  *)
(* total, calls GMO and writes (phase "open"), and the payment callback    *)
(* makes two writes that are not in a transaction (phase "confirming").    *)
(*                                                                         *)
(* Each cart holds one product, whose unit costs 1.  The product's row is  *)
(* the one of module ProductStock, reduced to the units that EC may sell.  *)
(***************************************************************************)
EXTENDS Integers, FiniteSets, Functions

CONSTANTS
    Stores,         \* the stores of the order: each has a cart
    SpecialPrice,   \* stores whose product is a special price product
    Stock,          \* units of each store's product at first
    Quantities,     \* units a cart may ask for
    Fee,            \* the shipping fee of a cart
    Methods,        \* the payment methods offered
    Payments,       \* identifiers of payment rows: bounds the attempts to pay
    MaxDrafts,      \* bound: how often the carts are written
    MaxDeliveries,  \* deliveries of a message before the queue gives it up
    Requests,       \* the requests that may be in progress at one time
    Allowed,        \* what each of them may be for
    CommitsMayFail, \* whether a transaction may fail after its call of GMO
    Null

Cash == {"BANK", "CONVENIENCE_STORE"}

\* What a store may ask of its cart, and what a request may be for.
Changes(s) ==
    [op : {"store"}, store : {s}, change : {"wait", "complete", "cancel"}]
      \cup [op : {"store"}, store : {s}, change : {"shortage"}, left : Quantities]

Jobs ==
    [op : {"upsert"}, quantities : [Stores -> Quantities]]
      \cup [op : {"pay"}, method : Methods]
      \cup [op : {"callback", "timeout"}, payment : Payments]
      \cup UNION {Changes(s) : s \in Stores}

ASSUME OrderAssumption ==
    /\ SpecialPrice \subseteq Stores
    /\ IsFiniteSet(Stores)
    /\ Stock \in Nat
    /\ Quantities \subseteq Nat \ {0}
    /\ Fee \in Nat
    /\ Methods \subseteq Cash \cup {"CARD", "CASH_ON_DELIVERY"}
    /\ MaxDrafts \in Nat
    /\ MaxDeliveries \in Nat \ {0}
    /\ \A q \in Requests : Allowed[q] \subseteq Jobs
    /\ CommitsMayFail \in BOOLEAN
    /\ Null \notin {"COMPLETED", "CANCELED", "CASH_ON_DELIVERY"}

VARIABLES
    order,     \* Ec_Order
    cart,      \* Ec_Order_Cart_Store, with its Ec_Order_Cart_Store_Product
    draft,     \* the generation of the cart rows: upsert deletes and creates them
    payment,   \* Ec_Order_Payment of mode pay
    refunds,   \* per store: the sum of its Ec_Order_Payment of mode refund
    product,   \* the product of each store
    gmo,       \* at GMO: what a payment asked for, whether it was paid, what is kept
    timers,    \* paymentTimeout messages in the queue, by the payment they were sent for
    deliveries, \* how often each of them has been delivered to a worker that set about it
    phase, job, seen   \* of each request: how far it is, its input, what it has read

orderRows == <<order, cart, draft, payment>>
request == <<phase, job, seen>>
vars == <<orderRows, refunds, product, gmo, timers, deliveries, request>>

NoJob == [op |-> "none"]
NoPayment == [status |-> "none", method |-> Null, amount |-> 0]
NoCharge == [asked |-> 0, paid |-> FALSE, kept |-> 0]

NewCart(n) == [status |-> "DRAFT", original_item_count |-> n, item_count |-> n,
               total_price |-> n + Fee]

Init ==
    \E quantities \in [Stores -> {n \in Quantities : n <= Stock}] :
        /\ cart = [s \in Stores |-> NewCart(quantities[s])]
        /\ order = [status |-> "DRAFT", method |-> Null,
                    total_price |-> SumFunction([s \in Stores |-> cart[s].total_price])]
        /\ draft = 0
        /\ payment = [p \in Payments |-> NoPayment]
        /\ refunds = [s \in Stores |-> 0]
        /\ product = [s \in Stores |-> [ec_stock_number |-> Stock, deleted |-> FALSE]]
        /\ gmo = [p \in Payments |-> NoCharge]
        /\ timers = {}
        /\ deliveries = [p \in Payments |-> 0]
        /\ phase = [q \in Requests |-> "idle"]
        /\ job = [q \in Requests |-> NoJob]
        /\ seen = [q \in Requests |-> Null]

-----------------------------------------------------------------------------
(* The life of a request.                                                  *)

\* The request has made its checks on what it read.
ReadBy(q, j, what) ==
    /\ phase[q] = "idle"
    /\ j \in Allowed[q]
    /\ phase' = [phase EXCEPT ![q] = "read"]
    /\ job' = [job EXCEPT ![q] = j]
    /\ seen' = [seen EXCEPT ![q] = what]

Committing(q, op) == phase[q] = "read" /\ job[q].op = op

Finish(q) ==
    /\ phase' = [phase EXCEPT ![q] = "idle"]
    /\ job' = [job EXCEPT ![q] = NoJob]
    /\ seen' = [seen EXCEPT ![q] = Null]

\* The request throws, is a deadlock's victim or dies: its transaction is rolled back.
Abort(q) ==
    /\ phase[q] # "idle"
    /\ Finish(q)
    /\ UNCHANGED <<orderRows, refunds, product, gmo, timers, deliveries>>

\* No transaction in progress has locked the cart of one of these stores.
Unlocked(stores) ==
    \A q \in Requests : phase[q] = "open" => job[q].store \notin stores

\* increaseEcStock of a return: a product that is deleted is not found.
CanRestock(stores) == \A s \in stores : ~product[s].deleted

Restocked(row, n) == [row EXCEPT !.ec_stock_number = @ + n]

\* decreaseEcStock of a sale: a special price product is deleted with its last unit.
Sold(s, row, n) ==
    [row EXCEPT !.ec_stock_number = @ - n,
                !.deleted = (s \in SpecialPrice /\ row.ec_stock_number = n)]

\* All the carts get a status (updateMany with an empty condition).
CartsSetTo(status) == [s \in Stores |-> [cart[s] EXCEPT !.status = status]]

-----------------------------------------------------------------------------
(* POST /ec/order: the customer writes the cart.                           *)

UpsertRead(q) ==
    \E quantities \in [Stores -> Quantities] :
        /\ order.status = "DRAFT"
        /\ \A s \in Stores : /\ ~product[s].deleted
                             /\ quantities[s] <= product[s].ec_stock_number
        /\ ReadBy(q, [op |-> "upsert", quantities |-> quantities], Null)
        /\ UNCHANGED <<orderRows, refunds, product, gmo, timers, deliveries>>

\* The order is found by its code only: its status is not asked for again.
UpsertCommit(q) ==
    /\ Committing(q, "upsert")
    /\ Unlocked(Stores)
    /\ draft < MaxDrafts
    /\ draft' = draft + 1
    /\ cart' = [s \in Stores |-> NewCart(job[q].quantities[s])]
    /\ order' = [order EXCEPT !.total_price =
                    SumFunction([s \in Stores |-> cart'[s].total_price])]
    /\ Finish(q)
    /\ UNCHANGED <<payment, refunds, product, gmo, timers, deliveries>>

-----------------------------------------------------------------------------
(* POST /ec/order/:id/pay: consumeProducts, then createPayment.            *)

PayRead(q) ==
    \E method \in Methods :
        /\ order.status = "DRAFT"
        /\ ReadBy(q, [op |-> "pay", method |-> method],
                  [cart |-> cart, draft |-> draft, total_price |-> order.total_price])
        /\ UNCHANGED <<orderRows, refunds, product, gmo, timers, deliveries>>

\* Cash on delivery is taken as paid, and so is a card that needs no 3-D Secure.
PaidAtOnce(method, skips3DSecure) ==
    method = "CASH_ON_DELIVERY" \/ (method = "CARD" /\ skips3DSecure)

Charge(method, amount, paidAtOnce) ==
    IF method = "CASH_ON_DELIVERY"
    THEN NoCharge
    ELSE [asked |-> amount, paid |-> paidAtOnce, kept |-> IF paidAtOnce THEN amount ELSE 0]

\* Mutant: no timer is set.
NoTimer(p, paidAtOnce) == {}

\* A payment that is still to be made is given a time limit.
TimerFor(p, paidAtOnce) == IF paidAtOnce THEN {} ELSE {p}

\* consumeProducts: the stock is taken whether the payment is made or still to come.
Consumed(rows) == [s \in Stores |-> Sold(s, product[s], rows[s].original_item_count)]

\* The status of a card's carts stays DRAFT while 3-D Secure is under way.
CartsAfterPay(method, paidAtOnce) ==
    IF paidAtOnce THEN CartsSetTo("PREPARE_FOR_SHIPPING")
    ELSE IF method \in Cash THEN CartsSetTo("UNPAID")
    ELSE cart

\* decreaseEcStock: the EC stock must not come out negative.
InStock(rows) ==
    \A s \in Stores : /\ ~product[s].deleted
                      /\ product[s].ec_stock_number >= rows[s].original_item_count

Unused(p) == payment[p].status = "none" /\ gmo[p] = NoCharge /\ p \notin timers

PayReaches(q, p) ==
    /\ Committing(q, "pay")
    /\ Unused(p)
    /\ seen[q].draft = draft   \* the product rows of the cart are updated by their id
    /\ InStock(seen[q].cart)

PayCommit(q) ==
    \E p \in Payments, skips3DSecure \in BOOLEAN :
        LET method == job[q].method
            amount == seen[q].total_price
            paidAtOnce == PaidAtOnce(method, skips3DSecure)
        IN
        /\ PayReaches(q, p)
        /\ Unlocked(Stores)
        /\ product' = Consumed(seen[q].cart)
        /\ payment' = [payment EXCEPT ![p] =
                [status |-> IF paidAtOnce THEN "COMPLETED" ELSE "PAYING",
                 method |-> method, amount |-> amount]]
        /\ order' = [order EXCEPT !.status = IF paidAtOnce THEN "PAID" ELSE "UNPAID",
                                  !.method = method]
        /\ cart' = CartsAfterPay(method, paidAtOnce)
        /\ gmo' = [gmo EXCEPT ![p] = Charge(method, amount, paidAtOnce)]
        /\ timers' = timers \cup TimerFor(p, paidAtOnce)
        /\ Finish(q)
        /\ UNCHANGED <<draft, refunds, deliveries>>

\* GMO was called and the timer was sent, and then the transaction was rolled back.
PayFails(q) ==
    \E p \in Payments, skips3DSecure \in BOOLEAN :
        LET paidAtOnce == PaidAtOnce(job[q].method, skips3DSecure) IN
        /\ CommitsMayFail
        /\ PayReaches(q, p)
        /\ job[q].method # "CASH_ON_DELIVERY"
        /\ gmo' = [gmo EXCEPT ![p] = Charge(job[q].method, seen[q].total_price, paidAtOnce)]
        /\ timers' = timers \cup TimerFor(p, paidAtOnce)
        /\ Finish(q)
        /\ UNCHANGED <<orderRows, refunds, product, deliveries>>

\* The customer passes 3-D Secure, or pays at the bank or the shop, early or late.
CustomerPays(p) ==
    /\ gmo[p].asked > 0 /\ ~gmo[p].paid
    /\ gmo' = [gmo EXCEPT ![p].paid = TRUE, ![p].kept = gmo[p].asked]
    /\ UNCHANGED <<orderRows, refunds, product, timers, deliveries, request>>

-----------------------------------------------------------------------------
(* GET /ec/order/:id/pay/callback and POST /gmo/webhook: GMO says that the  *)
(* payment was made; the request finds the payment by its source_id and     *)
(* asks GMO about it.                                                       *)

\* Mutant: GMO is taken at its word.
ConfirmableUnasked(p) == payment[p].status = "PAYING" /\ order.status = "UNPAID"

Confirmable(p) ==
    /\ payment[p].status = "PAYING"
    /\ order.status = "UNPAID"
    /\ gmo[p].paid

CallbackRead(q) ==
    \E p \in Payments :
        /\ Confirmable(p)
        /\ ReadBy(q, [op |-> "callback", payment |-> p], {"payment", "order"})
        /\ UNCHANGED <<orderRows, refunds, product, gmo, timers, deliveries>>

\* Promise.all: the two updates are made in either order, each by itself.
Written(q, what) ==
    IF seen[q] = {what}
    THEN Finish(q)
    ELSE /\ seen' = [seen EXCEPT ![q] = @ \ {what}]
         /\ phase' = [phase EXCEPT ![q] = "confirming"]
         /\ UNCHANGED job

Confirming(q, what) ==
    phase[q] \in {"read", "confirming"} /\ job[q].op = "callback" /\ what \in seen[q]

CompletePayment(q) ==
    /\ Confirming(q, "payment")
    /\ payment' = [payment EXCEPT ![job[q].payment].status = "COMPLETED"]
    /\ Written(q, "payment")
    /\ UNCHANGED <<order, cart, draft, refunds, product, gmo, timers, deliveries>>

PayOrder(q) ==
    /\ Confirming(q, "order")
    /\ Unlocked(Stores)
    /\ order' = [order EXCEPT !.status = "PAID"]
    /\ cart' = CartsSetTo("PREPARE_FOR_SHIPPING")
    /\ Written(q, "order")
    /\ UNCHANGED <<draft, payment, refunds, product, gmo, timers, deliveries>>

-----------------------------------------------------------------------------
(* The worker of paymentTimeout: rollbackProducts, and back to a draft.    *)

\* Whichever payment a message was sent for, only the status of the order is asked for.
TimeoutRead(q) ==
    \E t \in timers :
        /\ deliveries[t] < MaxDeliveries
        /\ order.status = "UNPAID"
        /\ ReadBy(q, [op |-> "timeout", payment |-> t], Null)
        /\ deliveries' = [deliveries EXCEPT ![t] = @ + 1]
        /\ UNCHANGED <<orderRows, refunds, product, gmo, timers>>

\* An order that is not waiting for money is ignored, and the message is done with.
TimeoutIgnored ==
    \E t \in timers :
        /\ deliveries[t] < MaxDeliveries
        /\ \E q \in Requests : /\ phase[q] = "idle"
                              /\ [op |-> "timeout", payment |-> t] \in Allowed[q]
        /\ order.status # "UNPAID"
        /\ timers' = timers \ {t}
        /\ UNCHANGED <<orderRows, refunds, product, gmo, deliveries, request>>

\* Mutant: the status is not part of the last UPDATE's condition.
StillUnpaidAsRead == TRUE

StillUnpaid == order.status = "UNPAID"

\* Mutant: the payments under way are left as they are.
PaymentsLeftOpen == payment

PaymentsCanceled ==
    [p \in Payments |-> IF payment[p].status = "PAYING"
                        THEN [payment[p] EXCEPT !.status = "CANCELED"]
                        ELSE payment[p]]

\* The message is deleted after the commit; when that fails it is delivered again.
TimeoutCommit(q) ==
    \E deleted \in BOOLEAN :
        /\ Committing(q, "timeout")
        /\ StillUnpaid
        /\ Unlocked(Stores)
        /\ CanRestock(Stores)
        /\ product' = [s \in Stores |-> Restocked(product[s], cart[s].original_item_count)]
        /\ order' = [order EXCEPT !.status = "DRAFT"]
        /\ payment' = PaymentsCanceled
        /\ cart' = CartsSetTo("DRAFT")
        /\ timers' = IF deleted THEN timers \ {job[q].payment} ELSE timers
        /\ Finish(q)
        /\ UNCHANGED <<draft, refunds, gmo, deliveries>>

-----------------------------------------------------------------------------
(* PUT /store/:id/ec/order/:id: a store handles its part of the order.     *)

\* Mutant: what the store has shipped can still be changed.
HandledEvenIfShipped(s) == cart[s].status \notin {"DRAFT", "CANCELED"}

Handled(s) == cart[s].status \notin {"DRAFT", "CANCELED", "COMPLETED"}

StoreMay(j) ==
    LET row == cart[j.store] IN
    \/ j.change = "wait" /\ row.status = "PREPARE_FOR_SHIPPING"
    \/ j.change = "complete" /\ row.status = "WAIT_FOR_SHIPPING" /\ order.status = "PAID"
    \/ j.change = "cancel"
    \/ /\ j.change = "shortage" /\ row.status = "PREPARE_FOR_SHIPPING"
       /\ row.item_count = row.original_item_count
       /\ j.left < row.original_item_count

\* The status the request will write: not yet paid for is not yet to be shipped.
StatusFor(j) ==
    CASE j.change = "wait" -> IF order.status = "UNPAID" THEN "UNPAID" ELSE "WAIT_FOR_SHIPPING"
      [] j.change = "complete" -> "COMPLETED"
      [] j.change = "cancel" -> "CANCELED"
      [] j.change = "shortage" -> Null

StoreRead(q) ==
    \E s \in Stores : \E j \in Changes(s) :
        /\ order.status # "DRAFT"
        /\ Handled(s)
        /\ StoreMay(j)
        /\ ReadBy(q, j, [status |-> StatusFor(j)])
        /\ UNCHANGED <<orderRows, refunds, product, gmo, timers, deliveries>>

\* A change of status without a refund.
StoreUpdate(q) ==
    LET s == job[q].store IN
    /\ Committing(q, "store")
    /\ job[q].change \in {"wait", "complete"}
    /\ Unlocked({s})
    /\ cart' = [cart EXCEPT ![s].status = seen[q].status]
    /\ Finish(q)
    /\ UNCHANGED <<order, draft, payment, refunds, product, gmo, timers, deliveries>>

\* The transaction of a refund: the cart is updated, which locks it, and
\* refundPartialPayment reads the order and its completed payments.
StoreOpen(q) ==
    LET s == job[q].store IN
    /\ Committing(q, "store")
    /\ job[q].change \in {"cancel", "shortage"}
    /\ Unlocked({s})
    /\ phase' = [phase EXCEPT ![q] = "open"]
    /\ seen' = [seen EXCEPT ![q] =
            [status |-> @.status, total_price |-> order.total_price, method |-> order.method,
             sources |-> {p \in Payments : /\ payment[p].status = "COMPLETED"
                                           /\ payment[p].method # "CASH_ON_DELIVERY"}]]
    /\ UNCHANGED <<orderRows, refunds, product, gmo, timers, deliveries, job>>

\* Mutant: a cancellation returns what was ordered, whatever was reported missing.
ReturnedAsOrdered(row, j) ==
    IF j.change = "cancel" THEN row.original_item_count ELSE row.original_item_count - j.left

\* The units that go back to the stock.
Returned(row, j) ==
    IF j.change = "cancel" THEN row.item_count ELSE row.original_item_count - j.left

\* Mutant: the shipping fee is kept.
AmountWithoutFee(row, j) ==
    IF j.change = "cancel" THEN row.total_price - Fee ELSE row.original_item_count - j.left

\* The money that goes back to the customer: on a cancellation, all of it.
Amount(row, j) ==
    IF j.change = "cancel" THEN row.total_price ELSE row.original_item_count - j.left

CartAfter(row, j, status) ==
    [row EXCEPT !.status = IF status = Null THEN @ ELSE status,
                !.item_count = IF j.change = "shortage" THEN j.left ELSE @,
                !.total_price = @ - Amount(row, j)]

\* GMO is told what the charge shall become; a card's refund needs a completed payment.
GmoRefunds(q, amount) ==
    IF amount > 0 /\ seen[q].method = "CARD"
    THEN \E p \in seen[q].sources :
            gmo' = [gmo EXCEPT ![p].kept = IF seen[q].total_price > amount
                                           THEN seen[q].total_price - amount ELSE 0]
    ELSE UNCHANGED gmo

RefundReaches(q) ==
    LET row == cart[job[q].store] IN
    /\ phase[q] = "open"
    /\ Returned(row, job[q]) > 0 => CanRestock({job[q].store})
    /\ Amount(row, job[q]) >= 0
    /\ job[q].change = "shortage" => /\ job[q].left < row.original_item_count
                                     /\ row.status \notin {"DRAFT", "COMPLETED"}
    /\ GmoRefunds(q, Amount(row, job[q]))

StoreRefund(q) ==
    LET s == job[q].store
        amount == Amount(cart[s], job[q])
    IN
    /\ RefundReaches(q)
    /\ product' = [product EXCEPT ![s] = Restocked(@, Returned(cart[s], job[q]))]
    /\ cart' = [cart EXCEPT ![s] = CartAfter(@, job[q], seen[q].status)]
    /\ order' = IF amount > 0
                THEN [order EXCEPT !.total_price = seen[q].total_price - amount]
                ELSE order
    /\ refunds' = [refunds EXCEPT ![s] = @ + amount]
    /\ Finish(q)
    /\ UNCHANGED <<draft, payment, timers, deliveries>>

\* GMO has paid back, and then the transaction was rolled back.
RefundFails(q) ==
    /\ CommitsMayFail
    /\ RefundReaches(q)
    /\ Finish(q)
    /\ UNCHANGED <<orderRows, refunds, product, timers, deliveries>>

-----------------------------------------------------------------------------

Customer(q) == UpsertRead(q) \/ UpsertCommit(q) \/ PayRead(q) \/ PayCommit(q) \/ PayFails(q)
Callback(q) == CallbackRead(q) \/ CompletePayment(q) \/ PayOrder(q)
Timeout(q) == TimeoutRead(q) \/ TimeoutCommit(q)
Store(q) == StoreRead(q) \/ StoreUpdate(q) \/ StoreOpen(q) \/ StoreRefund(q) \/ RefundFails(q)

Next ==
    \/ \E q \in Requests : Customer(q) \/ Callback(q) \/ Timeout(q) \/ Store(q) \/ Abort(q)
    \/ TimeoutIgnored
    \/ \E p \in Payments : CustomerPays(p)

Spec == Init /\ [][Next]_vars

\* A worker that set about a message is done with it, or fails.
TimeoutEnds(q) == TimeoutCommit(q) \/ (job[q].op = "timeout" /\ Abort(q))

\* The queue delivers a message that is not deleted, as often as it may, and no worker is
\* at work for ever; that it succeeds is not assumed.
Fairness == \A q \in Requests : WF_vars(TimeoutRead(q)) /\ WF_vars(TimeoutEnds(q))

FairSpec == Spec /\ Fairness

-----------------------------------------------------------------------------
(* Properties.                                                             *)

\* The units of a store's product that the order has taken and not given back.
Taken(s) == Stock - product[s].ec_stock_number

\* The units the order should hold for a store.
Due(s) ==
    IF order.status = "DRAFT" \/ cart[s].status = "CANCELED" THEN 0 ELSE cart[s].item_count

\* The order holds the units of its carts from the moment it can be paid until they are
\* canceled, and a draft holds none (consumeProducts, rollbackProducts, the store's PUT).
StockFollowsOrder == \A s \in Stores : Taken(s) = Due(s)

\* Goods are paid for: an order that is paid, or a cart that has been shipped, has a
\* payment that GMO has received or that is collected on delivery.
PaidIsCollected ==
    (order.status = "PAID" \/ \E s \in Stores : cart[s].status = "COMPLETED")
      => \E p \in Payments : gmo[p].paid \/ payment[p].method = "CASH_ON_DELIVERY"

\* A payment row says COMPLETED only of money that was collected (callback, webhook).
CompletedIsCollected ==
    \A p \in Payments :
        payment[p].status = "COMPLETED"
          => gmo[p].paid \/ payment[p].method = "CASH_ON_DELIVERY"

\* Goods and payment rows follow the money, whatever is late, crosses or is rolled back.
MoneyIsCollected == PaidIsCollected /\ CompletedIsCollected

\* While the order is a draft no payment is open, and while it is unpaid exactly one is:
\* a late callback must find nothing to complete (paymentTimeout, createPayment).
OnePaymentIsOpen ==
    LET open == {p \in Payments : payment[p].status = "PAYING"} IN
    /\ order.status = "DRAFT" => open = {}
    /\ order.status = "UNPAID" => Cardinality(open) = 1

\* What a cart has refunded and what it still costs add up to what was ordered, and a
\* canceled cart is refunded in full (refundPartialPayment).
RefundsAddUp ==
    order.status = "PAID" =>
        \A s \in Stores :
            /\ refunds[s] + cart[s].total_price = cart[s].original_item_count + Fee
            /\ cart[s].total_price = IF cart[s].status = "CANCELED"
                                     THEN 0 ELSE cart[s].item_count + Fee

\* What has been shipped is final: neither canceled, nor refunded, nor shipped again.
ShippedIsFinal ==
    [][\A s \in Stores :
          cart[s].status = "COMPLETED"
            => cart'[s] = cart[s] /\ refunds'[s] = refunds[s]]_vars

\* Every delivery of the timer of p has failed.
GivenUp(p) ==
    /\ p \in timers /\ deliveries[p] = MaxDeliveries
    /\ \A q \in Requests : job[q] # [op |-> "timeout", payment |-> p]

\* An order that waits for money is paid, or back to a draft when the time is up, unless
\* every delivery of the timer of the payment it waits for has failed (createPayment,
\* paymentTimeout); those of a special price product that was deleted always fail.
UnpaidIsResolved ==
    order.status = "UNPAID" ~>
        \/ order.status # "UNPAID"
        \/ \E p \in Payments : payment[p].status = "PAYING" /\ GivenUp(p)

=============================================================================
