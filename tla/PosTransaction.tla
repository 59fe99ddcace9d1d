--------------------------- MODULE PosTransaction ---------------------------
(***************************************************************************)
(* The POS: transactions at the counter of one store, from the draft to    *)
(* the payment and the return, with what they move: the stock, the points  *)
(* of a customer and the cash in the drawer.                               *)
(*                                                                         *)
(* A payment at a Square terminal takes minutes.  The transaction is then  *)
(* "paying": the goods and the points have moved, and whoever learns first *)
(* how it ends puts that right.  Four may learn it: the request that       *)
(* started it (waitForPayment, five minutes), the worker of paymentTimeout *)
(* (a message delayed by five minutes), Square's webhook (the checkout has *)
(* a deadline of its own), and an employee who cancels.  Each of them      *)
(* reads the status first and acts on it later, and the UPDATEs have no    *)
(* condition on it: variable slips counts, up to a bound, the steps that   *)
(* act on what is no longer so.                                            *)
(*                                                                         *)
(* A database transaction is one step, at its commit, except for the two   *)
(* that call Square on the way (pc "checkout" and "refund"): they keep the *)
(* rows of the product and of the customer locked.  Every transaction here *)
(* is about the same product.                                              *)
(***************************************************************************)
EXTENDS Integers, FiniteSets, Functions

CONSTANTS
    Sales,      \* the transactions of the day
    Baskets,    \* what may be sold or bought: its kind ("sell" or "buy"), the method of
                \* payment ("cash", "terminal", or "bank" for all that is only recorded),
                \* its units, the cash it moves, the points it earns and those it uses
    SpecialPrice,  \* whether the product is of a special price
    Stock,      \* units on the shelf at first
    Points,     \* points of the customer at first
    Float,      \* cash in the drawer at first
    Requests,   \* HTTP requests that may be in progress at one time
    Allowed,    \* what each of them may be for
    MaxDeliveries,  \* of a message, then the queue gives it up
    MaxSpent,   \* bound: points the customer spends elsewhere
    MaxSlips,   \* bound: see slips
    Nobody

Operations == {"new", "resume", "cancel", "return", "webhook"}

ASSUME PosAssumption ==
    /\ IsFiniteSet(Sales) /\ IsFiniteSet(Requests)
    /\ Baskets \subseteq [kind : {"sell", "buy"}, method : {"cash", "bank", "terminal"},
                          units : Nat, cash : Nat, earned : Nat, used : Nat]
    /\ \A b \in Baskets :
          /\ b.method = "terminal" => b.kind = "sell"
          /\ b.cash > 0 => b.method = "cash" \/ (b.method = "bank" /\ b.kind = "buy")
    /\ SpecialPrice \in BOOLEAN /\ (SpecialPrice => Stock > 0)
    /\ Stock \in Nat /\ Points \in Nat /\ Float \in Nat
    /\ \A q \in Requests : Allowed[q] \subseteq Operations
    /\ MaxDeliveries \in Nat /\ MaxSpent \in Nat /\ MaxSlips \in Nat
    /\ Nobody \notin Sales \cup Requests \cup Baskets

VARIABLES
    sale,      \* Transaction, with its Payment and what is bought (basket)
    back,      \* its return transactions: how many are linked, and completed
    stock,     \* Product.stock_number
    points,    \* Customer.owned_point
    drawer,    \* the cash of the register
    request,   \* what each request is doing
    timer,     \* the message paymentTimeout of each transaction
    deliveries,  \* how often it has been delivered
    checkout,  \* the terminal checkout of each transaction, at Square
    refund,    \* its refund, at Square
    answered,  \* whether Square's call about its payment has been answered
    spent,     \* points the customer has spent elsewhere
    slips      \* steps that acted on what was no longer so, or left Square undone

rows == <<sale, back, stock, points, drawer>>
square == <<checkout, refund, answered>>
queue == <<timer, deliveries>>
vars == <<rows, request, queue, square, spent, slips>>

Statuses == {"none", "draft", "paying", "completed", "canceled"}
Payments == {"none", "square", "original"}

Idle == [op |-> "none", sale |-> Nobody, pc |-> "idle", seen |-> "none", links |-> 0]

TypeOK ==
    /\ sale \in [Sales -> [status : Statuses, payment : Payments, cash : Int, granted : Nat,
                           asked : BOOLEAN, carts : Requests \cup {Nobody},
                           basket : Baskets \cup {Nobody}]]
    /\ back \in [Sales -> [linked : Nat, done : Nat, cash : Int]]
    /\ stock \in Nat /\ points \in Nat /\ drawer \in Nat
    /\ request \in [Requests -> {Idle} \cup
            [op : Operations, sale : Sales, seen : Statuses, links : Nat,
             pc : {"reopen", "take", "checkout", "watch", "wait", "reread", "undo", "clean", "finish",
                   "cancel", "drop", "complete", "return", "giveback", "refund"}]]
    /\ timer \in [Sales -> {"none", "armed", "read"}]
    /\ deliveries \in [Sales -> 0..MaxDeliveries]
    /\ checkout \in [Sales -> {"none", "open", "paid", "canceled"}]
    /\ refund \in [Sales -> {"none", "asked", "done"}]
    /\ answered \in [Sales -> BOOLEAN]
    /\ spent \in 0..MaxSpent /\ slips \in 0..MaxSlips

Init ==
    /\ sale = [t \in Sales |-> [status |-> "none", payment |-> "none", cash |-> 0, granted |-> 0,
                                asked |-> FALSE, carts |-> Nobody, basket |-> Nobody]]
    /\ back = [t \in Sales |-> [linked |-> 0, done |-> 0, cash |-> 0]]
    /\ stock = Stock /\ points = Points /\ drawer = Float
    /\ request = [q \in Requests |-> Idle]
    /\ timer = [t \in Sales |-> "none"] /\ deliveries = [t \in Sales |-> 0]
    /\ checkout = [t \in Sales |-> "none"]
    /\ refund = [t \in Sales |-> "none"]
    /\ answered = [t \in Sales |-> FALSE]
    /\ spent = 0 /\ slips = 0

-----------------------------------------------------------------------------
(* Requests.                                                               *)

Of(q) == request[q].sale
At(q, pc) == request[q].pc = pc

Starts(q, op, t, pc) ==
    /\ request[q] = Idle
    /\ op \in Allowed[q]
    /\ request' = [request EXCEPT ![q] =
            [op |-> op, sale |-> t, pc |-> pc, seen |-> sale[t].status,
             links |-> back[t].linked]]

GoesTo(q, pc, seen) == request' = [request EXCEPT ![q].pc = pc, ![q].seen = seen]
Ends(q) == request' = [request EXCEPT ![q] = Idle]

\* A transaction that waits for Square holds the rows of the product and the customer.
Unlocked == \A q \in Requests : request[q].pc \notin {"checkout", "refund"}

CountsIf(slip) == IF slip THEN slips < MaxSlips /\ slips' = slips + 1 ELSE UNCHANGED slips

\* Somebody else has decided since the request has read, or the money is on its way.
Crossed(t, seen) ==
    \/ sale[t].status # seen
    \/ checkout[t] = "paid" /\ sale[t].status # "completed"

-----------------------------------------------------------------------------
(* consumeProducts with processPoints, and return, which takes them back.  *)

Basket(t) == sale[t].basket
Units(t) == IF Basket(t).kind = "sell" THEN -Basket(t).units ELSE Basket(t).units
Coins(t) == IF Basket(t).kind = "sell" THEN Basket(t).cash ELSE -Basket(t).cash

\* A product of a special price is deleted with its last unit, and no stock is added to a
\* product that is deleted.
Deleted == SpecialPrice /\ stock = 0

\* Mutant: the stock is decreased without looking whether there is enough.
PointsSuffice(t) == points + Basket(t).earned - Basket(t).used >= 0

CanConsume(t) ==
    /\ stock + Units(t) >= 0
    /\ Deleted => Basket(t).kind = "sell"
    /\ points + Basket(t).earned - Basket(t).used >= 0

Consumed(t) ==
    /\ CanConsume(t)
    /\ stock' = stock + Units(t)
    /\ points' = points + Basket(t).earned - Basket(t).used

\* The points are taken back before the used ones are given back.
CanReturn(t) ==
    /\ stock - Units(t) >= 0
    /\ Deleted => Basket(t).kind = "buy"
    /\ points - sale[t].granted >= 0

Returnable == {"paying", "completed"}

\* Mutant: the used points are not given back.
GrantsTakenBack(t) == points - sale[t].granted

PointsTakenBack(t) == points - sale[t].granted + Basket(t).used

Returned(t) ==
    /\ CanReturn(t)
    /\ stock' = stock - Units(t)
    /\ points' = PointsTakenBack(t)

-----------------------------------------------------------------------------
(* POST /transaction: a draft first (with id: its carts are written anew), *)
(* and, unless that was all, the goods, the points and the payment.        *)

Draft(q, t, b) ==
    sale' = [sale EXCEPT ![t].status = "draft", ![t].carts = q, ![t].basket = b]

New(q, t) ==
    /\ sale[t].status = "none"
    /\ request[q] = Idle /\ "new" \in Allowed[q]
    /\ \E b \in Baskets : Draft(q, t, b)
    /\ request' = [request EXCEPT ![q] =
            [op |-> "new", sale |-> t, pc |-> "take", seen |-> "draft", links |-> 0]]
    /\ UNCHANGED <<back, stock, points, drawer, queue, square, spent, slips>>

ResumeRead(q, t) ==
    /\ sale[t].status = "draft"
    /\ Starts(q, "resume", t, "reopen")
    /\ UNCHANGED <<rows, queue, square, spent, slips>>

\* The upsert writes "draft" without looking again.
Reopen(q) ==
    /\ At(q, "reopen")
    /\ Unlocked
    /\ CountsIf(Crossed(Of(q), "draft"))
    /\ \E b \in Baskets : Draft(q, Of(q), b)
    /\ GoesTo(q, "take", "draft")
    /\ UNCHANGED <<back, stock, points, drawer, queue, square, spent>>

\* asDraft.
LeaveAsDraft(q) ==
    /\ At(q, "take")
    /\ Ends(q)
    /\ UNCHANGED <<rows, queue, square, spent, slips>>

\* consumeProducts updates the carts it has created: they must still be there.
CartsInPlace(q) == Basket(Of(q)).kind = "sell" => sale[Of(q)].carts = q

\* Mutant: the cash of a purchase goes into the drawer.
CashIn(t) == drawer + Basket(t).cash

CashPaid(t) == drawer + Coins(t)

\* Cash, or what is only recorded, of which a purchase by bank may be paid in cash in
\* part: all in one transaction.  Payment.transaction_id is unique.
PayAtOnce(q) ==
    LET t == Of(q) IN
    /\ At(q, "take")
    /\ Basket(t).method # "terminal"
    /\ Unlocked
    /\ CartsInPlace(q)
    /\ sale[t].payment = "none"
    /\ CountsIf(sale[t].status # "draft")
    /\ Consumed(t)
    /\ CashPaid(t) >= 0
    /\ drawer' = CashPaid(t)
    /\ sale' = [sale EXCEPT ![t].status = "completed", ![t].granted = Basket(t).earned,
                            ![t].payment = "original", ![t].cash = Coins(t)]
    /\ GoesTo(q, "finish", "completed")
    /\ UNCHANGED <<back, queue, square, spent>>

\* The key of the checkout is the transaction's id: a second call finds the first one.
AskTerminal(q) ==
    LET t == Of(q) IN
    /\ At(q, "take")
    /\ Basket(t).method = "terminal"
    /\ Unlocked
    /\ CartsInPlace(q)
    /\ CanConsume(t)
    /\ checkout' = [checkout EXCEPT ![t] = IF @ = "none" THEN "open" ELSE @]
    /\ GoesTo(q, "checkout", request[q].seen)
    /\ UNCHANGED <<rows, queue, refund, answered, spent, slips>>

\* Mutant: nobody is told when the five minutes are over.
NoTimer(t) == timer

TimerSet(t) == [timer EXCEPT ![t] = "armed"]

Commit(q) ==
    LET t == Of(q) IN
    /\ At(q, "checkout")
    /\ CountsIf(sale[t].status # "draft")
    /\ Consumed(t)
    /\ sale' = [sale EXCEPT ![t].status = "paying", ![t].granted = Basket(t).earned,
                            ![t].asked = TRUE]
    /\ timer' = TimerSet(t) /\ deliveries' = [deliveries EXCEPT ![t] = 0]
    /\ GoesTo(q, "watch", "paying")
    /\ UNCHANGED <<back, drawer, square, spent>>

\* Any error: not enough goods or points, Square or the database refuses.  What
\* Square was asked for stays asked.
TakeFails(q) ==
    /\ request[q].pc \in {"take", "checkout"}
    /\ CountsIf(At(q, "checkout"))
    /\ GoesTo(q, "clean", request[q].seen)
    /\ UNCHANGED <<rows, queue, square, spent>>

-----------------------------------------------------------------------------
(* waitForPayment and what the request does when it fails.                 *)

Watch(q) ==
    /\ At(q, "watch")
    /\ sale[Of(q)].status \in {"paying", "draft"}
    /\ GoesTo(q, "wait", "paying")
    /\ UNCHANGED <<rows, queue, square, spent, slips>>

\* The first look takes a transaction that has already ended, even a completed one, for
\* an error.
Misses(q) ==
    /\ At(q, "watch")
    /\ sale[Of(q)].status \notin {"paying", "draft"}
    /\ GoesTo(q, "reread", "paying")
    /\ UNCHANGED <<rows, queue, square, spent, slips>>

Paid(q) ==
    /\ At(q, "wait")
    /\ sale[Of(q)].status = "completed"
    /\ GoesTo(q, "finish", "completed")
    /\ UNCHANGED <<rows, queue, square, spent, slips>>

\* Canceled, or 600 times paying or draft.
WaitEnds(q) ==
    /\ At(q, "wait")
    /\ sale[Of(q)].status # "completed"
    /\ GoesTo(q, "reread", "paying")
    /\ UNCHANGED <<rows, queue, square, spent, slips>>

\* If it is paying now, the worker has not come although its five minutes are over as
\* well, or somebody else has started to pay the draft that the worker left.  If it is
\* completed, the customer has paid after all.
Reread(q) ==
    LET status == sale[Of(q)].status IN
    /\ At(q, "reread")
    /\ CountsIf(status \in Returnable)
    /\ GoesTo(q, IF status = "canceled" THEN "clean" ELSE "undo", status)
    /\ UNCHANGED <<rows, queue, square, spent>>

\* Goods and points go back; the status stays.
Undo(q) ==
    /\ At(q, "undo")
    /\ request[q].seen \in Returnable
    /\ Unlocked
    /\ CountsIf(Crossed(Of(q), request[q].seen))
    /\ Returned(Of(q))
    /\ GoesTo(q, "clean", request[q].seen)
    /\ UNCHANGED <<sale, back, drawer, queue, square, spent>>

UndoFails(q) ==
    /\ At(q, "undo")
    /\ request[q].seen \in Returnable => ~CanReturn(Of(q))
    /\ GoesTo(q, "clean", request[q].seen)
    /\ UNCHANGED <<rows, queue, square, spent, slips>>

\* The catch: without an id the transaction is canceled, whatever has become of it.
Clean(q) ==
    LET t == Of(q) IN
    /\ At(q, "clean")
    /\ IF request[q].op = "new"
       THEN /\ Unlocked
            /\ CountsIf(Crossed(t, request[q].seen))
            /\ sale' = [sale EXCEPT ![t].status = "canceled"]
       ELSE UNCHANGED <<sale, slips>>
    /\ Ends(q)
    /\ UNCHANGED <<back, stock, points, drawer, queue, square, spent>>

\* finished_at is written and the answer sent.
Finish(q) ==
    /\ At(q, "finish")
    /\ Ends(q)
    /\ UNCHANGED <<rows, queue, square, spent, slips>>

FinishFails(q) ==
    /\ At(q, "finish")
    /\ CountsIf(TRUE)
    /\ GoesTo(q, "clean", "completed")
    /\ UNCHANGED <<rows, queue, square, spent>>

-----------------------------------------------------------------------------
(* POST /transaction/[transaction_id]/cancel.                              *)

\* Mutant: what is completed may be canceled as well.
IsThere(t) == sale[t].status \notin {"none", "canceled"}

MayBeCanceled(t) == sale[t].status \in {"draft", "paying"}

CancelRead(q, t) ==
    /\ MayBeCanceled(t)
    /\ Starts(q, "cancel", t, "cancel")
    /\ UNCHANGED <<rows, queue, square, spent, slips>>

\* Square refuses to cancel a checkout that was paid, and the transaction aborts.
Cancel(q) ==
    LET t == Of(q) IN
    /\ At(q, "cancel")
    /\ Unlocked
    /\ sale[t].asked => checkout[t] # "paid"
    /\ CountsIf(Crossed(t, request[q].seen))
    /\ IF request[q].seen = "paying" THEN Returned(t) ELSE UNCHANGED <<stock, points>>
    /\ sale' = [sale EXCEPT ![t].status = "canceled"]
    /\ checkout' = [checkout EXCEPT ![t] = IF sale[t].asked THEN "canceled" ELSE @]
    /\ Ends(q)
    /\ UNCHANGED <<back, drawer, queue, refund, answered, spent>>

-----------------------------------------------------------------------------
(* The worker of paymentTimeout.                                           *)

StillPaying(t) == sale[t].status = "paying"

TimeoutRead(t) ==
    /\ timer[t] = "armed" /\ deliveries[t] < MaxDeliveries
    /\ timer' = [timer EXCEPT ![t] = IF StillPaying(t) THEN "read" ELSE "none"]
    /\ deliveries' = [deliveries EXCEPT ![t] = IF StillPaying(t) THEN @ + 1 ELSE 0]
    /\ UNCHANGED <<rows, request, square, spent, slips>>

\* return reads the row again and takes a completed one as well.
TimeoutCommit(t) ==
    /\ timer[t] = "read"
    /\ Unlocked
    /\ sale[t].status \in Returnable
    /\ CountsIf(Crossed(t, "paying"))
    /\ Returned(t)
    /\ sale' = [sale EXCEPT ![t].status = "draft"]
    /\ timer' = [timer EXCEPT ![t] = "none"] /\ deliveries' = [deliveries EXCEPT ![t] = 0]
    /\ UNCHANGED <<back, drawer, request, square, spent>>

\* The message comes back, unless that was its last delivery.
Undelivered(t) ==
    /\ timer[t] = "read"
    /\ timer' = [timer EXCEPT ![t] = "armed"]
    /\ UNCHANGED <<rows, request, deliveries, square, spent, slips>>

TimeoutFails(t) ==
    /\ sale[t].status \in Returnable => ~CanReturn(t)
    /\ Undelivered(t)

WorkerDies(t) == Undelivered(t)

TimeoutEnds(t) == TimeoutCommit(t) \/ TimeoutFails(t) \/ WorkerDies(t)

GivenUp(t) == timer[t] = "armed" /\ deliveries[t] = MaxDeliveries

-----------------------------------------------------------------------------
(* Square: the terminal, and the webhook, which is called until it answers *)
(* and may be called again.                                                *)

CustomerPays(t) ==
    /\ checkout[t] = "open"
    /\ CountsIf(sale[t].status # "paying")
    /\ checkout' = [checkout EXCEPT ![t] = "paid"]
    /\ UNCHANGED <<rows, request, queue, refund, answered, spent>>

\* At the terminal, or after Square's own five minutes.
CheckoutEnds(t) ==
    /\ checkout[t] = "open"
    /\ checkout' = [checkout EXCEPT ![t] = "canceled"]
    /\ UNCHANGED <<rows, request, queue, refund, answered, spent, slips>>

\* payment.updated: the payment is upserted, and then the status is written.
PaymentUpdated(q, t) ==
    /\ checkout[t] = "paid"
    /\ Starts(q, "webhook", t, "complete")
    /\ sale' = [sale EXCEPT ![t].payment = IF @ = "none" THEN "square" ELSE @]
    /\ UNCHANGED <<back, stock, points, drawer, queue, square, spent, slips>>

\* Mutant: a payment that comes a second time completes a draft.
Uncompleted(t) == "draft"

Completed(t) == "completed"

Complete(q) ==
    /\ At(q, "complete")
    /\ sale' = [sale EXCEPT ![Of(q)].status = Completed(Of(q))]
    /\ answered' = [answered EXCEPT ![Of(q)] = TRUE]
    /\ Ends(q)
    /\ UNCHANGED <<back, stock, points, drawer, queue, checkout, refund, spent, slips>>

\* terminal.checkout.updated.
CheckoutCanceled(q, t) ==
    /\ checkout[t] = "canceled"
    /\ sale[t].status = "paying"
    /\ Starts(q, "webhook", t, "drop")
    /\ UNCHANGED <<rows, queue, square, spent, slips>>

Drop(q) ==
    LET t == Of(q) IN
    /\ At(q, "drop")
    /\ Unlocked
    /\ CountsIf(Crossed(t, "paying"))
    /\ Returned(t)
    /\ sale' = [sale EXCEPT ![t].status = "canceled"]
    /\ Ends(q)
    /\ UNCHANGED <<back, drawer, queue, square, spent>>

-----------------------------------------------------------------------------
(* POST /transaction/[transaction_id]/return: a return transaction that is *)
(* linked to the first one, and then goods, points and money in one step,  *)
(* unless Square has to give the money back.                               *)

\* Mutant: a transaction may be returned again.
IsCompleted(t) == sale[t].status = "completed"

MayBeReturned(t) == sale[t].status = "completed" /\ back[t].linked = 0

ReturnRead(q, t) ==
    /\ MayBeReturned(t)
    /\ Starts(q, "return", t, "return")
    /\ UNCHANGED <<rows, queue, square, spent, slips>>

ReturnCreate(q) ==
    /\ At(q, "return")
    /\ CountsIf(back[Of(q)].linked # request[q].links \/ sale[Of(q)].status # "completed")
    /\ back' = [back EXCEPT ![Of(q)].linked = @ + 1]
    /\ GoesTo(q, "giveback", "completed")
    /\ UNCHANGED <<sale, stock, points, drawer, queue, square, spent>>

BySquare(t) == Basket(t).method = "terminal" /\ sale[t].payment = "square"
CashBack(t) == IF Basket(t).method = "cash" THEN Coins(t) ELSE 0

\* processRefund, without Square.
GiveBack(q) ==
    LET t == Of(q) IN
    /\ At(q, "giveback")
    /\ ~BySquare(t) /\ sale[t].payment # "none"
    /\ Unlocked
    /\ CountsIf(sale[t].status # "completed")
    /\ Returned(t)
    /\ drawer - CashBack(t) >= 0
    /\ drawer' = drawer - CashBack(t)
    /\ back' = [back EXCEPT ![t].done = @ + 1, ![t].cash = @ + CashBack(t)]
    /\ Ends(q)
    /\ UNCHANGED <<sale, queue, square, spent>>

\* processRefund, Square: a sale is refunded once.
AskRefund(q) ==
    LET t == Of(q) IN
    /\ At(q, "giveback")
    /\ BySquare(t)
    /\ Unlocked
    /\ CanReturn(t)
    /\ refund[t] = "none"
    /\ refund' = [refund EXCEPT ![t] = "asked"]
    /\ GoesTo(q, "refund", "draft")
    /\ UNCHANGED <<rows, queue, checkout, answered, spent, slips>>

RefundDone(t) ==
    /\ refund[t] = "asked"
    /\ refund' = [refund EXCEPT ![t] = "done"]
    /\ UNCHANGED <<rows, request, queue, checkout, answered, spent, slips>>

\* refund.updated: the return transaction, if it is still linked, is completed.
RefundUpdated(q) ==
    /\ At(q, "refund")
    /\ refund[Of(q)] = "done"
    /\ request[q].seen = "draft"
    /\ GoesTo(q, "refund", "completed")
    /\ UNCHANGED <<rows, queue, square, spent, slips>>

RefundCommit(q) ==
    LET t == Of(q) IN
    /\ At(q, "refund")
    /\ request[q].seen = "completed"
    /\ CountsIf(sale[t].status # "completed")
    /\ Returned(t)
    /\ back' = [back EXCEPT ![t].done = @ + 1]
    /\ Ends(q)
    /\ UNCHANGED <<sale, drawer, queue, square, spent>>

Unlinked(t) == [back EXCEPT ![t].linked = @ - 1]

\* Any error, or three minutes without an answer of Square.
ReturnFails(q) ==
    /\ request[q].pc \in {"giveback", "refund"}
    /\ CountsIf(At(q, "refund"))
    /\ back' = Unlinked(Of(q))
    /\ Ends(q)
    /\ UNCHANGED <<sale, stock, points, drawer, queue, square, spent>>

-----------------------------------------------------------------------------
(* The process that serves a request dies, or an error ends a request that *)
(* has nothing to clean up.  An open transaction is rolled back.           *)

Dies(q) ==
    /\ request[q] # Idle
    /\ CountsIf(request[q].pc \in {"checkout", "refund"})
    /\ Ends(q)
    /\ UNCHANGED <<rows, queue, square, spent>>

\* The customer spends points in another purchase.
Spend ==
    /\ Unlocked
    /\ spent < MaxSpent /\ points > 0
    /\ points' = points - 1
    /\ spent' = spent + 1
    /\ UNCHANGED <<sale, back, stock, drawer, request, queue, square, slips>>

Requested(q) ==
    \/ \E t \in Sales :
        \/ New(q, t) \/ ResumeRead(q, t) \/ CancelRead(q, t) \/ ReturnRead(q, t)
        \/ PaymentUpdated(q, t) \/ CheckoutCanceled(q, t)
    \/ Reopen(q) \/ LeaveAsDraft(q) \/ PayAtOnce(q) \/ AskTerminal(q) \/ Commit(q) \/ TakeFails(q)
    \/ Watch(q) \/ Misses(q) \/ Paid(q) \/ WaitEnds(q) \/ Reread(q) \/ Undo(q) \/ UndoFails(q) \/ Clean(q)
    \/ Finish(q) \/ FinishFails(q)
    \/ Cancel(q) \/ Complete(q) \/ Drop(q)
    \/ ReturnCreate(q) \/ GiveBack(q) \/ AskRefund(q) \/ RefundUpdated(q) \/ RefundCommit(q)
    \/ ReturnFails(q) \/ Dies(q)

Elsewhere(t) ==
    \/ TimeoutRead(t) \/ TimeoutCommit(t) \/ TimeoutFails(t) \/ WorkerDies(t)
    \/ CustomerPays(t) \/ CheckoutEnds(t) \/ RefundDone(t)

Next ==
    \/ \E q \in Requests : Requested(q)
    \/ \E t \in Sales : Elsewhere(t)
    \/ Spend

Spec == Init /\ [][Next]_vars

\* A message is delivered, and the worker ends with it or dies; a transaction that is
\* open ends; Square calls the webhook until it has answered, and carries out a refund.
Fairness ==
    /\ \A t \in Sales : /\ WF_vars(TimeoutRead(t)) /\ WF_vars(TimeoutEnds(t))
                       /\ WF_vars(RefundDone(t))
    /\ \A q \in Requests : WF_vars(Commit(q) \/ RefundUpdated(q) \/ RefundCommit(q))
    /\ \A q \in {r \in Requests : "webhook" \in Allowed[r]} :
          /\ SF_vars(Complete(q))
          /\ \A t \in Sales : SF_vars(~answered[t] /\ PaymentUpdated(q, t))

FairSpec == Spec /\ Fairness

-----------------------------------------------------------------------------
(* Properties.                                                             *)

\* The goods of a transaction have left the shelf, or come to it, and are not back.
Stands(t) == sale[t].status \in Returnable /\ back[t].done = 0

GoodsOf(t) == IF Stands(t) THEN Units(t) ELSE 0
PointsOf(t) == IF Stands(t) THEN sale[t].granted - Basket(t).used ELSE 0

\* The shelf holds what was there, less what stands sold and more what stands bought, and
\* the customer has the points of the same sales: whoever ends a payment gives the goods
\* and the points back exactly once, or takes them back (consumeProducts, rollbackProducts,
\* processPoints, rollbackPoints).  It holds as long as no two of them cross.
GoodsAndPointsFollowSales ==
    slips = 0 =>
        /\ stock = Stock + SumFunction([t \in Sales |-> GoodsOf(t)])
        /\ points = Points - spent + SumFunction([t \in Sales |-> PointsOf(t)])

CashOf(t) == sale[t].cash - back[t].cash

\* The drawer holds the float and the cash of each payment and refund on record,
\* even when requests cross (processPayment and processRefund, changeCash).
DrawerFollowsPayments == drawer = Float + SumFunction([t \in Sales |-> CashOf(t)])

\* A transaction is returned once, and what Square has refunded is returned.
ReturnedOnce ==
    slips = 0 => \A t \in Sales :
        /\ back[t].done <= 1
        /\ refund[t] # "none" =>
              back[t].done = 1 \/ \E q \in Requests : Of(q) = t /\ At(q, "refund")

\* A transaction that is completed or canceled stays so (the status is written by five
\* handlers without a condition).
EndedStaysEnded ==
    [][slips' = 0 => \A t \in Sales :
          sale[t].status \in {"completed", "canceled"} => sale'[t].status = sale[t].status]_vars

\* Goods are not held for ever for a payment that does not come: the worker ends it,
\* unless its message has failed three times, because the customer no longer has the
\* points to take back, the product is deleted or the worker died (paymentTimeout).
PayingEnds ==
    \A t \in Sales : sale[t].status = "paying" ~> sale[t].status # "paying" \/ GivenUp(t)

\* What the customer has paid at the terminal is completed in the end, also when the store
\* had given the sale up before and when webhooks die half-way.  Only once Square has been
\* answered may a step that acts on what is no longer so undo that (payment.updated).
PaidIsCompleted ==
    \A t \in Sales :
        checkout[t] = "paid" ~> sale[t].status = "completed" \/ (answered[t] /\ slips > 0)

=============================================================================
