---------------------------- MODULE Reservation -----------------------------
(***************************************************************************)
(* One reservation of a product that is to come out: customers pay a       *)
(* deposit for some units while it is OPEN, fetch them when it is CLOSED,  *)
(* or cancel; the store sells what is left.  A reception is one customer's *)
(* entry, CREATED, DEPOSITED, RECEIVED or CANCELLED.                       *)
(*                                                                         *)
(* Every request checks what it reads before its transaction (checkCart,   *)
(* checkReturnCart), and of these checks only the status of the reception  *)
(* that is paid for or fetched is made again by the UPDATE itself.         *)
(* Variable slips counts, up to a bound, the steps that act on what is     *)
(* not, or no longer, so.                                                  *)
(*                                                                         *)
(* The deposit of a unit is 1.  A transaction is one step, at its commit,  *)
(* except that of a customer who fetches: it tells the worker that closes  *)
(* the reservation before it commits.                                      *)
(***************************************************************************)
EXTENDS Integers, FiniteSets, Functions

CONSTANTS
    Receptions,     \* receptions there may be
    CustomerOf,     \* whose each of them is
    CountOf,        \* and for how many units
    LimitCounts,        \* values of Reservation.limit_count
    LimitsPerUser,      \* and of limit_count_per_user
    Requests,       \* requests that may be in progress at one time
    Allowed,        \* what each of them may be for
    Settable,       \* statuses that an employee sets
    MaxStock,       \* bound: units on the shelf
    MaxChanges,     \* bound: changes by an employee
    MaxSlips,       \* bound: see slips
    Nobody

Operations == {"put", "reserve", "deposit", "receive", "cancel", "return", "return_deposit", "sell"}
ReservationStatus == {"NOT_STARTED", "OPEN", "CLOSED", "FINISHED"}

ASSUME ReservationAssumption ==
    /\ IsFiniteSet(Receptions)
    /\ CountOf \in [Receptions -> Nat \ {0}] /\ DOMAIN CustomerOf = Receptions
    /\ LimitCounts \subseteq Nat /\ LimitsPerUser \subseteq Nat
    /\ \A q \in Requests : Allowed[q] \subseteq Operations
    /\ Settable \subseteq ReservationStatus
    /\ MaxStock \in Nat /\ MaxChanges \in Nat /\ MaxSlips \in Nat
    /\ Nobody \notin Receptions

VARIABLES
    status,     \* Reservation.status
    limits,     \* its limits, as a whole and for each customer
    reception,  \* the status of each Reservation_Reception_Product
    deposit,    \* deposits taken and given back for it, and return transactions linked
    handed,     \* the sale by which it was fetched: none, completed or returned
    stock,      \* Product.stock_number
    request,    \* what each request is doing
    seen,       \* what its checks have read
    messages,   \* messages updateReservationStatus in the queue
    worker,     \* whether the worker is about to finish the reservation
    changes,    \* changes by an employee
    slips       \* steps that acted on what was not, or no longer, so

receptions == <<reception, deposit, handed>>
vars == <<status, limits, receptions, stock, request, seen, messages, worker, changes, slips>>

Idle == [op |-> "none", of |-> Nobody, pc |-> "idle"]

Limits == [whole : LimitCounts, each : LimitsPerUser]

TypeOK ==
    /\ status \in ReservationStatus
    /\ limits \in Limits
    /\ reception \in [Receptions -> {"none", "CREATED", "DEPOSITED", "RECEIVED", "CANCELLED"}]
    /\ deposit \in [Receptions -> [paid : 0..1, refunded : Nat, linked : Nat]]
    /\ handed \in [Receptions -> {"no", "yes", "returned"}]
    /\ stock \in 0..MaxStock
    /\ request \in [Requests -> {Idle} \cup
            [op : Operations, of : Receptions \cup {Nobody}, pc : {"commit", "told"}]]
    /\ messages \in 0..Cardinality(Receptions)
    /\ worker \in {"idle", "finish"}
    /\ changes \in 0..MaxChanges /\ slips \in 0..MaxSlips

Init ==
    /\ status = "NOT_STARTED"
    /\ limits \in Limits
    /\ reception = [r \in Receptions |-> "none"]
    /\ deposit = [r \in Receptions |-> [paid |-> 0, refunded |-> 0, linked |-> 0]]
    /\ handed = [r \in Receptions |-> "no"]
    /\ stock = 0
    /\ request = [q \in Requests |-> Idle]
    /\ seen = [q \in Requests |-> Nobody]
    /\ messages = 0 /\ worker = "idle"
    /\ changes = 0 /\ slips = 0

-----------------------------------------------------------------------------
(* getAvailableMargin and the checks of checkCart.                         *)

Units(S) == SumFunctionOnSet(CountOf, S)
With(statuses) == {r \in Receptions : reception[r] \in statuses}

Effective == With({"DEPOSITED", "RECEIVED"})
EffectiveOf(c) == {r \in Effective : CustomerOf[r] = c}

\* Mutant: only the customer's own limit is looked at.
WithinOwnLimit(r) == CountOf[r] <= limits.each - Units(EffectiveOf(CustomerOf[r]))

WithinLimits(r) ==
    /\ CountOf[r] <= limits.whole - Units(Effective)
    /\ CountOf[r] <= limits.each - Units(EffectiveOf(CustomerOf[r]))

\* What is kept for customers who have paid a deposit.
Unreceived == Units(With({"DEPOSITED"}))

\* Mutant: what is kept for them is sold.
IsNotOpen == status # "OPEN"

MaySell ==
    /\ status # "OPEN"
    /\ status = "CLOSED" => stock - Unreceived - 1 >= 0

-----------------------------------------------------------------------------
(* Requests.  Of what it reads, a request acts on what View says.          *)

View(op, r) ==
    CASE op = "deposit" -> <<status, limits, reception>>
      [] op = "sell" -> <<status, reception, stock>>
      [] op \in {"cancel", "return", "return_deposit"} -> <<reception[r], handed[r], deposit[r]>>
      [] op \in {"put", "reserve"} -> <<status>>
      [] OTHER -> <<>>

Starts(q, op, r) ==
    /\ request[q] = Idle
    /\ op \in Allowed[q]
    /\ request' = [request EXCEPT ![q] = [op |-> op, of |-> r, pc |-> "commit"]]
    /\ seen' = [seen EXCEPT ![q] = View(op, r)]
    /\ UNCHANGED <<status, limits, receptions, stock, messages, worker, changes, slips>>

Commits(q, op) == request[q].op = op /\ request[q].pc = "commit"
Of(q) == request[q].of
Crossed(q) == seen[q] # View(request[q].op, Of(q))

Ends(q) ==
    /\ request' = [request EXCEPT ![q] = Idle]
    /\ seen' = [seen EXCEPT ![q] = Nobody]

CountsIf(slip) == IF slip THEN slips < MaxSlips /\ slips' = slips + 1 ELSE UNCHANGED slips

\* The row of a reception that is being fetched is locked.
Unlocked(r) == \A q \in Requests : request[q].pc = "told" => Of(q) # r

\* Mutant: the stock is decreased without looking whether there is enough.
Anyway(n) == n > 0

\* decreaseStock.
InStock(n) == stock - n >= 0

-----------------------------------------------------------------------------
(* The reservation (PUT), unless it is finished: its status, any of them,  *)
(* and its limits if it was read before it had started, or was set back.   *)

PutRead(q) ==
    /\ status # "FINISHED"
    /\ Starts(q, "put", Nobody)

Put(q) ==
    /\ Commits(q, "put")
    /\ changes < MaxChanges
    /\ CountsIf(Crossed(q))
    /\ status' \in Settable \cup {status}
    /\ IF seen[q] = <<"NOT_STARTED">> THEN limits' \in Limits ELSE UNCHANGED limits
    /\ changes' = changes + 1
    /\ Ends(q)
    /\ UNCHANGED <<receptions, stock, messages, worker>>

-----------------------------------------------------------------------------
(* A reception, its deposit, and the customer who fetches the goods.       *)

ReserveRead(q, r) ==
    /\ reception[r] = "none" /\ \A p \in Requests : Of(p) # r
    /\ status = "OPEN"
    /\ WithinLimits(r)
    /\ Starts(q, "reserve", r)

Reserve(q) ==
    /\ Commits(q, "reserve")
    /\ CountsIf(Crossed(q))
    /\ reception' = [reception EXCEPT ![Of(q)] = "CREATED"]
    /\ Ends(q)
    /\ UNCHANGED <<status, limits, deposit, handed, stock, messages, worker, changes>>

DepositRead(q, r) ==
    /\ reception[r] = "CREATED"
    /\ status = "OPEN"
    /\ WithinLimits(r)
    /\ Starts(q, "deposit", r)

\* No stock moves (consumeProducts).
Deposit(q) ==
    LET r == Of(q) IN
    /\ Commits(q, "deposit")
    /\ reception[r] = "CREATED"
    /\ CountsIf(Crossed(q))
    /\ reception' = [reception EXCEPT ![r] = "DEPOSITED"]
    /\ deposit' = [deposit EXCEPT ![r].paid = @ + 1]
    /\ Ends(q)
    /\ UNCHANGED <<status, limits, handed, stock, messages, worker, changes>>

ReceiveRead(q, r) ==
    /\ reception[r] = "DEPOSITED"
    /\ status = "CLOSED"
    /\ Starts(q, "receive", r)

\* Mutant: nobody tells the worker.
NotTold == messages

Told == messages + 1

\* The row is locked and the message sent, and then the goods are taken.
Receive(q) ==
    LET r == Of(q) IN
    /\ Commits(q, "receive")
    /\ Unlocked(r)
    /\ reception[r] = "DEPOSITED"
    /\ messages < Cardinality(Receptions)
    /\ messages' = Told
    /\ request' = [request EXCEPT ![q].pc = "told"]
    /\ UNCHANGED <<status, limits, receptions, stock, seen, worker, changes, slips>>

ReceiveCommit(q) ==
    LET r == Of(q) IN
    /\ request[q].pc = "told"
    /\ InStock(CountOf[r])
    /\ stock' = stock - CountOf[r]
    /\ reception' = [reception EXCEPT ![r] = "RECEIVED"]
    /\ handed' = [handed EXCEPT ![r] = "yes"]
    /\ Ends(q)
    /\ UNCHANGED <<status, limits, deposit, messages, worker, changes, slips>>

-----------------------------------------------------------------------------
(* Returns.  A deposit is given back when its reception is cancelled       *)
(* (returnDepositTransaction), or with the goods (dontCancel: the          *)
(* reception stays RECEIVED).                                              *)

Refunded(r) == [deposit EXCEPT ![r].refunded = @ + 1, ![r].linked = @ + 1]

MayCancel(r) == reception[r] = "DEPOSITED"

CancelRead(q, r) ==
    /\ MayCancel(r)
    /\ Starts(q, "cancel", r)

\* With dontRefund nothing is paid back.  The UPDATE does not look at the status.
Cancel(q) ==
    LET r == Of(q) IN
    /\ Commits(q, "cancel")
    /\ Unlocked(r)
    /\ CountsIf(Crossed(q))
    /\ reception' = [reception EXCEPT ![r] = "CANCELLED"]
    /\ \/ deposit' = Refunded(r)
       \/ deposit' = [deposit EXCEPT ![r].linked = @ + 1]
    /\ Ends(q)
    /\ UNCHANGED <<status, limits, handed, stock, messages, worker, changes>>

ReturnRead(q, r) ==
    /\ reception[r] = "RECEIVED" /\ handed[r] = "yes"
    /\ Starts(q, "return", r)

\* Mutant: the goods come back and the deposit is kept.
DepositKept(r) == deposit

DepositBack(r) == Refunded(r)

Return(q) ==
    LET r == Of(q) IN
    /\ Commits(q, "return")
    /\ CountsIf(Crossed(q))
    /\ stock + CountOf[r] <= MaxStock
    /\ stock' = stock + CountOf[r]
    /\ handed' = [handed EXCEPT ![r] = "returned"]
    /\ deposit' = DepositBack(r)
    /\ Ends(q)
    /\ UNCHANGED <<status, limits, reception, messages, worker, changes>>

\* The same route for the transaction of a deposit, without naming the reception:
\* checkReturnCart compares with undefined and does not find the cart that it refuses.
ReturnDepositRead(q, r) ==
    /\ deposit[r].paid = 1 /\ deposit[r].linked = 0
    /\ Starts(q, "return_deposit", r)

ReturnDeposit(q) ==
    LET r == Of(q) IN
    /\ Commits(q, "return_deposit")
    /\ CountsIf(TRUE)
    /\ stock + CountOf[r] <= MaxStock
    /\ stock' = stock + CountOf[r]
    /\ deposit' = Refunded(r)
    /\ Ends(q)
    /\ UNCHANGED <<status, limits, reception, handed, messages, worker, changes>>

-----------------------------------------------------------------------------
(* Other sales of the product, and its arrival.                            *)

SellRead(q) ==
    /\ MaySell
    /\ Starts(q, "sell", Nobody)

\* decreaseStock asks only whether there is one.
Sell(q) ==
    /\ Commits(q, "sell")
    /\ InStock(1)
    /\ CountsIf(Crossed(q))
    /\ stock' = stock - 1
    /\ Ends(q)
    /\ UNCHANGED <<status, limits, receptions, messages, worker, changes>>

Arrive ==
    /\ stock < MaxStock
    /\ stock' = stock + 1
    /\ UNCHANGED <<status, limits, receptions, request, seen, messages, worker, changes, slips>>

\* An error, or the process dies: nothing but a message that was sent remains.
Abort(q) ==
    /\ request[q] # Idle
    /\ Ends(q)
    /\ UNCHANGED <<status, limits, receptions, stock, messages, worker, changes, slips>>

-----------------------------------------------------------------------------
(* The worker of updateReservationStatus.                                  *)

Done == \A r \in Receptions : reception[r] \in {"none", "RECEIVED", "CANCELLED"}

\* A message that comes while a customer's transaction is still open, or when the
\* reservation has been opened again, is dealt with and comes no more.
WorkerRead ==
    /\ messages > 0 /\ worker = "idle"
    /\ IF status = "CLOSED" /\ Done
       THEN worker' = "finish" /\ UNCHANGED <<messages, slips>>
       ELSE /\ CountsIf(status # "CLOSED" \/ \E q \in Requests : request[q].pc = "told")
            /\ messages' = messages - 1
            /\ UNCHANGED worker
    /\ UNCHANGED <<status, limits, receptions, stock, request, seen, changes>>

WorkerFinish ==
    /\ worker = "finish"
    /\ CountsIf(status # "CLOSED" \/ ~Done)
    /\ status' = "FINISHED"
    /\ worker' = "idle"
    /\ messages' = messages - 1
    /\ UNCHANGED <<limits, receptions, stock, request, seen, changes>>

\* The message comes again.
WorkerDies ==
    /\ worker = "finish"
    /\ worker' = "idle"
    /\ UNCHANGED <<status, limits, receptions, stock, request, seen, messages, changes, slips>>

Requested(q) ==
    \/ PutRead(q) \/ SellRead(q)
    \/ \E r \in Receptions :
        \/ ReserveRead(q, r) \/ DepositRead(q, r) \/ ReceiveRead(q, r)
        \/ CancelRead(q, r) \/ ReturnRead(q, r) \/ ReturnDepositRead(q, r)
    \/ Put(q) \/ Reserve(q) \/ Deposit(q) \/ Receive(q) \/ ReceiveCommit(q)
    \/ Cancel(q) \/ Return(q) \/ ReturnDeposit(q) \/ Sell(q) \/ Abort(q)

Next ==
    \/ \E q \in Requests : Requested(q)
    \/ Arrive
    \/ WorkerRead \/ WorkerFinish \/ WorkerDies

Spec == Init /\ [][Next]_vars

\* The queue gives a message to the worker until it is dealt with, and the worker does
\* not die every time.
FairSpec == Spec /\ WF_vars(WorkerRead) /\ SF_vars(WorkerFinish)

-----------------------------------------------------------------------------
(* Properties.                                                             *)

\* No step promises more units than the reservation now allows, as a whole and to each
\* customer, whatever is created, cancelled and fetched, and though the limits may have
\* been set below what was promised before (getAvailableMargin is asked before the
\* transaction and counts nothing that is only CREATED).
LimitsKept ==
    [][slips' = 0 =>
        /\ Units(Effective') > Units(Effective) => Units(Effective') <= limits'.whole
        /\ \A r \in Receptions :
              LET promised == Units(EffectiveOf(CustomerOf[r])) IN
              promised' > promised => promised' <= limits'.each]_vars

\* The store holds a deposit exactly for what is promised or was fetched and kept, and
\* gives none back twice (returnDepositTransaction, with and without dontCancel).
DepositsFollowReceptions ==
    slips = 0 => \A r \in Receptions :
        LET held == deposit[r].paid - deposit[r].refunded IN
        CASE reception[r] \in {"none", "CREATED"} -> deposit[r].paid = 0
          [] reception[r] = "DEPOSITED" -> held = 1
          [] reception[r] = "RECEIVED" -> held = IF handed[r] = "returned" THEN 0 ELSE 1
          [] reception[r] = "CANCELLED" -> held \in 0..1

\* Once there is enough for all who have paid a deposit, it is kept for them until they
\* come or cancel, whoever else wants to buy (checkCart).
ReservedIsKept ==
    [][status = "CLOSED" /\ status' = "CLOSED" /\ stock >= Unreceived /\ slips' = 0
          => stock' >= Unreceived']_vars

Served ==
    /\ With({"RECEIVED"}) # {}
    /\ With({"none", "RECEIVED"}) = Receptions

\* When the last one has fetched the goods the reservation is finished, unless the worker
\* was too fast or the reservation is opened again (updateReservationStatus; a
\* cancellation does not tell the worker).
FinishesWhenServed ==
    (status = "CLOSED" /\ slips = 0 /\ Served) ~> status # "CLOSED" \/ slips > 0

\* A deposit is not given back while its reception goes on: it must be cancelled by name
\* (checkReturnCart).
RefundsAreExplicit ==
    \A r \in Receptions : reception[r] = "DEPOSITED" => deposit[r].refunded = 0

=============================================================================
