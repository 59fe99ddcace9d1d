------------------------------ MODULE Contract ------------------------------
(***************************************************************************)
(* The contracts of the corporations that use the POS: a customer pays the *)
(* initial fee, at once or after 3-D Secure, which starts the contract and *)
(* opens its accounts, and from its first day on a job charges the fee of  *)
(* each month to the same card.                                            *)
(*                                                                         *)
(* GMO is called inside a database transaction, so that a charge stays     *)
(* when the transaction is rolled back; the write of a callback and the    *)
(* activation are two transactions; the job is a message a day, which the  *)
(* queue hands out again when the worker fails.  Variable slips counts, up *)
(* to a bound, the charges that were rolled back and the steps of two      *)
(* actors that crossed.                                                    *)
(*                                                                         *)
(* A day is a number and stands for its midnight; the contracts here start *)
(* at midnight.  A contract that is never created stays "none".            *)
(***************************************************************************)
EXTENDS Integers, FiniteSets

CONSTANTS
    Contracts,
    Emails,    \* addresses that customers give for their account
    Tries,     \* payments of an initial fee
    Requests,  \* HTTP requests that may be in progress at one time
    Runs,      \* deliveries of the job's message that may be worked on at one time
    FirstDay,  \* the first day of each month, from month 1 on
    Starts,    \* days on which a contract may start
    LastDay,   \* bound: the day the model ends
    MaxSlips,  \* bound: see slips
    Nobody

Months == DOMAIN FirstDay

ASSUME ContractAssumption ==
    /\ IsFiniteSet(Months) /\ Months = 1..Cardinality(Months) /\ Cardinality(Months) > 3
    /\ LastDay < FirstDay[Cardinality(Months) - 2]
    /\ \A m \in Months : FirstDay[m] \in Nat /\ (m + 1 \in Months => FirstDay[m] < FirstDay[m + 1])
    /\ LastDay \in Nat /\ FirstDay[1] <= LastDay /\ Starts \subseteq FirstDay[1]..LastDay
    /\ MaxSlips \in Nat
    /\ Nobody \notin Contracts \cup Emails

MonthOf(day) ==
    CHOOSE m \in Months :
        FirstDay[m] <= day /\ (m + 1 \in Months => day < FirstDay[m + 1])

VARIABLES
    today,
    contract,  \* Contract: status, start_at, next_payment_at, email
    account,   \* whose contract an account with each e-mail belongs to
    initial,   \* Contract_Payment, INITIAL_FEE, and what GMO has of it
    paid,      \* Contract_Payment, MONTHLY_FEE: the months with one that is PAID
    charged,   \* GMO: how often it has collected the fee of each month
    request,   \* what each request is doing
    message,   \* whether the job's message waits
    run,       \* what each worker of the job is doing
    unasked,   \* the months that began while the last next payment was worked out
    slips      \* charges that were rolled back, and steps that crossed

vars == <<today, contract, account, initial, paid, charged, request, message, run, unasked, slips>>

Idle == [pc |-> "idle"]

Init ==
    /\ today = FirstDay[1]
    /\ contract = [k \in Contracts |->
                       [status |-> "none", start |-> 0, next |-> 0, email |-> Nobody]]
    /\ account = [e \in Emails |-> Nobody]
    /\ initial = [t \in Tries |-> [of |-> Nobody, row |-> "none", gmo |-> "none"]]
    /\ paid = [k \in Contracts |-> {}]
    /\ charged = [k \in Contracts |-> [m \in Months |-> 0]]
    /\ request = [q \in Requests |-> Idle]
    /\ message = FALSE
    /\ run = [r \in Runs |-> Idle]
    /\ unasked = [k \in Contracts |-> {}]
    /\ slips = 0

CountsIf(slip) == IF slip THEN slips < MaxSlips /\ slips' = slips + 1 ELSE UNCHANGED slips

Ends(q) == request' = [request EXCEPT ![q] = Idle]
At(q, pc) == request[q].pc = pc

jobs == <<message, run, unasked>>
fees == <<paid, charged>>

-----------------------------------------------------------------------------
(* POST /contract, and POST /contract/pay: the initial fee.                *)

Create(k) ==
    /\ contract[k].status = "none"
    /\ \E start \in Starts :
          /\ start > today
          /\ contract' = [contract EXCEPT ![k].status = "NOT_STARTED", ![k].start = start]
    /\ UNCHANGED <<today, account, initial, fees, request, jobs, slips>>

PayRead(q, k, e) ==
    /\ request[q] = Idle
    /\ contract[k].status = "NOT_STARTED"
    /\ contract[k].start > today
    /\ account[e] = Nobody
    /\ request' = [request EXCEPT ![q] = [pc |-> "pay", contract |-> k, email |-> e]]
    /\ UNCHANGED <<today, contract, account, initial, fees, jobs, slips>>

Fresh == {t \in Tries : initial[t].of = Nobody}

\* The e-mail of an account is unique.
MayOpen(e) == account[e] = Nobody

\* activate, with the e-mail that was written last.
Activated(k, e) ==
    /\ MayOpen(e)
    /\ contract' = [contract EXCEPT ![k].status = "STARTED", ![k].email = e,
                                    ![k].next = contract[k].start]
    /\ account' = [account EXCEPT ![e] = k]

\* GMO captures at once: all in one transaction.
PayCaptured(q) ==
    LET k == request[q].contract IN
    /\ At(q, "pay")
    /\ CountsIf(contract[k].status # "NOT_STARTED")
    /\ \E t \in Fresh :
          initial' = [initial EXCEPT ![t] = [of |-> k, row |-> "PAID", gmo |-> "captured"]]
    /\ Activated(k, request[q].email)
    /\ Ends(q)
    /\ UNCHANGED <<today, fees, jobs>>

PayRedirected(q) ==
    LET k == request[q].contract IN
    /\ At(q, "pay")
    /\ CountsIf(contract[k].status # "NOT_STARTED")
    /\ \E t \in Fresh :
          initial' = [initial EXCEPT ![t] = [of |-> k, row |-> "PENDING", gmo |-> "redirected"]]
    /\ contract' = [contract EXCEPT ![k].email = request[q].email]
    /\ Ends(q)
    /\ UNCHANGED <<today, account, fees, jobs>>

\* GMO captures, and then the transaction fails.
PayLost(q) ==
    LET k == request[q].contract IN
    /\ At(q, "pay")
    /\ CountsIf(TRUE)
    /\ \E t \in Fresh : initial' = [initial EXCEPT ![t] = [of |-> k, row |-> "none", gmo |-> "captured"]]
    /\ Ends(q)
    /\ UNCHANGED <<today, contract, account, fees, jobs>>

\* The customer finishes 3-D Secure at GMO.
CustomerFinishes(t) ==
    /\ initial[t].gmo = "redirected"
    /\ initial' = [initial EXCEPT ![t].gmo = "captured"]
    /\ UNCHANGED <<today, contract, account, fees, request, jobs, slips>>

-----------------------------------------------------------------------------
(* GET /contract/pay/callback, which a browser may call again.             *)

\* Mutant: that the customer is back is taken for a payment.
FinishedUnasked(t) == initial[t].row # "none"

\* The payment of the access id, and what GMO says of it.
Finished(t) == initial[t].row # "none" /\ initial[t].gmo = "captured"

CallbackRead(q, t) ==
    /\ request[q] = Idle
    /\ Finished(t)
    /\ request' = [request EXCEPT ![q] = [pc |-> "write", contract |-> initial[t].of, try |-> t]]
    /\ UNCHANGED <<today, contract, account, initial, fees, jobs, slips>>

CallbackWrite(q) ==
    /\ At(q, "write")
    /\ initial' = [initial EXCEPT ![request[q].try].row = "PAID"]
    /\ request' = [request EXCEPT ![q] = [pc |-> "activate", contract |-> request[q].contract]]
    /\ UNCHANGED <<today, contract, account, fees, jobs, slips>>

Activate(q) ==
    LET k == request[q].contract IN
    /\ At(q, "activate")
    /\ Activated(k, contract[k].email)
    /\ Ends(q)
    /\ UNCHANGED <<today, initial, fees, jobs, slips>>

\* GMO or the database refuses, or the process dies.
RequestFails(q) ==
    /\ request[q] # Idle
    /\ Ends(q)
    /\ UNCHANGED <<today, contract, account, initial, fees, jobs, slips>>

-----------------------------------------------------------------------------
(* The job payContractSubscription, once a day.                            *)

\* A day ends, and EventBridge sends the message of the next one, or fails to.
Tick ==
    /\ today < LastDay
    /\ today' = today + 1
    /\ message' \in {message, TRUE}
    /\ UNCHANGED <<contract, account, initial, fees, request, run, unasked, slips>>

Active == {r \in Runs : run[r] # Idle}

Targets ==
    {k \in Contracts : /\ contract[k].status = "STARTED"
                       /\ contract[k].start <= today
                       /\ contract[k].next = today}

\* The queue hands the message to a second worker while a first one is still at it.
Start(r) ==
    /\ message
    /\ run[r] = Idle
    /\ CountsIf(Active # {})
    /\ run' = [run EXCEPT ![r] = [pc |-> "next", todo |-> Targets]]
    /\ UNCHANGED <<today, contract, account, initial, fees, request, message, unasked>>

\* Mutant: a month that is paid is not skipped.
AllMonths(k, now) == {m \in Months : MonthOf(contract[k].start) <= m /\ m <= now}

\* getUnpaidMonths: from the month of the start to the one in which it was called.
UnpaidMonths(k, now) == {m \in Months \ paid[k] : MonthOf(contract[k].start) <= m /\ m <= now}

Take(r, k) ==
    /\ run[r].pc = "next"
    /\ k \in run[r].todo
    /\ run' = [run EXCEPT ![r] = [pc |-> "pay", todo |-> run[r].todo \ {k},
                                  contract |-> k, months |-> UnpaidMonths(k, MonthOf(today))]]
    /\ UNCHANGED <<today, contract, account, initial, fees, request, message, unasked, slips>>

\* The months in their order.
Charges(r, k, m) ==
    /\ run[r].pc = "pay"
    /\ k = run[r].contract
    /\ m \in run[r].months
    /\ \A n \in run[r].months : m <= n

FeeCaptured(r, k, m) ==
    /\ Charges(r, k, m)
    /\ charged' = [charged EXCEPT ![k][m] = @ + 1]
    /\ paid' = [paid EXCEPT ![k] = @ \cup {m}]
    /\ run' = [run EXCEPT ![r].months = @ \ {m}]
    /\ UNCHANGED <<today, contract, account, initial, request, message, unasked, slips>>

\* GMO would like to see the customer: the payment stays PENDING.
FeePending(r, k, m) ==
    /\ Charges(r, k, m)
    /\ run' = [run EXCEPT ![r].months = @ \ {m}]
    /\ UNCHANGED <<today, contract, account, initial, fees, request, message, unasked, slips>>

\* GMO captures, and then the transaction fails, and with it the worker.
FeeLost(r, k, m) ==
    /\ Charges(r, k, m)
    /\ CountsIf(TRUE)
    /\ charged' = [charged EXCEPT ![k][m] = @ + 1]
    /\ run' = [run EXCEPT ![r] = Idle]
    /\ message' \in BOOLEAN
    /\ UNCHANGED <<today, contract, account, initial, paid, request, unasked>>

DayOfMonth(day) == day - FirstDay[MonthOf(day)]
Length(m) == FirstDay[m + 1] - FirstDay[m]

\* The day of the contract in the next month.  When that month is too short the end of
\* the month after it is taken, 23:59:59.999, which the column rounds up to a midnight.
NextMonthly(k) ==
    LET next == MonthOf(today) + 1
        day == DayOfMonth(contract[k].start)
    IN IF day < Length(next) THEN FirstDay[next] + day ELSE FirstDay[next + 2]

\* Mutant: what could not be paid waits for the next month.
NextWithoutRetry(k, now) == NextMonthly(k)

\* Tomorrow, when something was still to be paid at the first reading of the clock.
NextPayment(k, now) == IF UnpaidMonths(k, now) # {} THEN today + 1 ELSE NextMonthly(k)

\* setNextPaymentMonth, which looks at the clock to ask what is unpaid.
CheckNext(r) ==
    /\ run[r].pc = "pay"
    /\ run[r].months = {}
    /\ run' = [run EXCEPT ![r] = [pc |-> "set", todo |-> run[r].todo,
                                  contract |-> run[r].contract, now |-> MonthOf(today)]]
    /\ UNCHANGED <<today, contract, account, initial, fees, request, message, unasked, slips>>

\* The payments have been read, and it looks at the clock again.  A payment that a second
\* worker records between the two could be missed, and is then looked for tomorrow.
SetNext(r) ==
    LET k == run[r].contract
        now == run[r].now
    IN
    /\ run[r].pc = "set"
    /\ contract' = [contract EXCEPT ![k].next = NextPayment(k, now)]
    /\ unasked' = [unasked EXCEPT
                      ![k] = IF UnpaidMonths(k, now) = {} THEN (now + 1)..MonthOf(today) ELSE {}]
    /\ run' = [run EXCEPT ![r] = [pc |-> "next", todo |-> run[r].todo]]
    /\ UNCHANGED <<today, account, initial, fees, request, message, slips>>

\* The deletion of the message may fail.
Done(r) ==
    /\ run[r].pc = "next"
    /\ run[r].todo = {}
    /\ run' = [run EXCEPT ![r] = Idle]
    /\ message' \in BOOLEAN
    /\ UNCHANGED <<today, contract, account, initial, fees, request, unasked, slips>>

\* GMO refuses a charge, which ends the whole run, or the worker dies: the message comes
\* back, or is given up.
RunFails(r) ==
    /\ run[r] # Idle
    /\ run' = [run EXCEPT ![r] = Idle]
    /\ message' \in BOOLEAN
    /\ UNCHANGED <<today, contract, account, initial, fees, request, unasked, slips>>

-----------------------------------------------------------------------------

Requested(q) ==
    \/ \E k \in Contracts, e \in Emails : PayRead(q, k, e)
    \/ \E t \in Tries : CallbackRead(q, t)
    \/ PayCaptured(q) \/ PayRedirected(q) \/ PayLost(q)
    \/ CallbackWrite(q) \/ Activate(q) \/ RequestFails(q)

Working(r) ==
    \/ Start(r) \/ CheckNext(r) \/ SetNext(r) \/ Done(r) \/ RunFails(r)
    \/ \E k \in Contracts : Take(r, k)
    \/ \E k \in Contracts, m \in Months :
          FeeCaptured(r, k, m) \/ FeePending(r, k, m) \/ FeeLost(r, k, m)

Next ==
    \/ Tick
    \/ \E k \in Contracts : Create(k)
    \/ \E t \in Tries : CustomerFinishes(t)
    \/ \E q \in Requests : Requested(q)
    \/ \E r \in Runs : Working(r)

Spec == Init /\ [][Next]_vars

-----------------------------------------------------------------------------
(* Properties.                                                             *)

\* The card is charged once for a month, and exactly for the months that are on record
\* as paid, however often the job fails half-way and is run again (getUnpaidMonths).
FeeOncePerMonth ==
    slips = 0 =>
        \A k \in Contracts, m \in Months : charged[k][m] = IF m \in paid[k] THEN 1 ELSE 0

AccountsOf(k) == {e \in Emails : account[e] = k}

\* A contract is started once, with one account of its own, and only when GMO has
\* collected the initial fee, whichever of its payments and callbacks come first, and
\* also if another contract asks for the same e-mail (pay, callback, activate).
StartedOncePaid ==
    slips = 0 =>
        \A k \in Contracts :
            /\ Cardinality(AccountsOf(k)) = IF contract[k].status = "STARTED" THEN 1 ELSE 0
            /\ contract[k].status = "STARTED" =>
                  \E t \in Tries : initial[t] = [of |-> k, row |-> "PAID", gmo |-> "captured"]

\* The day on which a month's fee is due.
Due(k, m) == FirstDay[m] + DayOfMonth(contract[k].start)

\* Every month from the start to m has the day of the contract.
FitsUntil(k, m) ==
    \A n \in MonthOf(contract[k].start)..m : DayOfMonth(contract[k].start) < Length(n)

\* No month of a started contract is forgotten: as long as its next payment is not in the
\* past it is not later than the day on which the first unpaid month is due, or tomorrow
\* if that has passed (setNextPaymentMonth, activate).  The only months left out are those
\* that begin between the two readings of the clock in setNextPaymentMonth, which wait for
\* the month after; and all from the first that does not have the contract's day.
NoMonthIsForgotten ==
    \A k \in Contracts :
        contract[k].status = "STARTED" /\ contract[k].next >= today =>
            \A m \in MonthOf(contract[k].start)..MonthOf(today) + 1 :
                \/ m \in paid[k] \cup unasked[k] \/ ~FitsUntil(k, m)
                \/ contract[k].next <= Due(k, m) \/ contract[k].next <= today + 1

=============================================================================
