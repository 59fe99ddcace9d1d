# Mycalinks POS and EC: a verification project

Mycalinks is the back end of card shops: the point of sale of each store, an EC mall that sells what the
stores have on their shelves, and connections to two external shop services (Ochanoko and Shopify). It is a
TypeScript monorepo over Prisma and MySQL, with workers fed by SQS FIFO queues.

These TLA+ modules model the parts in which several actors change the same rows, and in which something may
fail, come late or come twice. TLC checks them on small instances; TLAPS proves some of the properties for
every value of the constants. Paths are relative to the repository; `PM` is
`packages/backend-core/src/services/internal/product/main.ts`.

## 1. Inventory

| Component | State it keeps | Operations | Hard because |
|---|---|---|---|
| Product stock and EC listing (PM, product routes, product worker) | `Product.stock_number`, `ec_stock_number`, reserve, flags; both histories | `increaseStock`, `decreaseStock`, `increaseEcStock`, `decreaseEcStock`, `enableEc`, `recalculateEcStockNumber`, `publishEcStockToMaximum`, `update`, `delete` | rows are read before they are locked; a nested call moves the other number |
| EC order (`services/internal/ec/order`, `ec/payment`, the order routes, `workers/ec-order`) | order, carts per store, payments, timers, charges at GMO | cart, pay, 3-D Secure callback, cash webhook, payment timeout, a store's ship, complete, cancel, shortage | checks before transactions, calls of GMO inside them, timers against payments |
| Task queue (`packages/backend-core/src/task`) | `Task`, `Task_Item`, SQS messages | `publish`, `subscribe`, `processItems` | crashes between two writes, redelivery, late workers |
| Outbox service (`backend-services/outbox`) | outbox rows | poll, push, delete | crash between push and delete, deduplication |
| External EC sites (`workers/external-ec`, `services/internal/ochanoko`, `shopify`) | what the site shows, its orders | stock update, order, shipped | absolute numbers against concurrent sales, redelivered orders |
| Cost records (`product/wholesalePrice`) | what each unit on the shelf has cost, and the units of each sale and delivery; the product's average | `increaseStock` and `decreaseStock` add, take and give back records; stocktaking names a price later; the average is calculated after the commit | splitting and averaging whole yen, giving back what was taken, a calculation that a crash leaves out |
| POS transaction and points (`services/internal/transaction`, `customer`, their routes, the Square webhook, `workers/transaction`) | transaction, carts, payment, points of the customer, cash of the drawer, checkouts and refunds at Square | draft, pay in cash or at the terminal, wait, cancel, return, payment timeout, `payment.updated`, `terminal.checkout.updated`, `refund.updated` | four actors may learn how a payment ends, and none writes the status under a condition |
| Register | drawer, cash history | open, close, deposit, withdraw, reset | totals against histories |
| Reservation (`services/internal/reservation`, its routes, `workers/scheduled`) | status of the reservation, receptions, their deposits and sales | open, close, receive a reception, take its deposit, hand over, cancel, return, finish | limits and reserved units are checked before the transaction; the worker is told before the commit |
| Contract (`services/internal/contract`, `api/contract`, `workers/scheduled`) | status, start and next payment of a contract, its payments, its account; charges at GMO | create, pay the initial fee, callback, activate, the daily job | charges inside transactions that may fail, a job that is run again half-way, month-ends |
| Store shipment, consignment, loss, pack opening | documents over stock | create, apply, roll back | partial roll back |
| Sales, set deals, bundles, departments | prices, bundles' stock | switch by date, create and release a bundle | bundle members move together |
| Item master, CSV, ETL; shipping methods | master data | import, export, look up | no protocol |
| Service base and Prisma (`services/internal/main.ts`, `db/prisma.ts`) | open transaction, after-commit calls | `transaction`, `safeTransaction` | the atomicity the others rely on |
| Network clients, notification worker, daily jobs, front end, webhooks | none of their own | send, show, parse | input and output |

How they interact: a web request runs a service inside `transaction`; every service of the request shares
the client (`give`). Stock is moved only by PM, which EC orders, POS transactions, receptions of a
reservation and all documents call; it also keeps the cost records. `createPayment` calls GMO and sends a
delayed `paymentTimeout` task; GMO answers by redirect (callback) and by webhook. A change of the EC stock
of a product linked to an external shop writes an outbox row in its transaction; the outbox service turns
rows into tasks, and the external EC worker sends them to the shop. The shop's orders arrive by mail or
webhook as tasks.

What makes each of them correct: no more is listed than in stock and no reserved unit is sold (stock); the
stock an order holds, the money it collected and its status agree (order); items are processed, once where
possible, and a task ends (queue); the shop shows what is listed (outbox, sites); records of cost account
for the units and their value (cost records); a transaction's stock, cash and points move together, and what
is paid is sold (POS); no more is promised than the limits and what is promised is kept (reservation).
`PROJECT.json` lists every hazard with its line and the properties that watch it.

## 2. What is modelled

### ProductStock (with MCProductStock, ProductStockProofs)

One store's products and concurrent requests. `product` is the table; `stockLedger` and `ecLedger` are the
sums and last results of the two histories; `sold` is what orders may still return. A request goes through
`Start` (the store's settings are cached; only `Managers` change the reserve of a product), `Load` (the row
is read without a lock, and the checks that only look at it are made) and one commit action per operation,
atomic because its first UPDATE locks the row. The nested calls are part of the action: `EcSell` is
`decreaseEcStock` with the `decreaseStock` it calls, `Increase` is `increaseStock` with its listing, and so
on. `enableEc` outside a transaction is two steps (`Enable`, `Recalculate`), as in the code. `Abort` is an
error, a deadlock's victim or a crash. A product of an infinite item starts with what its column holds
(`InfiniteStock`: 1 when it is created, PM:2623); its stock is not counted, but EC sells and returns it, and
what EC has sold of it nobody lists again. Fields other than the numbers, the reserve and the flags are left
out.

### EcOrder (with MCEcOrder, EcOrderProofs)

One order, one product per store. Every handler reads first (`UpsertRead`, `PayRead`, `CallbackRead`,
`TimeoutRead`, `StoreRead`) and writes later. `CompletePayment` and `PayOrder` are the two unordered writes
of `Promise.all`, outside any transaction. `StoreOpen` and `StoreRefund` are the two ends of a refund's
transaction, between which its cart is locked and the order's total is already read. GMO is modelled from
its use: what it was asked, what the customer paid (`CustomerPays`, at any time, also late), what it kept.
`PayFails` and `RefundFails` are commits that fail after GMO was called. A message of the timer is delivered
at most `MaxDeliveries` times to a worker that sets about it (`deliveries`); then the queue has given it up.
Unit prices are 1; an order's product is the one of ProductStock reduced to what EC may sell.

### TaskQueue (with MCTaskQueue, TaskPromise, TaskQueueProofs)

One task with rows. `Push` is the loop of `publish`, `PublisherStops` its failure in the middle. A worker's
step is one database statement: `Read`, `Start`, then per item `Skip`, or `Apply` (the callback's own
transaction) and `Record`, then `Count`, `Finish`, `Clear`, `Delete`. `ItemFails`, `RecordFails`,
`StepFails` lead to the catch (`Failed`, `Errored`). `queue`, `holder`, `received`, `Expire` and `Drop`
model SQS FIFO from its use: one message of a group at a time, visible again when it is not deleted in time,
given up after `MaxReceives` deliveries (three: `admin.prisma` says the message is deleted at the third
error; the redrive policy itself is not in the repository). `losses` counts crashes, failed writes and
messages that come back while their worker is still at them.

TaskPromise is the abstract specification: chunks are accepted, their items are processed, and a chunk is
settled when all its items are, or is given up; no chunk stays open. TaskQueue implements it by the mapping
`Promise`: open is what is in the queue, settled what the workers deleted (`Handled`), lost what the queue
dropped, done what was applied at least once. Workers, rows, statuses, deliveries and errors are stutters of
it.

### ExternalEc (with MCExternalEc, ExternalEcProofs)

The number EC lists of each product (`listed`, ProductStock reduced to it), the outbox rows, the polling
service (`Poll`, `Push`, `Discard`, `DeleteRows`, `PollerStops`), the two message groups of a store and a
shop, the workers and the shop. `Push` and `Discard` are the two answers of SQS: `sendTask` uses the hash of
group and body as deduplication id, so that a body equal to one of the last five minutes is dropped; time is
abstracted, any earlier equal body may do it. `TakeOrder` is the transaction of an `ordered` message, of one
unit. `NotDeleted` is a message that was handled and stays: `deleteMessage` threw, which is only logged
(`task/main.ts:291`), or the worker died before it; `undeleted` counts them. It is assumed that a bulk
request of the shop's API that names a product twice leaves the last number: that is outside the repository.
`told`, `accepted` and `lost` are history variables: the number of each product that the queue accepted
last, the rows it accepted of those that are still there, and whether a message was given up or a batch was
deleted of which something was discarded that was no repetition (`IsTold`: the queue has accepted every row
of the batch, and its last numbers are the batch's).

Not modelled in it: the shipped and failed mails, prices, products that are not linked (whose orders are
ignored), and the groups of other stores and of the second shop, which share nothing.

### PosTransaction (with MCPosTransaction, PosTransactionProofs)

Transactions at the counter of one store about one product, each a sale or a purchase of some units, paid in
cash, at a Square terminal, or by what is only recorded ("bank", of which a purchase may be paid in cash in
part), with points earned and used. A product of a special price is deleted with its last unit (`Deleted`),
and then no unit comes back to it (`CanReturn`: PM:204 looks for a row that is not deleted). `sale` is the
transaction with its payment and its cart (`carts` is the request that wrote the carts last, because
`consumeProducts` updates the carts it created), `back` the return transactions linked to it. A request goes
through the steps of its route (`pc`):

- `POST /transaction`: `New` or `ResumeRead` and `Reopen` (the draft), `LeaveAsDraft`, `PayAtOnce`, or
  `AskTerminal` and `Commit`, which are the two ends of the transaction that calls Square; then
  `Watch`/`Misses`, `Paid`, `WaitEnds` (`waitForPayment`), and the catch of the route: `Reread`, `Undo`,
  `Clean`; `Finish`.
- cancel: `CancelRead`, `Cancel`. Return: `ReturnRead`, `ReturnCreate`, `GiveBack`, or `AskRefund`,
  `RefundUpdated`, `RefundCommit` around Square, and `ReturnFails`.
- the worker: `TimeoutRead`, `TimeoutCommit`, `TimeoutFails`, `WorkerDies`; `timer` is its message, which is
  delivered `MaxDeliveries` times (`deliveries`) and then given up.
- Square: `CustomerPays`, `CheckoutEnds`, `RefundDone`, and its webhook `PaymentUpdated`, `Complete` (two
  statements; `answered` says that Square got its 200 and need not call again), `CheckoutCanceled`, `Drop`.

None of the UPDATEs of the status has a condition, so two of these that have both read "paying" both act.
The model has all of that; `slips` counts, up to `MaxSlips`, the steps that act on what is no longer so or
that leave Square undone. Properties about goods, points and statuses hold while `slips = 0`; those about
the drawer, the timeout and (until Square was answered) paid checkouts hold with slips too. Section 6 lists
what the slips show.

Left out: prices, taxes, discounts, set deals; several goods (one transaction moves all of its carts); the
later change of a transaction (PUT), section 6; the receipts.

### Reservation (with MCReservation, ReservationProofs)

One reservation, receptions of its customers, and other sales of the product. `Put` sets any status, also
back to NOT_STARTED, and its limits too when it has read a reservation that has not started (`limits`).
Requests read (`ReserveRead`, `DepositRead`, `CancelRead`, ...: the checks of `checkCart`, `checkReturnCart`
and `getAvailableMargin`) and commit later; `seen` is what the checks looked at, and `slips` counts the
commits for which that is no longer so. Of these checks the UPDATE repeats only the status of the reception
that is paid for or fetched, which are guards of `Deposit` and `Receive`. `Receive` is the point at which
the row is locked and the worker told, `ReceiveCommit` the commit. `WorkerRead`, `WorkerFinish` and
`WorkerDies` are `updateReservationStatus`. `Sell` is any other sale of a unit, `Arrive` any arrival.
`ReturnDeposit` is the return of the deposit's transaction without naming the reception, which is always
counted as a slip. A deposit is 1 for a unit; what a reception costs when it is fetched belongs to
PosTransaction. Left out: the deletion of a reservation that has not started, or was set back, which deletes
its receptions with it (section 6).

### CostRecords (with MCCostRecords, CostRecordsProofs)

What each unit of one product has cost. The rows of a place (the shelf, a sale, a delivery) are modelled as
the bag of its units, each with price and time of arrival: how many rows they are kept in is not observable
but in their order, which is the one of `getRecords` (`NotAfter`, `Takings`; units of equal rank in any
order). `Averaged` and `Shares` are `adjustDivide`, `WithRecords` is `setRecords`, `Filled` what
`generateRecords` adds. An operation is one step because the transaction it is part of has locked the
product's row in ProductStock. Only `updateRecord` locks no product: the price that `UpdateRecord` gives is
first in `given`, where whoever has read the records before does not see it. `Landed` says what becomes of
it: a record that is only counted down, or not touched, keeps its price; one that is moved, or deleted and
written again as part of an average, is written with what was read, and the price is lost (`Lost`,
`crossed`). `UpdateAgain` is a second stocktaking that had read the record too, `Settle` the end of
everybody who had. One such price is given at a time. The transactions see each other's commits
(`db/prisma.ts:142`, READ COMMITTED). `Recalculate` is the raw UPDATE after the commit, `Die` a process that
dies in between. `paid` and `gone` are history variables. Losses and shipments take records as `Sell` does
and give them back as `Return` does.

Left out: `is_exact`, specimen products and the products made of opened packs or bundles (their cost is
divided by `adjustDivide` too, which is `Shares`), and roll-backs of opened packs.

### Contract (with MCContract, ContractProofs)

The contracts of the corporations that use the POS. A request reads (`PayRead`: the contract has not been
started, the e-mail is free) and pays in one transaction: `PayCaptured` activates at once, `PayRedirected`
waits for 3-D Secure, `PayLost` is a transaction that fails after GMO has captured. `CallbackRead` asks GMO,
`CallbackWrite` sets the payment to PAID, and `Activate` is a transaction of its own; its guard is the
unique e-mail of an account, which is all that keeps a second callback from activating again. The job is a
message (`Tick` sends it once a day, or fails to): `Start` reads the contracts that are due, `Take` computes
the unpaid months of one, each month is a transaction (`FeeCaptured`, `FeePending`, `FeeLost`), `CheckNext`
and `SetNext` are the two readings of the clock between which the payments are read (KM:123, KM:74) and
write the next day, `Done` and `RunFails` end the run and may leave the message in the queue. A day is a
number; months are given by their first days, so that they can be short. `slips` counts charges that were
rolled back, payments of a contract that was started since it was read, and deliveries that overlap.
`unasked` is a history variable: the months that began between the two readings when the next day was set
last.

Left out: the corporation and its one card, the shop that the activation opens, the link's expiry, contracts
that do not start at midnight (section 6), mails.

## 3. The runs

Bounds are small because every hazard listed is a race of two or three actors over one or two rows; the
counts are chosen so that every limit is met (a stock that is used up, a chunk that is not full, a last
delivery).

| Run | Shows |
|---|---|
| StockShared | Two requests, one special price product (deleted when sold out), every operation, the store's reserve changing between 0 and 1, stock up to 2. `EcBackedByStock`: whatever stale row or setting a request used, no more is listed than is there. `LedgersAgree`: both histories add up to the row and end with its number. |
| StockListing | Two requests, a finite and an infinite product, a fixed store reserve of 1 (so that the reserve binds), stock up to 2; one of the two requests may change the reserve of a product. `NeverUnderListed`: all that the reserve allows of the finite product is listed. `EcSaleLeavesReserve`: an EC sale leaves the reserved units, unless a return had over-listed before. Two requests that change reserves, a change of the store's and EC switched on outside a transaction are not in this run: with them the listing does lag (section 6). |
| OrderTimeouts | A customer, two stores, one of which sells a product that is deleted when sold out, two workers with timeout messages that come up to three times and late, all payment methods, commits that fail. `StockFollowsOrder`: the order holds its units exactly while it can be paid. `OnePaymentIsOpen`. `UnpaidIsResolved` (liveness): an unpaid order does not stay so, unless every delivery of its timer has failed. The answer of GMO is not in this run: against it the property fails (OrderPaidAfterTimeout). |
| OrderFulfilment | The customer's return from 3-D Secure and two stores, one employee each, that ship, cancel and report shortages while the payment is being confirmed, with failing commits; one store sells a product that is deleted when sold out. Units, refunds and prices stay consistent, a shipped cart is final, and no order is paid, no payment COMPLETED and no cart shipped without collected money (`MoneyIsCollected`). Two employees of one store are not in it (section 6). |
| TaskRetries | Two workers, three items in chunks of two (the second chunk is not full), three deliveries, two losses. `NoItemIsLost` and `KeepsPromise` (the refinement of TaskPromise with its fairness) hold with losses. `OncePerItem`, `FinishedIsComplete` and `TaskEnds` (liveness) hold without. |
| ShopInStep | One product, four changes of it and one order of the shop, rows in chunks of two, two workers (one per message group), two deliveries, one failure (the outbox service stops, or a message is handled and not deleted). `ShopInStep`: when nothing is under way the shop shows what is listed, unless a message was lost. `ShopCatchesUp` (liveness): it gets there. `UndeletedIsTakenAgain`: failures and retries take an order's unit once, and once more at most for a message that was not deleted. |
| PosSales | One transaction, two clerks (the first begins it) who may resume, cancel and return, Square's webhook and the worker; one slip. It is a sale at the terminal with points, one of all there is, one in cash, or a purchase by bank in part in cash. The shelf has two units of a special price product and the customer one point, so that both run out. Goods and points follow the status, a return is made once, a transaction that has ended stays so, all while nothing crosses; `DrawerFollowsPayments` even then. `PayingEnds` (liveness): the goods are not held for ever, unless the worker's message has failed three times. `PaidIsCompleted` (liveness): what was paid at the terminal is completed, and only a slip after Square was answered undoes it. |
| Reservations | Three receptions of two customers, of 1, 2 and 2 units, with limits 2 or 3 and 2, so that each limit refuses one; two clerks, two units on the shelf, three changes of the status (any one, also back to NOT_STARTED) or of the limits; one slip. `LimitsKept` (an action property: no step promises more than the limits then in force, which may be set below what was promised before), `DepositsFollowReceptions`, `ReservedIsKept` (an action property: a sale never takes what is kept for a deposit) and `FinishesWhenServed` (liveness). |
| Costs | Two units, one sale and one delivery, prices 0 and 3, so that an average of two leaves a remainder, every setting and its change in the middle. A price may be given later, one at a time, while another transaction is under way. `RecordsCoverStock`, `ValueIsKept` (the average hands out each yen once; a price given to a record that somebody then moves or averages is excepted), `AveragesFollow`. |
| Contracts | Two contracts, two e-mail addresses, two payments of an initial fee, two requests and two deliveries of the job at a time; months of two, two and one day, contracts that start on the second day, so that one month is due, one is late and one lacks the day; one slip. `FeeOncePerMonth` and `StartedOncePaid` hold without slips, `NoMonthIsForgotten` with them; it excepts a month that begins between the two readings of the clock. |
| OrderPaidAfterTimeout, DepositReturned | Violations, section 6. |

`CHECK_DEADLOCK FALSE` is set where the bounded system may come to rest: all counters used up.

Named bounds: `MaxStock`; `Payments` (attempts to pay), `MaxDrafts`, `MaxDeliveries` (no bound of the model
but the queue's three, 1 where nothing depends on it); `MaxReceives`, `MaxLosses`; `MaxListed`,
`MaxChanges`, `MaxFailures` (stops of the outbox service and messages that are not deleted), `MaxLate`;
`MaxSlips` and `MaxSpent` (points the customer spends elsewhere); `MaxChanges` of a reservation by an
employee; in CostRecords `MaxStock` (units in one place), `MaxPaid` (what they cost in all), `MaxClock`,
`MaxPending`; in Contract `LastDay` and `MaxSlips`. One slip is enough to reach every branch that only a
crossing reaches: each of these branches is the answer to one step of one other actor. `MaxLate` is 0 in
ShopInStep: its properties say nothing of a worker that is still at a message that was given to another one,
and such a worker can overwrite the shop's number with an older one (section 6).

### Fairness

- EcOrder: the queue delivers a timeout message while it may (`WF` of `TimeoutRead`), and a worker that has
  set about it ends, with or without success (`WF` of `TimeoutEnds`). That it succeeds is not assumed:
  `UnpaidIsResolved` excepts an order all of whose timer's deliveries have failed (`GivenUp`). Customers,
  stores and GMO are not fair.
- TaskQueue: SQS makes a held message visible (`Expire`) or gives it up (`Drop`), and a worker goes on with
  what it does. Errors, losses and the publisher are not fair: `TaskEnds` speaks of tasks that were pushed
  as a whole.
- ExternalEc: the outbox service polls in an endless loop that swallows errors and is restarted when it
  stops; its stops and the failed deletes are bounded (`MaxFailures`), so weak fairness of `Poll`, of the
  push and of the delete is enough. Workers and queue as in TaskQueue. Changes and orders are not fair.
- PosTransaction: the worker's message is delivered while it may be (`WF` of `TimeoutRead`) and the worker
  commits, fails or dies (`WF` of `TimeoutEnds`); nothing is assumed of its success. A transaction that is
  open commits or, as a message that fails, ends (`WF` of `Commit`, `RefundUpdated`, `RefundCommit`); Square
  carries out a refund (`WF` of `RefundDone`) and calls its webhook until that has answered, and not longer
  (`SF` of `~answered[t] /\ PaymentUpdated(q, t)` and of `Complete`). Clerks and customers are not fair.
- Reservation: the message is delivered until it is dealt with (`WF` of `WorkerRead`), and the worker does
  not die every time (`SF` of `WorkerFinish`).
- CostRecords and Contract have no liveness property: the calculation of one is lost for good when the
  process dies, and so is the charge of the other when a day is passed over.

## 4. What is proved

`ProductStockProofs`, for any products, requests, operations, settings and counts, from the assumption
`StockAssumption` alone:

- `TypeCorrect`: `Spec => []TypeOK`, in which both stock numbers are naturals: nothing is ever negative.
- `ListingIsBacked`: `Spec => []EcBackedByStock`.

`EcBackedByStock` is not inductive: a step reads `setting` and `snap`, whose types depend on the phase, and
an infinite or unavailable product obeys another rule. `StockInv` is the strengthening: `RowsOK` (types,
listing backed by stock, nothing listed of a product that EC does not sell), `AccountsOK` (types of
histories, sold units and reserve) and `RequestsOK` (a request beyond `Load` has a row, one that is not idle
has a job, one in phase "enabled" is an enable). Each operation has its lemma (`IncreaseKeeps`,
`DecreaseKeeps`, ...), which rest on lemmas about the helpers: what a margin is bounded by (`MarginInt`),
and that a listing or delisting which passed the check of the row *after* the UPDATE leaves it backed
(`IncreaseBacked`, `RelistBacked`). That check is why a stale margin does no harm.

The second part of `ProductStockProofs`, on top of `StockInv`:

- `HistoriesAccount`: `Spec => []LedgersAgree`.

`LedgersAgree` with the types of `StockInv` is inductive: whether a step is allowed does not matter, only
that it posts what it adds. `Moves` says what a row gained between two points of an operation
(`ListMoreMoves`, `StockMoves`, `FlagsMoveNothing`, added up by `MovesAdd`), `Balanced` that a history
agrees with a number, and `PostBalances` that posting keeps it so; `Posted` and `PostedListing` put these
together and each operation (`IncreaseAccounts`, `UpdateAccounts`, ...) shows that it is a case of one of
them. `Update` makes three movements in one transaction.

The third part is about what the reserve allows:

- `NothingStaysUnlisted`: `Spec => []NeverUnderListed`, under `QuietReserves`.
- `SalesLeaveReserve`: `Spec => EcSaleLeavesReserve`, with no hypothesis.

`QuietReserves` is what the run StockListing checks too: the store's reserve does not change, one request at
a time changes the reserve of a product, EC is not switched on outside a transaction, and no update switches
EC on and also changes the reserve or asks to recalculate. The code does not promise the first three
(section 6: the listing lags behind a reserve that changes). The last came out of the proof: such an update
recalculates twice from the same row and takes a negative margin off the listing twice. The only caller that
asks to recalculate (`web-app/src/app/api/store/[store_id]/route.ts:390`) sends nothing but the product's id
with it; but one PUT of a product may both enable EC and change the reserve (section 6). `ListingInv` is the
invariant: what a request cached of the store is the store's, the reserve that a manager has read is still
the product's (`ManagersOK`), and the margin of a counted product that EC sells is not positive. An infinite
product is excepted, because nothing is listed again after EC has sold it. `MarginShifts` and
`StockAddsMargin` say how far a margin can follow a row, and each operation has its lemma (`IncreaseLists`,
`EcSellLists`, ...). `SalesLeaveReserve` needs no more than the types: a sale takes no more than its locked
row lists, and what is listed is above the reserve.

`TaskQueueProofs`, for any workers, items, chunk size and number of losses, from `TaskAssumption`:

- `TaskTypeCorrect`: `Spec => []TypeOK`, with the position of each worker inside its chunk.
- `NoItemIsEverLost`: `Spec => []NoItemIsLost`.
- `TaskQueueKeepsPromise`: `Spec => Promise!Spec`: every step of publisher, queue and workers is a step of
  TaskPromise or a stutter of it, under the mapping.
- `ItemsAreDoneOnce`: `Spec => []OncePerItem`.
- `FinishedTasksAreComplete`: `Spec => []FinishedIsComplete`.

`TaskInv` adds to these `RecordsOK` (an item marked FINISHED was processed, in the table and in what a
worker has seen), `WorkersOK` (every item of its chunk that a worker has passed was processed) and
`HolderOK` (a holder's message is the first of the queue and is the chunk that the worker, unless idle, is
at). The arithmetic of chunks (`Division`, `ChunkBounds`, `ItemInChunk`) is proved from the definition of
`\div`.

`TaskInv` does not say that a deleted message cannot come again, without which `Delete` would not settle its
chunk. `MessagesInv` adds `OrderOK` (messages are in the order of their chunks, and nothing follows that was
not pushed), `DroppedOK` (what was dropped is before everything that is queued) and `ReceivedOK` (only what
was pushed was received, and a worker's chunk was). Each action then has a lemma that names the abstract
step it takes (`PushAccepts`, `DropGivesUp`, `DeleteSettles`, `ApplyProcesses`) or that it is a stutter
(`ReceiveIsStutter`, `WorkIsStutter`). The fairness of the promise is checked by TLC only (`KeepsPromise`).

The last two theorems are about what happens while nothing is lost. `OnceInv` adds to `MessagesInv` that no
message is left out (`KnownOK`: of every chunk before one that was pushed something is known) and, while
`losses = 0`, `Undisturbed`: a worker that is at work holds the message (`Alone`), the `Task` row counts no
more messages than have gone (`Counted`), what a worker has read of the items before it is still so
(`SeesOK`), an item whose callback has committed says so in its row or will with the worker's next statement
(`OnceOK`), and the last message is counted only when every item is done (`EndOK`). Both fail with one loss,
as the code does (section 6).

`PosTransactionProofs`, for any sales, baskets, requests, timers and bounds, from `PosAssumption` (requests
and sales are finite sets, because links are counted):

- `PosTypeCorrect`: `Spec => []TypeOK`: no handler takes more than there is, and no return undoes a link
  that it does not hold.
- `SalesAreReturnedOnce`: `Spec => []ReturnedOnce`.
- `EndedSalesStayEnded`: `Spec => EndedStaysEnded`.
- `DrawerIsAccounted`: `Spec => []DrawerFollowsPayments`, with slips too.
- `GoodsAndPointsAreAccounted`: `Spec => []GoodsAndPointsFollowSales`.

`PosInv` is the strengthening. Its first part always holds: `KnownOK` (a request that is at work is at a
transaction that exists and has a basket) and `LinksOK` (a transaction has at least as many links as there
are requests between creating a return and completing it, so that the decrement of `ReturnFails` stays a
natural). Its second part holds while `slips = 0`: `SeenAt` (what a request has read at each step is what
its route lets through), `MoneyAt` (a payment is there only of a transaction that is completed, or that the
webhook is about to complete) and `ReturnsOK` (a return that is under way is the only one of its sale).
Neither `ReturnedOnce` nor `EndedStaysEnded` follows without these: a step acts on a status read earlier,
and only the count of the slips says that it is still so. Each handler has its lemma (`CommitKeeps`,
`DropKeeps`, `ReturnFailsKeeps`, ...), which rests on frame lemmas: `StepKeeps` and `ReturnsStay` say what a
step that moves one request at one transaction need not look at, `StatusMoves` what a change of status
needs, and `LeavesReturn` and `HoldsLink` count the returners. `EndedStaysEnded` follows handler by handler
from `SeenAt` (`PaymentKeepsEnded`, `GivingUpKeepsEnded`).

The last two are about sums over all transactions. `LedgerInv` is both with `LinkedOK` (while nothing slips
only what is completed is being returned). Every step either `Settles(t)`, which means that it moves drawer,
shelf and points by what it changes of one transaction `t`, or moves none of them (`SettlesNone`). Requests
that cross can bring goods back twice, but the drawer never differs from the payments and refunds on record.

`EcOrderProofs`, for any stores, stock, quantities, methods, payments and requests, from `OrderAssumption`:

- `GoodsArePaidFor`: `Spec => []MoneyIsCollected`, which says it of orders and carts (`PaidIsCollected`) and
  of payment rows (`CompletedIsCollected`).

The code never asks again whether an order is still unpaid when it writes PAID, and this holds all the same:
`WorkAt` says that a callback that is under way is of a payment that GMO has received, and that a store
which is about to ship has read a paid order, and `MoneyStays` that no step takes back what was collected,
so that a request may be as late as it likes.

Four more hold of who may be at work, which the theorems say as hypotheses about `Allowed`:

- `WhatIsShippedStays`: `Spec => ShippedIsFinal`, with `OneCustomerRequest` and `OneEmployee`.
- `OnePaymentAtATime`: `Spec => []OnePaymentIsOpen`, with `OneCustomerRequest` and no callback.
- `UnitsFollowTheOrder`: `Spec => []StockFollowsOrder`, and
- `RefundsAddUpToTheOrder`: `Spec => []RefundsAddUp`, with `OneCustomerRequest`, `OneEmployee`, and `ByCard`
  or `BeforeStores`.

The hypotheses are there because the code does not guarantee what they exclude. Two tabs of the customer can
rewrite and pay the same draft, and of two callbacks (or a callback and a webhook) that have both found the
order unpaid the second sets carts back to PREPARE_FOR_SHIPPING that the stores may have shipped after the
first: so the customer's pages, callbacks and webhooks come one at a time (`OneCustomerRequest`), however
many there are and however late; two employees of a store can ship and cancel the same cart (`OneEmployee`);
a callback writes the payment and the order in two statements, so that between them an unpaid order has no
open payment; and a callback or a timer sets all carts to one status, those too that a store has canceled
meanwhile. So the last two are about an order that is paid by card or on delivery without a timer
(`ByCard`), or on which no store and no callback is at work yet (`BeforeStores`). They are the instances of
OrderFulfilment and OrderTimeouts, for any number of stores, timers and workers. `BaseInv` has the types of
rows and requests, `PaidIsLast` says that the customer's pages and callback have an order before them that
is not paid, and that only a paid order's cart is shipped, `NotShipped` that a store which is at its cart
finds it not shipped, `OneOpen` that an unpaid order's payment is the one in `PAYING`; `Goods` is `GoodsOK`
(at each step a request takes the units of carts that are as it read them) with the two properties, which
need each other. They are stated cart by cart, so they do without the order's total, the sum over the carts,
which RefundsAddUp does not mention.

`ReservationProofs`, for any receptions, counts, limits, requests and bounds, from `ReservationAssumption`:

- `ReservationTypeCorrect`: `Spec => []TypeOK`.
- `DepositsAreAccounted`: `Spec => []DepositsFollowReceptions`.
- `NoMoreIsPromised`: `Spec => LimitsKept`.
- `WhatIsReservedIsKept`: `Spec => ReservedIsKept`.

`ReservationInv` adds `PlacesOK` and `SeenOK` (which reception a request is at, and what it has read of it),
`StagesOK` (a reception that is being made is nobody else's, so that its deposit cannot have been paid),
`LockOK` (one request at a time hands a reception over), `UnpaidOK`, `WorkerOK`, and `DepositAt` while
nothing slips. `StartsKeeps` and `EndsKeeps` are the two lemmas about requests that every handler's lemma
rests on. The limits and what is kept need `ReadsOK` besides: a deposit that is about to be written has
counted room for its reception under the limits in force, and a sale has counted a unit beyond those that
are kept. Both are stale when they are used, and it is the count of the slips that says whether that
matters. A number of units is a sum over a set of receptions (`UnitsAdd`), which moves by one reception at a
time.

`ContractProofs`, for any contracts, e-mails, payments, requests, workers and calendar, from
`ContractAssumption`:

- `MonthsAreChargedOnce`: `Spec => []FeeOncePerMonth`.
- `ContractsStartOncePaid`: `Spec => []StartedOncePaid`.

The first rests on `FeeInv`: while nothing slips one worker is at the job (`RunsAgree`), and the months that
it read as unpaid before its charges are still unpaid when it comes to them; the list it read is stale by
then, and only that nobody else charges makes it good. The second rests on `StartInv`: a payment row is of a
contract that has given an e-mail (`PaymentsOK`), a callback between its write and its activation is of a
payment that is collected (`CallbackOK`), and a started contract has the account of its e-mail and no other
(`AccountsAgree`), which is why the unique e-mail stops a second activation. `PaymentsStay`,
`PaymentAdvances` and `ContractsStay` are the frame lemmas of the steps. The two invariants do not need each
other, so each has its own induction.

- `NoMonthIsPassedOver`: `Spec => []NoMonthIsForgotten`, whatever slips.

It rests on `CalendarInv`, on top of both: a contract that begins later waits for its start (`DaysOK`), who
pays for a contract has created it (`CreatedOK`), and the job is at contracts that have begun and at no
month that has not, and no such month is among those that were not asked about (`MonthsOK`). `CheckNext` and
`SetNext` may be months apart: what is unpaid is asked of the month of the first reading, and every month
since is either that of the second or in `unasked`. The calendar is any sequence of first days. That every
day is in one month, that later days are in no earlier month, and that the next day is in the same month or
the first of the next are lemmas about it (`MonthExists`, `MonthIs`, `MonthsInOrder`, `NextDay`), which find
the first month after a day as the least element of a set of naturals, so that no induction over the
sequence is needed. `ContractAssumption` says of the calendar that it is finite and starts before the last
day of the model.

`CostRecordsProofs`, for any sales, deliveries and bounds, any total and any number of units, from
`CostAssumption`:

- `SharesAddUp`: the shares of `adjustDivide` add up to the total, and the number of those that get one yen
  more is between 0 and the number of units less one.
- `EveryUnitHasARecord`: `Spec => []RecordsCoverStock`.
- `NoMoneyIsLost`: `Spec => []ValueIsKept`.
- `TheAverageIsShown`: `Spec => []AveragesFollow`.

`CostInv` is `Kept` (every place has a bag of records with a size and a value) with the three, of the shelf
with the price that is being given (`OnShelf`): `LandedIs`, `LeftIs` and `JoinedIs` say what that price
becomes when records are taken and added. A bag is a function from records to counts, its size and value are
sums over its domain, and the operations move a part of a bag (`Parts`), whose size and value go with it. An
average (`Averaged`) keeps the value by `SharesAddUp`. Bags that have as many units of each price have as
many units (`SamePrices`, by induction over sets of prices), which a delivery that is taken back needs: the
shelf gives as many units of each price as are noted of it.

`ExternalEcProofs`, for any products, orders, workers, chunks and bounds, from `ExternalEcAssumption`:

- `OrdersTakeAgainOnlyUndeleted`: `Spec => []UndeletedIsTakenAgain`.
- `ShopFollowsStock`: `Spec => []ShopInStep`.

The types (`TypeOK`), the order of the rows and of those that the queue accepted (`TableOK`), `HolderOK` and
`Custody` (who holds a message is at the first of its group) carry both. An order is taken by the worker
that holds its one message (`OrdersOnce`, `TakenOnce`). The shop's number follows in steps: what EC lists is
what the queue was told last with the rows that wait (`ListedOK`, `PushedOK`), the last message about a
product says what the queue was told (`LastMessageOK`), and when no message about it is left the shop shows
that or less, in which case an order of the shop or a row is still to come (`OpenOK`, `NearOK`). The first
form of `ShopInStep` counted a discarded message as a repetition whenever its last numbers were those told;
the proof did not go through, and TLC, with four changes and an order, showed why: a batch that is pushed
again after the shop's own sale has an equal body, although the shop has sold a unit since. `IsTold` asks
now that the queue has accepted the rows themselves, and section 6 names the case.

Sums over finite sets are proved about in Reservation, PosTransaction and CostRecords by induction over the
sets. The library's induction theorems cannot be instantiated, but that the natural numbers are well-founded
can (`NatLessThanWellFounded` with `WFMin`): of the sets that lack a property one is smallest
(`FamilyInduction`, about a family of sets instead of an operator). These lemmas, and those about sums that
rest on them, are repeated in the three modules.

Only model-checked: all liveness (`UnpaidIsResolved`, `TaskEnds`, `ShopCatchesUp`, `PayingEnds`,
`PaidIsCompleted`, `FinishesWhenServed`, the fairness of `KeepsPromise`), which is out of the prover's
reach. Every other property of a run is the statement of a theorem. No model has a recursive definition.

## 5. What is not modelled

The register (but for the cash that PosTransaction moves) and documents (shipments, consignments,
stocktaking) are planned (section 7); what the documents move is a sequence of the operations of
ProductStock and CostRecords. Bundles and transfers between products are sequences of the operations of
ProductStock. Item master, CSV, ETL, shipping fees, mails, notifications, statistics, the front end and the
parsing of webhooks have no protocol to check. Reads that Prisma sends to a replica may be older than the
models let them be: ProductStock's `Load` reads the primary's row, at any time before the commit, so its
staleness is covered, that of EcOrder's requests likewise. Transactions are atomic and isolated on the rows
they lock; `services/internal/main.ts` and `db/prisma.ts` are trusted for that.

## 6. Where the code and its comments disagree

Shown by a run (`PROJECT.json`, findings):

- **OrderPaidAfterTimeout.** The callback or webhook finds the order unpaid, the timeout commits, and the
  callback sets PAID: a paid order whose units were given back.
- **DepositReturned.** `checkReturnCart` (`transaction/main.ts:1004` of the web app) looks for the cart of
  the reception that is named, and when none is named compares with `undefined`: the return of a deposit's
  transaction, which line 1056 means to refuse, is accepted, refunds the deposit and adds its units to the
  stock, while the reception goes on.

Met while modelling, without a run of their own.

Stock and orders:

- `enableEc` outside a transaction recalculates from the row of its first UPDATE (PM:1912), and `update`
  decides whether to recalculate by a row read before (PM:2715): after a race more stays listed than the
  reserve allows. A return over-lists (PM:2224), and a later sale can then take a reserved unit.
- `delete` looks at the stock and deletes in two statements (PM:1944): stock that arrives in between goes
  too.
- `update` that enables EC and changes the reserve recalculates twice from the same row (PM:2721): with a
  positive margin the second listing is refused, with a negative one the units are delisted twice and that
  is accepted. One that enables EC and asks to recalculate would do the same, but no caller asks for both.
- What EC has sold of an infinite product is not listed again: `increaseStock` and `decreaseStock` leave its
  listing alone (PM:234), and its margin is looked at only when it is published, recalculated or switched
  on.
- The same draft can be paid twice from two tabs (`pay/route.ts:223`); a cart can be shipped and canceled by
  two employees, and a shortage reported twice (`store/[store_id]/ec/order/[order_id]/route.ts:182`,
  `:163`).
- Two callbacks (or a callback and the webhook) that have both found the order unpaid set its carts to
  PREPARE_FOR_SHIPPING one after the other (`pay/callback/route.ts:70`), so that a cart a store has shipped
  or canceled in between is set back. A crash between the two statements leaves a payment COMPLETED of an
  order that is still unpaid, which the timeout then returns to a draft.
- A transaction that fails after GMO was called leaves a charge, or a refund, that is not on record
  (`ec/payment/main.ts:213`).
- Refunds of two stores read and write back the order's total (`ec/payment/main.ts:476`): one is lost.
- The order sells the last unit of a special price product, `decreaseStock` marks the product deleted, and
  `rollbackProducts` does not find it: each of the three deliveries of the timeout fails and the order stays
  UNPAID (the exception of `UnpaidIsResolved`).
- A store cancels its cart while the order waits for a transfer: the timeout returns the cart's units again
  (`ec/order/main.ts:244`), and a payment that arrives sets the canceled cart, too, to PREPARE_FOR_SHIPPING
  (`pay/callback/route.ts:84`).

Queue and shops:

- The callback of an item commits before its `Task_Item` is written, so a crash or a late worker has it
  processed twice (`OncePerItem` needs its proviso).
- A task is FINISHED before its last chunk when a message is counted twice (`task/main.ts:241`); one whose
  chunk was lost to crashes stays PROCESSING, and so does one whose publisher died (`task/main.ts:152`).
- Without the proviso about discarded messages `ShopInStep` fails: 5, 4, 5, 4 within five minutes gives
  equal bodies, the queue discards the second, and its row is deleted as if it had been sent. The same with
  5, 4 where the shop's own sale of a unit comes in between: the shop has moved on, the body has not.
- A shop's order that is delivered again after its commit is made a second time: nothing looks for
  `external_ec_id`. It is enough that `deleteMessage` throws, which is caught and logged
  (`task/main.ts:291`); `UndeletedIsTakenAgain` counts these. A late worker can set the shop to an older
  number.
- `productStockHistory/main.ts:15` says that Shopify's own changes are not told to Shopify; every row is
  pushed.
- The controllers of shop orders mail the store when the error has the code `EC_ENOUGH_STOCK_NUMBER`, which
  the error of a shortage does not have (`ochanokoOrder/main.ts:184`): the order is retried and dropped.
- If the controllers did match the shortage, they would return inside the transaction and so commit the
  order with the units taken so far.

POS (what the slips of PosTransaction show; `BT` is
`packages/backend-core/src/services/internal/transaction/main.ts`):

- `waitForPayment` looks first whether the transaction is paying or a draft (BT:293): when the customer has
  paid before that look, a paid sale counts as an error, and the route returns its goods
  (`transaction/route.ts:659`).
- The clean-up of a failed request returns the goods of whatever is not canceled and sets what it created to
  canceled, also what the webhook has completed meanwhile (`transaction/route.ts:659`, `:678`); goods that
  it has returned while the status stays paying are returned again by the worker.
- Worker, cancel and `terminal.checkout.updated` each read "paying" and then roll back: two of them give the
  goods back twice.
- A roll-back takes the granted points back first (BT:663). If the customer has spent them it fails; so it
  does when the sale took the last unit of a special price product, which `decreaseStock` has deleted and
  `increaseStock` does not find (PM:988, PM:204). After three deliveries of the worker's message the
  transaction is paying for ever: `PayingEnds` excepts this. Such a sale cannot be canceled or returned
  either.
- When the first of these crossings has rolled a paid sale back after Square's call was answered with 200,
  nobody calls again and the sale stays canceled, with the money collected: the exception of
  `PaidIsCompleted`. While Square still calls, `payment.updated` completes the sale again, without its
  goods.
- A purchase by bank that was paid in part in cash (`services/transaction/main.ts:307` of the web app) is
  returned without that part (`:582` gives back only what was paid by cash): the drawer, which agrees with
  the records, stays short of it.
- The error that comes after the checkout was created leaves it open at the terminal: the customer can pay
  for a sale whose goods are back, and `payment.updated` completes it (`square/webhook/route.ts:101`).
- The upsert writes `draft` (`transaction/route.ts:435`) over a transaction that another request has begun
  to pay or completed.
- When Square has refunded and the return waits no longer (`return/route.ts:248`) the money is back and the
  return is undone.
- A PUT of a completed transaction that names a customer grants its points each time
  (`transaction/[transaction_id]/route.ts:155`), and no return takes back more than one grant.

Reservation:

- A cancellation and the customer who fetches the goods, or two cancellations, cross: the UPDATE of a
  cancellation does not look at the status (BT:377), so that RECEIVED becomes CANCELLED, which
  `product.prisma:855` says does not happen.
- The limits count only receptions with a deposit and are looked at before the transaction, so two customers
  get the last unit; likewise the units that `checkCart` keeps for them.
- A PUT may set a reservation back to NOT_STARTED and then lower its limits below what has been promised
  (`reservation/[reservation_id]/route.ts:29`); nothing looks at the receptions. A DELETE of it then deletes
  its receptions, paid deposits included, by cascade (`product.prisma:864`).
- The worker is told before the commit (BT:467) and not at all of a cancellation, and receptions that stay
  CREATED keep it from finishing: a reservation can stay CLOSED for ever.

Cost:

- `updateRecord` (`wholesalePrice/main.ts:350`) locks no product: a sale that has read the record before
  moves its units at price 0, an average deletes it and writes new ones from what it read, and the money
  that was just said to have been paid is on record nowhere (`crossed`, the exception of `ValueIsKept`).
- A delivery cannot be taken back when the store keeps averages, because its price is no longer on the shelf
  (PM:1559; the code marks it TODO).
- The product's average is not reset when its last unit leaves (`wholesalePrice/main.ts:232`), hence the
  condition of `AveragesFollow`.

Contract (`KM` is `packages/backend-core/src/services/internal/contract/main.ts`):

- GMO is charged inside the transaction (KM:250): when that fails, the charge is not on record, and the next
  run of the job, or the next try of the customer, charges again. Two deliveries of the job's message that
  overlap do the same.
- `setNextPaymentMonth` asks for unpaid months with one reading of the clock (KM:123), awaits the database,
  and takes the next day from another (KM:74). When a month ends in between, the month that has just begun
  was not asked about and the day set is that of the month after: the new month is charged together with
  that one, a month late (the exception of `NoMonthIsForgotten`).
- When the day does not exist in the next month, the end of the month *after* it is taken (KM:94;
  `candidate` has overflowed into it, and the comment means the month's own end), and 23:59:59.999 is
  rounded up by the column to a midnight.
- The job looks for contracts whose `next_payment_at` equals this midnight (payContractSubscription
  `main.ts:29`). A charge that GMO refuses throws, so that the day is not moved on, although
  `admin.prisma:18` says that it is also on failure; it ends the run, and the contracts after it wait for
  the message's next delivery, in which the same one fails first. After the last delivery they are passed
  over, and so is every contract on a day without a run, one whose callback comes after its start, and one
  that does not start at midnight: none of them is ever charged again. `NoMonthIsForgotten` is about
  contracts whose day has not passed.
- Two tabs can both pay the initial fee. The second callback finds the account's e-mail taken and answers
  with an error, with the money collected. A customer who does not come back from 3-D Secure has paid
  without a contract, because no webhook tells of it.

## 7. Plan

1. Done, each with proofs: ProductStock, EcOrder, TaskQueue and the promise it implements, ExternalEc,
   PosTransaction, Reservation, CostRecords, Contract.
2. Register (open, close, reset, with the drawer of PosTransaction); StoreShipment and PackOpen over
   ProductStock and CostRecords.
3. Abstract specifications: an order as reserve, then pay or release, which EcOrder without the known
   disagreements implements; a register that follows another one, which ExternalEc implements while nothing
   is lost; a sale as goods against money, which PosTransaction implements without slips.
4. Theorems: the refinements of item 3, once stated; `StockFollowsOrder` under weaker hypotheses than
   `ByCard` or `BeforeStores`; the types of EcOrder's total as a sum over the carts.
