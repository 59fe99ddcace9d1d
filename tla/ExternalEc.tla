----------------------------- MODULE ExternalEc -----------------------------
(***************************************************************************)
(* What an external shop (Ochanoko, Shopify) shows of a store's products,  *)
(* and the orders it sends back.  Every change of a product's EC stock     *)
(* writes an outbox row in its transaction; the outbox service, one        *)
(* process, reads all rows, pushes them in chunks to the queue and then    *)
(* deletes them; a worker sets the shop's numbers to the rows' results.    *)
(* An order of the shop comes as a message, and takes EC stock like any    *)
(* sale does, which writes a row again.                                    *)
(*                                                                         *)
(* The product is the one of module ProductStock, reduced to the number    *)
(* that EC lists, and the queue is the one of module TaskQueue, with two   *)
(* groups and messages that have no rows of their own (fromSystem).        *)
(***************************************************************************)
EXTENDS Integers, Sequences

CONSTANTS
    Products,
    MaxListed,    \* bound: units of a product that EC may list
    MaxChanges,   \* bound: changes of the stock other than the shop's orders
    Orders,       \* orders that the shop's customers may place
    Workers,      \* processes that handle the messages
    ChunkSize,    \* rows of a message
    MaxReceives,  \* deliveries of a message before the queue drops it
    MaxFailures,  \* bound: failures and restarts of the outbox service, and messages that
                  \* were handled and not deleted
    MaxLate,      \* bound: messages that come back while a worker is at them
    Nobody

ASSUME ExternalEcAssumption ==
    /\ MaxListed \in Nat
    /\ MaxChanges \in Nat
    /\ ChunkSize \in Nat \ {0}
    /\ MaxReceives \in Nat \ {0}
    /\ MaxFailures \in Nat
    /\ MaxLate \in Nat
    /\ Nobody \notin Workers

VARIABLES
    listed,    \* Product.ec_stock_number
    changes,   \* how often listed was changed, the shop's orders included
    rows,      \* Outbox_Ec_Product_Stock_History, by id, with product and result
    poller,    \* the outbox service: what it has read, and where it is with it
    told,      \* the last number of each product that the queue accepted
    accepted,  \* the ids of the rows, of those there are, that the queue accepted
    stops,     \* how often it was stopped
    pushed,    \* the bodies that the queue accepted
    lost,      \* whether a message was discarded that was no repetition, or was
               \* given up by the queue
    queue,     \* the messages of each group
    received,  \* how often the first message of each group was delivered
    holder,    \* who was given it, and may still delete it
    worker,    \* what each worker is doing
    site,      \* what the shop shows of each product
    order,     \* what has become of each order of the shop
    late,      \* how often a message came back too early
    undeleted  \* how often a message was handled and not deleted

vars == <<listed, changes, rows, poller, stops, told, accepted, pushed, lost, queue, received,
          holder, worker, site, order, late, undeleted>>
productVars == <<listed, changes, rows>>
outboxVars == <<poller, stops, told, accepted, pushed>>
queueVars == <<queue, received, holder>>

Groups == {"stock", "order"}
Idle == [pc |-> "idle"]
Stopped == [pc |-> "stopped", batch |-> <<>>, chunk |-> 0, discarded |-> FALSE]

Init ==
    /\ listed = [p \in Products |-> MaxListed]
    /\ changes = 0
    /\ rows = <<>>
    /\ poller = Stopped
    /\ told = listed
    /\ accepted = {}
    /\ stops = 0
    /\ pushed = {}
    /\ lost = FALSE
    /\ queue = [g \in Groups |-> <<>>]
    /\ received = [g \in Groups |-> 0]
    /\ holder = [g \in Groups |-> Nobody]
    /\ worker = [w \in Workers |-> Idle]
    /\ site = listed
    /\ order = [o \in Orders |-> [status |-> "none", taken |-> 0, refused |-> FALSE]]
    /\ late = 0
    /\ undeleted = 0

-----------------------------------------------------------------------------
(* The product: increaseEcStock and decreaseEcStock write the new number   *)
(* and an outbox row in one transaction.                                   *)

SetListed(p, n) ==
    /\ listed' = [listed EXCEPT ![p] = n]
    /\ changes' = changes + 1
    /\ rows' = Append(rows, [id |-> changes + 1, product |-> p, result |-> n])

Change(p, n) ==
    /\ changes < MaxChanges
    /\ n # listed[p]
    /\ SetListed(p, n)
    /\ UNCHANGED <<outboxVars, lost, queueVars, worker, site, order, late, undeleted>>

\* Where a product's last number is in a list of numbers.
LastOf(stock, p) ==
    {i \in DOMAIN stock : /\ stock[i].product = p
                          /\ \A k \in DOMAIN stock : k > i => stock[k].product # p}

\* Mutant: of two changes of a product the first one wins.
SetToFirst(shown, stock) ==
    [p \in Products |->
        LET of == SelectSeq(stock, LAMBDA s : s.product = p)
        IN  IF of = <<>> THEN shown[p] ELSE Head(of).result]

\* What the shop shows after a bulk request: the last number of each product.
SetTo(shown, stock) ==
    [p \in Products |->
        IF LastOf(stock, p) = {} THEN shown[p]
        ELSE stock[CHOOSE i \in LastOf(stock, p) : TRUE].result]

-----------------------------------------------------------------------------
(* The outbox service.                                                     *)

\* startMonitoring: all rows there are, in the order of their ids.
Poll ==
    /\ poller.pc = "stopped"
    /\ rows # <<>>
    /\ poller' = [pc |-> "push", batch |-> rows, chunk |-> 1, discarded |-> FALSE]
    /\ UNCHANGED <<productVars, stops, told, accepted, pushed, lost, queueVars, worker, site, order,
                   late, undeleted>>

ChunkRows(k) ==
    SubSeq(poller.batch, (k - 1) * ChunkSize + 1,
           IF k * ChunkSize < Len(poller.batch) THEN k * ChunkSize ELSE Len(poller.batch))

Body(k) ==
    [chunk |-> k,
     stock |-> [i \in DOMAIN ChunkRows(k) |->
                   [product |-> ChunkRows(k)[i].product, result |-> ChunkRows(k)[i].result]]]

Pushing == poller.pc = "push" /\ ChunkRows(poller.chunk) # <<>>

Push ==
    /\ Pushing
    /\ queue' = [queue EXCEPT !["stock"] = Append(@, Body(poller.chunk))]
    /\ pushed' = pushed \cup {Body(poller.chunk)}
    /\ told' = SetTo(told, Body(poller.chunk).stock)
    /\ accepted' = accepted \cup {ChunkRows(poller.chunk)[i].id :
                                      i \in DOMAIN ChunkRows(poller.chunk)}
    /\ poller' = [poller EXCEPT !.chunk = @ + 1]
    /\ UNCHANGED <<productVars, stops, lost, received, holder, worker, site, order, late,
                   undeleted>>

\* A chunk that the queue takes for a repetition: its deduplication id is the hash
\* of its body, and an equal one may have been sent within the last five minutes.
Discard ==
    /\ Pushing
    /\ Body(poller.chunk) \in pushed
    /\ poller' = [poller EXCEPT !.chunk = @ + 1, !.discarded = TRUE]
    /\ UNCHANGED <<productVars, stops, told, accepted, pushed, lost, queueVars, worker, site, order,
                   late, undeleted>>

\* sendTask or the delete throws, or the service is restarted.
PollerStops ==
    /\ poller.pc = "push"
    /\ stops + undeleted < MaxFailures
    /\ stops' = stops + 1
    /\ poller' = Stopped
    /\ UNCHANGED <<productVars, told, accepted, pushed, lost, queueVars, worker, site, order, late,
                   undeleted>>

\* Mutant: all rows are deleted, also those written since the read.
RemainingNone == <<>>

\* The rows that were read are deleted, by their ids, once all their chunks are pushed: they
\* are the first of the table.
Remaining == SubSeq(rows, Len(poller.batch) + 1, Len(rows))

\* Each row that was read has been accepted by the queue since it was written, and of each
\* product the last number was accepted last.
IsTold ==
    /\ \A i \in DOMAIN poller.batch : poller.batch[i].id \in accepted
    /\ SetTo(told, poller.batch) = told

DeleteRows ==
    /\ poller.pc = "push" /\ ~Pushing
    /\ rows' = Remaining
    /\ accepted' = {}
    /\ poller' = Stopped
    /\ lost' = (lost \/ (poller.discarded /\ ~IsTold))
    /\ UNCHANGED <<listed, changes, stops, told, pushed, queueVars, worker, site, order, late,
                   undeleted>>

-----------------------------------------------------------------------------
(* The queue.                                                              *)

Receive(w, g) ==
    /\ worker[w] = Idle
    /\ queue[g] # <<>>
    /\ holder[g] = Nobody
    /\ received[g] < MaxReceives
    /\ received' = [received EXCEPT ![g] = @ + 1]
    /\ holder' = [holder EXCEPT ![g] = w]
    /\ worker' = [worker EXCEPT ![w] =
            [pc |-> "work", group |-> g, message |-> Head(queue[g])]]
    /\ UNCHANGED <<productVars, outboxVars, lost, queue, site, order, late, undeleted>>

WorksAt(w, g) == worker[w] # Idle /\ worker[w].group = g

\* The message is visible again, in its time or too early.
Expire(g) ==
    /\ holder[g] # Nobody
    /\ holder' = [holder EXCEPT ![g] = Nobody]
    /\ IF ~WorksAt(holder[g], g)
       THEN UNCHANGED late
       ELSE late < MaxLate /\ late' = late + 1
    /\ UNCHANGED <<productVars, outboxVars, lost, queue, received, worker, site, order, undeleted>>

\* After MaxReceives deliveries the queue gives a message up.
Drop(g) ==
    /\ queue[g] # <<>>
    /\ holder[g] = Nobody
    /\ received[g] = MaxReceives
    /\ queue' = [queue EXCEPT ![g] = Tail(@)]
    /\ received' = [received EXCEPT ![g] = 0]
    /\ IF g = "stock"
       THEN lost' = TRUE /\ UNCHANGED order
       ELSE /\ order' = [order EXCEPT ![Head(queue[g])].status = "dropped"]
            /\ lost' = (lost \/ (order[Head(queue[g])].taken = 0 /\ ~order[Head(queue[g])].refused))
    /\ UNCHANGED <<productVars, outboxVars, holder, worker, site, late, undeleted>>

-----------------------------------------------------------------------------
(* The workers.                                                            *)

At(w, pc, g) == WorksAt(w, g) /\ worker[w].pc = pc

\* Mutant: an error after the effect keeps the message in the queue.
DoneInVain(w) == worker' = [worker EXCEPT ![w] = Idle]

Done(w) == worker' = [worker EXCEPT ![w].pc = "done"]
GivesUp(w) == worker' = [worker EXCEPT ![w] = Idle]

\* updateStockNumber, setInventoryItemQuantity
UpdateSite(w) ==
    /\ At(w, "work", "stock")
    /\ site' = SetTo(site, worker[w].message.stock)
    /\ Done(w)
    /\ UNCHANGED <<productVars, outboxVars, lost, queueVars, order, late, undeleted>>

\* decreaseEcStock refuses to list less than nothing, with an error without a code;
\* the controllers send a mail for the code EC_ENOUGH_STOCK_NUMBER only.
RefusalCode == "none"
IsMailed(code) == code = "EC_ENOUGH_STOCK_NUMBER"

\* The order is written, its unit taken and the order set to PAID in one transaction.
TakeOrder(w, p) ==
    /\ At(w, "work", "order")
    /\ p = order[worker[w].message].product
    /\ listed[p] > 0
    /\ SetListed(p, listed[p] - 1)
    /\ order' = [order EXCEPT ![worker[w].message].taken = @ + 1]
    /\ Done(w)
    /\ UNCHANGED <<outboxVars, lost, queueVars, site, late, undeleted>>

RefuseOrder(w, p) ==
    /\ At(w, "work", "order")
    /\ p = order[worker[w].message].product
    /\ listed[p] = 0
    /\ IF IsMailed(RefusalCode)
       THEN /\ order' = [order EXCEPT ![worker[w].message].status = "reported"]
            /\ Done(w)
       ELSE /\ order' = [order EXCEPT ![worker[w].message].refused = TRUE]
            /\ GivesUp(w)
    /\ UNCHANGED <<productVars, outboxVars, lost, queueVars, site, late, undeleted>>

\* The shop's API, or the database, fails.
WorkFails(w) ==
    /\ worker[w].pc = "work"
    /\ GivesUp(w)
    /\ UNCHANGED <<productVars, outboxVars, lost, queueVars, site, order, late, undeleted>>

\* deleteMessage: refused when the message is no longer this worker's.
Delete(w) ==
    /\ worker[w].pc = "done"
    /\ LET g == worker[w].group IN
       IF holder[g] = w
       THEN /\ queue' = [queue EXCEPT ![g] = Tail(@)]
            /\ received' = [received EXCEPT ![g] = 0]
            /\ holder' = [holder EXCEPT ![g] = Nobody]
       ELSE UNCHANGED queueVars
    /\ GivesUp(w)
    /\ UNCHANGED <<productVars, outboxVars, lost, site, order, late, undeleted>>

\* deleteMessage throws, which is only logged, or the worker dies before it.
NotDeleted(w) ==
    /\ worker[w].pc = "done"
    /\ stops + undeleted < MaxFailures
    /\ undeleted' = undeleted + 1
    /\ GivesUp(w)
    /\ UNCHANGED <<productVars, outboxVars, lost, queueVars, site, order, late>>

-----------------------------------------------------------------------------
(* The shop: a customer buys a unit it shows, and the order is reported by *)
(* a mail or a webhook that becomes a message.                             *)

Buy(o, p) ==
    /\ order[o].status = "none"
    /\ site[p] > 0
    /\ site' = [site EXCEPT ![p] = @ - 1]
    /\ order' = [order EXCEPT ![o] =
            [status |-> "placed", product |-> p, taken |-> 0, refused |-> FALSE]]
    /\ queue' = [queue EXCEPT !["order"] = Append(@, o)]
    /\ UNCHANGED <<productVars, outboxVars, lost, received, holder, worker, late, undeleted>>

-----------------------------------------------------------------------------
OutboxNext == Poll \/ Push \/ Discard \/ DeleteRows

Handles(w) ==
    \/ \E g \in Groups : Receive(w, g)
    \/ UpdateSite(w) \/ Delete(w)
    \/ \E p \in Products : TakeOrder(w, p) \/ RefuseOrder(w, p)

Next ==
    \/ \E p \in Products, n \in 0..MaxListed : Change(p, n)
    \/ \E o \in Orders, p \in Products : Buy(o, p)
    \/ OutboxNext \/ PollerStops
    \/ \E g \in Groups : Expire(g) \/ Drop(g)
    \/ \E w \in Workers : Handles(w) \/ WorkFails(w) \/ NotDeleted(w)

Spec == Init /\ [][Next]_vars

\* The outbox service is restarted when it fails, and does not fail for ever (MaxFailures); a
\* worker handles what it receives, and the queue shows or drops messages in time.
FairSpec ==
    /\ Spec
    /\ WF_vars(Poll) /\ WF_vars(Push \/ Discard) /\ WF_vars(DeleteRows)
    /\ \A g \in Groups : WF_vars(Expire(g)) /\ WF_vars(Drop(g))
    /\ \A w \in Workers : WF_vars(Handles(w))

-----------------------------------------------------------------------------
(* Properties.                                                             *)

\* Nothing is on its way between the product and the shop.
Settled ==
    /\ rows = <<>>
    /\ \A g \in Groups : queue[g] = <<>>
    /\ \A w \in Workers : worker[w] = Idle

\* The shop shows what EC lists once everything is handled: whatever fails, is
\* restarted, repeated or crosses an order on its way, provided that no message was
\* lost and none came back too early.
ShopInStep == Settled /\ ~lost /\ late = 0 => site = listed

\* An order of the shop takes a unit, and one more at most for each time that its message was
\* handled and not deleted, however often it is refused, fails or is delivered: an error after
\* the transaction must not keep the message (ochanokoOrder, shopifyOrder, subscribe).
UndeletedIsTakenAgain ==
    late = 0 => \A o \in Orders : order[o].taken <= 1 + undeleted

\* When nothing changes any more the shop comes to show what EC lists, and stays so.
ShopCatchesUp == <>[](lost \/ late > 0 \/ site = listed)

=============================================================================
