------------------------ MODULE PosTransactionProofs -------------------------
(***************************************************************************)
(* Proofs about PosTransaction, for any sales, baskets, requests and       *)
(* bounds: its types, that the drawer holds what the payments on record    *)
(* say and, as long as no step slips, that ended transactions stay so, a   *)
(* sale is returned once, and the shelf and the customer's points follow   *)
(* the sales.                                                              *)
(***************************************************************************)
EXTENDS PosTransaction, FiniteSetTheorems, TLAPS

-----------------------------------------------------------------------------
(* The inductive invariant.                                                *)

\* Only a payment that the store has recorded itself is one in cash.
CashKnown(t) == sale[t].payment # "original" => sale[t].cash = 0

\* Whoever is at work is at a transaction that exists, with a basket.
KnownOK ==
    /\ \A t \in Sales :
          IF sale[t].status = "none" THEN sale[t].payment = "none" /\ checkout[t] = "none"
                                     ELSE sale[t].basket \in Baskets
    /\ \A t \in Sales : CashKnown(t)
    /\ \A q \in Requests : request[q] # Idle => sale[Of(q)].status # "none"

\* The requests that hold a link to a return they have not completed.
Returning(q) == request[q].pc \in {"giveback", "refund"}
Returners(t) == {q \in Requests : Returning(q) /\ Of(q) = t}

LinksOK == \A t \in Sales : back[t].linked >= Cardinality(Returners(t))

\* What a request has read, while nothing has slipped.
SeenAt(q) ==
    /\ At(q, "take") => request[q].seen = "draft"
    /\ At(q, "clean") => request[q].seen \in {"draft", "canceled"}
    /\ At(q, "undo") => request[q].seen = "draft"
    /\ At(q, "cancel") => request[q].seen \in {"draft", "paying"}
    /\ At(q, "complete") => checkout[Of(q)] = "paid"

\* Where the money of a transaction is, while nothing has slipped.
MoneyAt(t) ==
    /\ sale[t].payment # "none" \/ checkout[t] = "paid" => sale[t].status \in Returnable
    /\ sale[t].payment = "square" => checkout[t] = "paid"
    /\ sale[t].payment = "original" => sale[t].status = "completed"

\* How far the return of each transaction is, while nothing has slipped.
ReturnsOK ==
    /\ \A t \in Sales :
        /\ back[t].linked <= 1
        /\ back[t].done <= back[t].linked
        /\ refund[t] # "none" =>
              back[t].done = 1 \/ \E q \in Requests : Of(q) = t /\ At(q, "refund")
    /\ \A q \in Requests :
        /\ Returning(q) => back[Of(q)].linked = 1 /\ back[Of(q)].done = 0
        /\ At(q, "return") => request[q].links = 0
    /\ \A p, q \in Requests : Returning(p) /\ Returning(q) /\ Of(p) = Of(q) => p = q

PosInv ==
    /\ TypeOK /\ KnownOK /\ LinksOK
    /\ slips = 0 => /\ \A q \in Requests : SeenAt(q)
                    /\ \A t \in Sales : MoneyAt(t)
                    /\ ReturnsOK

-----------------------------------------------------------------------------
(* Types.                                                                  *)

SaleState == [status : Statuses, payment : Payments, cash : Int, granted : Nat,
              asked : BOOLEAN, carts : Requests \cup {Nobody}, basket : Baskets \cup {Nobody}]
BackState == [linked : Nat, done : Nat, cash : Int]
Steps == {"reopen", "take", "checkout", "watch", "wait", "reread", "undo", "clean", "finish",
          "cancel", "drop", "complete", "return", "giveback", "refund"}
Working == [op : Operations, sale : Sales, seen : Statuses, links : Nat, pc : Steps]

\* A request that is at a step is at a transaction.
LEMMA AtWork ==
    ASSUME TypeOK, NEW q \in Requests, request[q].pc # "idle"
    PROVE  /\ request[q] \in Working
           /\ Of(q) \in Sales /\ request[q].seen \in Statuses
BY DEF TypeOK, Working, Steps, Of, Idle

\* And the other way round.
LEMMA NotIdle ==
    ASSUME TypeOK, NEW q \in Requests, request[q] # Idle
    PROVE  request[q].pc \in Steps
BY DEF TypeOK, Steps, Idle

LEMMA GoesOn ==
    ASSUME TypeOK, NEW q \in Requests, request[q].pc # "idle",
           NEW pc \in Steps, NEW seen \in Statuses, GoesTo(q, pc, seen)
    PROVE  /\ request' \in [Requests -> {Idle} \cup Working]
           /\ request'[q] # Idle
           /\ request'[q].pc = pc /\ request'[q].seen = seen /\ request'[q].sale = Of(q)
           /\ request'[q].op = request[q].op /\ request'[q].links = request[q].links
           /\ \A p \in Requests \ {q} : request'[p] = request[p]
<1>1. request[q] \in Working
  BY AtWork
<1>2. /\ [request[q] EXCEPT !.pc = pc, !.seen = seen] \in Working
      /\ request'[q] = [request[q] EXCEPT !.pc = pc, !.seen = seen]
      /\ request' \in [Requests -> {Idle} \cup Working]
      /\ \A p \in Requests \ {q} : request'[p] = request[p]
  <2>1. [request[q] EXCEPT !.pc = pc, !.seen = seen] \in Working
    BY <1>1 DEF Working
  <2> QED
    BY <2>1 DEF TypeOK, GoesTo, Working, Steps
<1>3. /\ request'[q].pc = pc /\ request'[q].seen = seen /\ request'[q].sale = Of(q)
      /\ request'[q].op = request[q].op /\ request'[q].links = request[q].links
  BY <1>1, <1>2 DEF Working, Of
<1>4. request'[q] # Idle
  BY <1>3 DEF Idle, Steps
<1> QED
  BY <1>2, <1>3, <1>4

\* What a transaction moves.
LEMMA Moves ==
    ASSUME TypeOK, NEW t \in Sales, sale[t].basket \in Baskets
    PROVE  /\ Units(t) \in Int /\ Coins(t) \in Int
           /\ Basket(t).earned \in Nat /\ Basket(t).used \in Nat
           /\ sale[t].granted \in Nat
BY PosAssumption DEF TypeOK, Units, Coins, Basket

LEMMA ConsumedTypes ==
    ASSUME TypeOK, NEW t \in Sales, sale[t].basket \in Baskets, Consumed(t)
    PROVE  stock' \in Nat /\ points' \in Nat
BY Moves DEF TypeOK, Consumed, CanConsume

LEMMA ReturnedTypes ==
    ASSUME TypeOK, NEW t \in Sales, sale[t].basket \in Baskets, Returned(t)
    PROVE  stock' \in Nat /\ points' \in Nat
BY Moves DEF TypeOK, Returned, CanReturn, PointsTakenBack

LEMMA Counted ==
    ASSUME TypeOK, NEW slip \in BOOLEAN, CountsIf(slip)
    PROVE  /\ slips' \in 0..MaxSlips
           /\ slips' = 0 => slips = 0 /\ ~slip
BY PosAssumption DEF TypeOK, CountsIf

LEMMA Ended ==
    ASSUME TypeOK, NEW q \in Requests, Ends(q)
    PROVE  /\ request' \in [Requests -> {Idle} \cup Working]
           /\ request'[q] = Idle
           /\ \A p \in Requests \ {q} : request'[p] = request[p]
BY DEF TypeOK, Ends, Working, Steps

LEMMA Started ==
    ASSUME TypeOK, NEW q \in Requests, NEW op \in Operations, NEW t \in Sales, NEW pc \in Steps,
           Starts(q, op, t, pc)
    PROVE  /\ request[q] = Idle
           /\ request' \in [Requests -> {Idle} \cup Working]
           /\ request'[q] = [op |-> op, sale |-> t, pc |-> pc, seen |-> sale[t].status,
                             links |-> back[t].linked]
           /\ \A p \in Requests \ {q} : request'[p] = request[p]
<1>1. sale[t].status \in Statuses /\ back[t].linked \in Nat
  BY DEF TypeOK
<1>2. [op |-> op, sale |-> t, pc |-> pc, seen |-> sale[t].status,
       links |-> back[t].linked] \in Working
  BY <1>1 DEF Working
<1> QED
  BY <1>2 DEF TypeOK, Starts, Working, Steps

\* The status of one transaction is written.
LEMMA StatusWritten ==
    ASSUME TypeOK, NEW t \in Sales, NEW x \in Statuses, sale' = [sale EXCEPT ![t].status = x]
    PROVE  /\ sale' \in [Sales -> SaleState]
           /\ sale'[t] = [sale[t] EXCEPT !.status = x]
           /\ \A u \in Sales \ {t} : sale'[u] = sale[u]
<1>1. sale \in [Sales -> SaleState]
  BY DEF TypeOK, SaleState
<1>2. [sale[t] EXCEPT !.status = x] \in SaleState
  BY <1>1 DEF SaleState
<1> QED
  BY <1>1, <1>2

\* What a step does to a transaction and to a request.
SaleStays(t) == sale'[t] = sale[t] /\ checkout'[t] = checkout[t]

SaleMoves(t) ==
    /\ sale'[t].status # "none" /\ sale'[t].basket \in Baskets /\ CashKnown(t)'
    /\ checkout[t] = "paid" => checkout'[t] = "paid"
    /\ slips' = 0 => MoneyAt(t)'

RequestMoves(q) ==
    /\ request'[q] # Idle => sale'[request'[q].sale].status # "none"
    /\ slips' = 0 => SeenAt(q)'

ReturnsKept == LinksOK' /\ (slips' = 0 => ReturnsOK')

\* A step keeps the invariant when each transaction and each request that it touches
\* is in order afterwards.
LEMMA StepKeeps ==
    ASSUME PosInv, TypeOK', slips' = 0 => slips = 0, ReturnsKept,
           \A t \in Sales : SaleStays(t) \/ SaleMoves(t),
           \A q \in Requests : request'[q] = request[q] \/ RequestMoves(q)
    PROVE  PosInv'
<1>1. \A t \in Sales : sale[t].status # "none" => sale'[t].status # "none"
  BY DEF SaleStays, SaleMoves
<1>2. \A t \in Sales : checkout[t] = "paid" => checkout'[t] = "paid"
  BY DEF SaleStays, SaleMoves
<1>3. KnownOK'
  <2>1. ASSUME NEW t \in Sales
        PROVE  IF sale'[t].status = "none" THEN sale'[t].payment = "none" /\ checkout'[t] = "none"
                                           ELSE sale'[t].basket \in Baskets
    BY DEF SaleStays, SaleMoves, PosInv, KnownOK
  <2>3. ASSUME NEW t \in Sales
        PROVE  CashKnown(t)'
    BY DEF SaleStays, SaleMoves, PosInv, KnownOK, CashKnown
  <2>2. ASSUME NEW q \in Requests, request'[q] # Idle
        PROVE  sale'[request'[q].sale].status # "none"
    <3>1. CASE RequestMoves(q)
      BY <2>2, <3>1 DEF RequestMoves
    <3>2. CASE request'[q] = request[q]
      <4>1. Of(q) \in Sales /\ sale[Of(q)].status # "none"
        BY <2>2, <3>2, NotIdle, AtWork DEF PosInv, KnownOK, Steps
      <4> QED
        BY <3>2, <4>1, <1>1 DEF Of
    <3> QED
      BY <3>1, <3>2
  <2> QED
    BY <2>1, <2>2, <2>3 DEF KnownOK, Of
<1>4. ASSUME slips' = 0, NEW q \in Requests
      PROVE  SeenAt(q)'
  <2>1. CASE RequestMoves(q)
    BY <1>4, <2>1 DEF RequestMoves
  <2>2. CASE request'[q] = request[q]
    <3>1. SeenAt(q)
      BY <1>4 DEF PosInv
    <3>2. At(q, "complete") => Of(q) \in Sales
      BY AtWork DEF At, PosInv
    <3> QED
      BY <2>2, <3>1, <3>2, <1>2 DEF SeenAt, At, Of
  <2> QED
    BY <2>1, <2>2
<1>5. ASSUME slips' = 0, NEW t \in Sales
      PROVE  MoneyAt(t)'
  BY <1>5 DEF PosInv, SaleStays, SaleMoves, MoneyAt
<1> QED
  BY <1>3, <1>4, <1>5 DEF PosInv, ReturnsKept

\* A step that neither begins nor ends a return.
ReturnSteps == {"return", "giveback", "refund"}

LEMMA ReturnsStay ==
    ASSUME PosInv, slips' = 0 => slips = 0, UNCHANGED <<back, refund>>,
           \A q \in Requests : \/ request'[q] = request[q]
                               \/ /\ request[q].pc \notin ReturnSteps
                                  /\ request'[q].pc \notin ReturnSteps
    PROVE  ReturnsKept
<1>1. \A q \in Requests : /\ Returning(q)' = Returning(q)
                          /\ At(q, "refund")' = At(q, "refund")
                          /\ At(q, "return")' = At(q, "return")
                          /\ Returning(q) \/ At(q, "return") => request'[q] = request[q]
  BY DEF Returning, At, ReturnSteps
<1>2. \A t \in Sales : Returners(t)' = Returners(t)
  BY <1>1 DEF Returners, Of
<1>3. LinksOK'
  BY <1>2 DEF LinksOK, PosInv
<1>4. ASSUME slips' = 0
      PROVE  ReturnsOK'
  <2>1. ReturnsOK
    BY <1>4 DEF PosInv
  <2>2. \A q \in Requests : Returning(q)' => Of(q)' = Of(q)
    BY <1>1 DEF Of
  <2>3. \A q \in Requests : At(q, "refund") => Of(q)' = Of(q)
    BY <1>1 DEF Of, Returning, At
  <2> QED
    BY <1>1, <2>1, <2>2, <2>3 DEF ReturnsOK
<1> QED
  BY <1>3, <1>4 DEF ReturnsKept

\* The transaction a request is at, and its basket.
LEMMA AtSale ==
    ASSUME TypeOK, KnownOK, NEW q \in Requests, request[q].pc # "idle"
    PROVE  \E t \in Sales : t = Of(q) /\ sale[t].basket \in Baskets
BY AtWork DEF KnownOK, Idle

-----------------------------------------------------------------------------
(* Steps that only lead a request on.                                      *)

LEMMA WalksTo ==
    ASSUME PosInv, NEW q \in Requests, request[q].pc \notin {"idle"} \cup ReturnSteps,
           NEW to \in Steps \ ReturnSteps, NEW seen \in Statuses, GoesTo(q, to, seen),
           UNCHANGED <<sale, back, drawer, queue, square, spent>>,
           stock' \in Nat, points' \in Nat, slips' \in 0..MaxSlips,
           slips' = 0 => /\ slips = 0
                         /\ to \in {"take", "undo"} => seen = "draft"
                         /\ to = "clean" => seen \in {"draft", "canceled"}
                         /\ to \notin {"cancel", "complete"}
    PROVE  PosInv'
<1>1. /\ request' \in [Requests -> {Idle} \cup Working]
      /\ request'[q].pc = to /\ request'[q].seen = seen /\ request'[q].sale = Of(q)
      /\ \A p \in Requests \ {q} : request'[p] = request[p]
  <2>1. TypeOK /\ request[q].pc # "idle" /\ to \in Steps
    BY DEF PosInv
  <2>2. request[q] \in Working
    BY <2>1, AtWork
  <2>3. [request[q] EXCEPT !.pc = to, !.seen = seen] \in Working
    BY <2>1, <2>2 DEF Working
  <2>4. /\ request'[q] = [request[q] EXCEPT !.pc = to, !.seen = seen]
        /\ request' \in [Requests -> {Idle} \cup Working]
        /\ \A p \in Requests \ {q} : request'[p] = request[p]
    BY <2>1, <2>3 DEF TypeOK, GoesTo, Working, Steps
  <2> QED
    BY <2>2, <2>4 DEF Working, Of
<1>2. /\ request'[q].pc \notin ReturnSteps /\ request[q].pc \notin ReturnSteps
  BY <1>1
<1>3. TypeOK'
  BY <1>1 DEF PosInv, TypeOK, SaleState, Working, Steps, square, queue
<1>4. RequestMoves(q)
  <2>1. sale[Of(q)].status # "none"
    BY DEF PosInv, KnownOK, Idle
  <2> QED
    BY <1>1, <2>1 DEF RequestMoves, SeenAt, At
<1>5. ReturnsKept
  BY <1>1, <1>2, ReturnsStay DEF square, queue
<1> QED
  BY <1>1, <1>3, <1>4, <1>5, StepKeeps DEF SaleStays, square, queue

LEMMA WalksOff ==
    ASSUME PosInv, NEW q \in Requests, request[q].pc \notin ReturnSteps,
           Ends(q), UNCHANGED <<rows, queue, square, spent>>,
           slips' \in 0..MaxSlips, slips' = 0 => slips = 0
    PROVE  PosInv'
<1>1. /\ request' \in [Requests -> {Idle} \cup Working]
      /\ request'[q] = Idle
      /\ \A p \in Requests \ {q} : request'[p] = request[p]
  BY Ended DEF PosInv
<1>2. TypeOK'
  BY <1>1 DEF PosInv, TypeOK, Working, Steps, rows, square, queue
<1>3. RequestMoves(q)
  BY <1>1 DEF RequestMoves, SeenAt, At, Idle
<1>4. ReturnsKept
  BY <1>1, ReturnsStay DEF rows, square, queue, Idle, ReturnSteps
<1> QED
  BY <1>1, <1>2, <1>3, <1>4, StepKeeps DEF SaleStays, rows, square, queue

LEMMA StartsWork ==
    ASSUME PosInv, NEW q \in Requests, NEW op \in Operations, NEW t \in Sales,
           NEW pc \in Steps \ ReturnSteps, Starts(q, op, t, pc),
           sale[t].status # "none", UNCHANGED <<rows, queue, square, spent, slips>>,
           pc \notin {"take", "clean", "undo", "complete"},
           pc = "cancel" => sale[t].status \in {"draft", "paying"}
    PROVE  PosInv'
<1>1. /\ request[q] = Idle
      /\ request' \in [Requests -> {Idle} \cup Working]
      /\ request'[q].sale = t /\ request'[q].pc = pc /\ request'[q].seen = sale[t].status
      /\ \A p \in Requests \ {q} : request'[p] = request[p]
  <2>1. TypeOK /\ pc \in Steps
    BY DEF PosInv
  <2> QED
    BY <2>1, Started DEF Starts
<1>2. TypeOK'
  BY <1>1 DEF PosInv, TypeOK, Working, Steps, rows, square, queue
<1>3. RequestMoves(q)
  BY <1>1 DEF RequestMoves, SeenAt, At, rows
<1>4. ReturnsKept
  BY <1>1, ReturnsStay DEF rows, square, queue, Idle, ReturnSteps
<1> QED
  BY <1>1, <1>2, <1>3, <1>4, StepKeeps DEF SaleStays, rows, square, queue

LEMMA SmallStepsKeep ==
    ASSUME PosInv, NEW q \in Requests,
           \/ LeaveAsDraft(q) \/ TakeFails(q)
           \/ Watch(q) \/ Misses(q) \/ Paid(q) \/ WaitEnds(q) \/ UndoFails(q)
           \/ Finish(q) \/ FinishFails(q)
    PROVE  PosInv'
<1> USE DEF At
<1>0. /\ slips \in 0..MaxSlips /\ stock \in Nat /\ points \in Nat
      /\ request[q].pc # "idle" => request[q].seen \in Statuses
  BY AtWork DEF PosInv, TypeOK
<1>1. CASE LeaveAsDraft(q)
  BY <1>0, <1>1, WalksOff DEF LeaveAsDraft, ReturnSteps
<1>2. CASE Finish(q)
  BY <1>0, <1>2, WalksOff DEF Finish, ReturnSteps
<1>3. CASE TakeFails(q)
  <2>1. /\ slips' \in 0..MaxSlips
        /\ slips' = 0 => slips = 0 /\ request[q].pc = "take"
    BY <1>3, Counted DEF PosInv, TakeFails
  <2>2. slips' = 0 => request[q].seen = "draft"
    BY <2>1 DEF PosInv, SeenAt
  <2> QED
    BY <1>0, <1>3, <2>1, <2>2, WalksTo DEF TakeFails, ReturnSteps, Steps, rows
<1>4. CASE Watch(q)
  BY <1>0, <1>4, WalksTo DEF Watch, ReturnSteps, Steps, Statuses, rows
<1>5. CASE Misses(q)
  BY <1>0, <1>5, WalksTo DEF Misses, ReturnSteps, Steps, Statuses, rows
<1>6. CASE Paid(q)
  BY <1>0, <1>6, WalksTo DEF Paid, ReturnSteps, Steps, Statuses, rows
<1>7. CASE WaitEnds(q)
  BY <1>0, <1>7, WalksTo DEF WaitEnds, ReturnSteps, Steps, Statuses, rows
<1>8. CASE UndoFails(q)
  <2>1. slips = 0 => request[q].seen = "draft"
    BY <1>8 DEF PosInv, SeenAt, UndoFails
  <2> QED
    BY <1>0, <1>8, <2>1, WalksTo DEF UndoFails, ReturnSteps, Steps, rows
<1>9. CASE FinishFails(q)
  <2>1. /\ slips' \in 0..MaxSlips
        /\ slips' # 0
    BY <1>9, Counted DEF PosInv, FinishFails
  <2> QED
    BY <1>0, <1>9, <2>1, WalksTo DEF FinishFails, ReturnSteps, Steps, Statuses, rows
<1> QED
  BY <1>1, <1>2, <1>3, <1>4, <1>5, <1>6, <1>7, <1>8, <1>9

\* Goods may go back only when the request has read that they have left.
LEMMA UndoKeeps ==
    ASSUME PosInv, NEW q \in Requests, Undo(q)
    PROVE  PosInv'
<1>1. request[q].pc = "undo" /\ request[q].seen \in Statuses
  BY AtWork DEF Undo, At, PosInv
<1>2. PICK t \in Sales : t = Of(q) /\ sale[t].basket \in Baskets
  BY <1>1, AtSale DEF PosInv
<1>3. stock' \in Nat /\ points' \in Nat
  BY <1>2, ReturnedTypes DEF Undo, PosInv
<1>4. slips' \in 0..MaxSlips /\ (slips' = 0 => slips = 0)
  BY Counted DEF Undo, PosInv, Crossed
<1>5. slips' # 0
  BY <1>1, <1>4 DEF PosInv, SeenAt, At, Undo, Returnable
<1> QED
  BY <1>1, <1>3, <1>4, <1>5, WalksTo DEF Undo, ReturnSteps, Steps

LEMMA RereadKeeps ==
    ASSUME PosInv, NEW q \in Requests, Reread(q)
    PROVE  PosInv'
<1>1. request[q].pc = "reread"
  BY DEF Reread, At
<1>2. PICK t \in Sales : t = Of(q) /\ sale[t].status \in Statuses /\ sale[t].status # "none"
  BY <1>1, AtWork DEF PosInv, TypeOK, KnownOK, Idle
<1>3. slips' \in 0..MaxSlips /\ (slips' = 0 => slips = 0 /\ sale[t].status \notin Returnable)
  <2>1. TypeOK /\ CountsIf(sale[t].status \in Returnable)
    BY <1>2 DEF Reread, PosInv
  <2> QED
    BY <2>1, Counted DEF CountsIf
<1>4. slips' = 0 => sale[t].status \in {"draft", "canceled"}
  BY <1>2, <1>3 DEF Statuses, Returnable
<1>5. stock \in Nat /\ points \in Nat
  BY DEF PosInv, TypeOK
<1>6. CASE sale[t].status = "canceled"
  BY <1>1, <1>2, <1>3, <1>4, <1>5, <1>6, WalksTo DEF Reread, ReturnSteps, Steps, rows
<1>7. CASE sale[t].status # "canceled"
  BY <1>1, <1>2, <1>3, <1>4, <1>5, <1>7, WalksTo DEF Reread, ReturnSteps, Steps, rows
<1> QED
  BY <1>6, <1>7

LEMMA ReadsKeep ==
    ASSUME PosInv, NEW q \in Requests, NEW t \in Sales,
           ResumeRead(q, t) \/ CancelRead(q, t) \/ CheckoutCanceled(q, t)
    PROVE  PosInv'
<1>1. CASE ResumeRead(q, t)
  BY <1>1, StartsWork DEF ResumeRead, Operations, Steps, ReturnSteps
<1>2. CASE CancelRead(q, t)
  BY <1>2, StartsWork DEF CancelRead, MayBeCanceled, Operations, Steps, ReturnSteps
<1>3. CASE CheckoutCanceled(q, t)
  BY <1>3, StartsWork DEF CheckoutCanceled, Operations, Steps, ReturnSteps
<1> QED
  BY <1>1, <1>2, <1>3

-----------------------------------------------------------------------------
(* Steps that change one transaction.                                      *)

\* The request writes the draft with its carts.
LEMMA Drafted ==
    ASSUME TypeOK, NEW q \in Requests, NEW t \in Sales, NEW b \in Baskets, Draft(q, t, b)
    PROVE  /\ sale' \in [Sales -> SaleState]
           /\ sale'[t] = [sale[t] EXCEPT !.status = "draft", !.carts = q, !.basket = b]
           /\ \A u \in Sales \ {t} : sale'[u] = sale[u]
<1>1. sale \in [Sales -> SaleState]
  BY DEF TypeOK, SaleState
<1>2. [sale[t] EXCEPT !.status = "draft", !.carts = q, !.basket = b] \in SaleState
  BY <1>1 DEF SaleState, Statuses
<1> QED
  BY <1>1, <1>2 DEF Draft

LEMMA NewKeeps ==
    ASSUME PosInv, NEW q \in Requests, NEW t \in Sales, New(q, t)
    PROVE  PosInv'
<1>1. PICK b \in Baskets : Draft(q, t, b)
  BY DEF New
<1>2. /\ sale' \in [Sales -> SaleState]
      /\ sale'[t] = [sale[t] EXCEPT !.status = "draft", !.carts = q, !.basket = b]
      /\ \A u \in Sales \ {t} : sale'[u] = sale[u]
  BY <1>1, Drafted DEF PosInv, Draft
<1>3. /\ sale[t] \in SaleState /\ sale[t].status = "none"
      /\ sale[t].payment = "none" /\ sale[t].cash = 0 /\ checkout[t] = "none"
  BY DEF New, PosInv, TypeOK, SaleState, KnownOK, CashKnown
<1>4. /\ sale'[t].status = "draft" /\ sale'[t].payment = "none" /\ sale'[t].basket = b
      /\ sale'[t].cash = 0
      /\ checkout' = checkout
  BY <1>2, <1>3 DEF New, SaleState, square, queue
<1>5. /\ request[q].pc = "idle"
      /\ request'[q] = [op |-> "new", sale |-> t, pc |-> "take", seen |-> "draft", links |-> 0]
      /\ \A p \in Requests \ {q} : request'[p] = request[p]
      /\ request' \in [Requests -> {Idle} \cup Working]
  <2>1. [op |-> "new", sale |-> t, pc |-> "take", seen |-> "draft", links |-> 0] \in Working
    BY DEF Working, Operations, Statuses, Steps
  <2>2. request \in [Requests -> {Idle} \cup Working]
    BY DEF PosInv, TypeOK, Working, Steps
  <2> QED
    BY <2>1, <2>2 DEF New, Idle
<1>6. TypeOK'
  BY <1>2, <1>5 DEF New, PosInv, TypeOK, SaleState, Working, Steps, square, queue
<1>7. SaleMoves(t) /\ RequestMoves(q)
  BY <1>3, <1>4, <1>5 DEF SaleMoves, MoneyAt, CashKnown, RequestMoves, SeenAt, At
<1>8. ReturnsKept
  BY <1>5, ReturnsStay DEF New, square, queue, ReturnSteps
<1> QED
  BY <1>2, <1>4, <1>5, <1>6, <1>7, <1>8, StepKeeps DEF SaleStays, New

LEMMA ReopenKeeps ==
    ASSUME PosInv, NEW q \in Requests, Reopen(q)
    PROVE  PosInv'
<1>1. request[q].pc = "reopen"
  BY DEF Reopen, At
<1>2. PICK t \in Sales : t = Of(q)
  BY <1>1, AtWork DEF PosInv
<1>3. PICK b \in Baskets : Draft(q, t, b)
  BY <1>2 DEF Reopen
<1>4. /\ sale' \in [Sales -> SaleState]
      /\ sale'[t] = [sale[t] EXCEPT !.status = "draft", !.carts = q, !.basket = b]
      /\ \A u \in Sales \ {t} : sale'[u] = sale[u]
  BY <1>3, Drafted DEF PosInv, Draft
<1>5. /\ request' \in [Requests -> {Idle} \cup Working]
      /\ request'[q].pc = "take" /\ request'[q].seen = "draft" /\ request'[q].sale = t
      /\ \A p \in Requests \ {q} : request'[p] = request[p]
  BY <1>1, <1>2, GoesOn DEF Reopen, PosInv, GoesTo, Steps, Statuses
<1>6. /\ slips' \in 0..MaxSlips
      /\ slips' = 0 => slips = 0 /\ sale[t].status = "draft" /\ checkout[t] # "paid"
  <2>1. TypeOK /\ CountsIf(Crossed(t, "draft")) /\ Crossed(t, "draft") \in BOOLEAN
    BY <1>2 DEF Reopen, PosInv, Crossed
  <2> QED
    BY <2>1, Counted DEF CountsIf, Crossed
<1>7. sale[t] \in SaleState /\ checkout' = checkout
  BY DEF PosInv, TypeOK, SaleState, Reopen, square, queue
<1>8. TypeOK'
  BY <1>4, <1>5, <1>6 DEF Reopen, PosInv, TypeOK, SaleState, Working, Steps, square, queue
<1>9. SaleMoves(t)
  <2>1. /\ sale'[t].status = "draft" /\ sale'[t].basket = b
        /\ sale'[t].payment = sale[t].payment /\ sale'[t].cash = sale[t].cash
    BY <1>4, <1>7 DEF SaleState
  <2>2. CashKnown(t) /\ (slips' = 0 => MoneyAt(t))
    BY <1>6 DEF PosInv, KnownOK
  <2> QED
    BY <1>6, <1>7, <2>1, <2>2 DEF SaleMoves, MoneyAt, CashKnown, Returnable, Payments, SaleState
<1>10. RequestMoves(q)
  BY <1>5, <1>9 DEF RequestMoves, SeenAt, At, SaleMoves
<1>11. ReturnsKept
  BY <1>1, <1>5, <1>6, ReturnsStay DEF Reopen, square, queue, ReturnSteps
<1> QED
  BY <1>4, <1>5, <1>6, <1>7, <1>8, <1>9, <1>10, <1>11, StepKeeps DEF SaleStays

LEMMA PayAtOnceKeeps ==
    ASSUME PosInv, NEW q \in Requests, PayAtOnce(q)
    PROVE  PosInv'
<1>1. request[q].pc = "take"
  BY DEF PayAtOnce, At
<1>2. PICK t \in Sales : t = Of(q) /\ sale[t].basket \in Baskets
  BY <1>1, AtSale DEF PosInv
<1>3. stock' \in Nat /\ points' \in Nat
  BY <1>2, ConsumedTypes DEF PayAtOnce, PosInv, Consumed
<1>4. Coins(t) \in Int /\ Basket(t).earned \in Nat
  BY <1>2, Moves DEF PosInv
<1>5. drawer' \in Nat
  <2>1. drawer \in Nat /\ drawer' = drawer + Coins(t) /\ drawer' >= 0
    BY <1>2 DEF PayAtOnce, CashPaid, PosInv, TypeOK
  <2> QED
    BY <1>4, <2>1
<1> DEFINE paid == [sale[t] EXCEPT !.status = "completed", !.granted = Basket(t).earned,
                                   !.payment = "original", !.cash = Coins(t)]
<1>6. /\ sale' \in [Sales -> SaleState]
      /\ sale'[t].status = "completed" /\ sale'[t].payment = "original"
      /\ sale'[t].basket = sale[t].basket
      /\ \A u \in Sales \ {t} : sale'[u] = sale[u]
  <2>1. sale \in [Sales -> SaleState]
    BY DEF PosInv, TypeOK, SaleState
  <2>2. sale' = [sale EXCEPT ![t] = paid]
    BY <1>2 DEF PayAtOnce
  <2>3. /\ paid \in SaleState
        /\ paid.status = "completed" /\ paid.payment = "original" /\ paid.basket = sale[t].basket
    BY <1>4, <2>1 DEF SaleState, Statuses, Payments
  <2> QED
    BY <2>1, <2>2, <2>3
<1>7. /\ request' \in [Requests -> {Idle} \cup Working]
      /\ request'[q].pc = "finish" /\ request'[q].sale = t
      /\ \A p \in Requests \ {q} : request'[p] = request[p]
  BY <1>1, <1>2, GoesOn DEF PayAtOnce, PosInv, GoesTo, Steps, Statuses
<1>8. /\ slips' \in 0..MaxSlips
      /\ slips' = 0 => slips = 0 /\ sale[t].status = "draft"
  <2>1. TypeOK /\ CountsIf(sale[t].status # "draft")
    BY <1>2 DEF PayAtOnce, PosInv
  <2> QED
    BY <2>1, Counted DEF CountsIf
<1>9. checkout' = checkout
  BY DEF PayAtOnce, square, queue
<1>10. TypeOK'
  BY <1>3, <1>5, <1>6, <1>7, <1>8 DEF PayAtOnce, PosInv, TypeOK, SaleState, Working, Steps, square, queue
<1>11. SaleMoves(t)
  <2>1. slips' = 0 => MoneyAt(t)
    BY <1>8 DEF PosInv
  <2> QED
    BY <1>2, <1>6, <1>8, <1>9, <2>1 DEF SaleMoves, MoneyAt, CashKnown, Returnable
<1>12. RequestMoves(q)
  BY <1>6, <1>7 DEF RequestMoves, SeenAt, At
<1>13. ReturnsKept
  BY <1>1, <1>7, <1>8, ReturnsStay DEF PayAtOnce, square, queue, ReturnSteps
<1> QED
  BY <1>6, <1>7, <1>8, <1>9, <1>10, <1>11, <1>12, <1>13, StepKeeps DEF SaleStays

\* A step that writes one status, which is an open one or that of what is paid.
LEMMA StatusMoves ==
    ASSUME PosInv, NEW t \in Sales, NEW x \in Statuses \ {"none"},
           sale' = [sale EXCEPT ![t].status = x],
           sale[t].status # "none",
           checkout[t] = "paid" <=> checkout'[t] = "paid",
           slips' = 0 => /\ slips = 0
                         /\ sale[t].payment # "none" \/ checkout[t] = "paid" => x \in Returnable
                         /\ sale[t].status = "completed" => x = "completed"
    PROVE  /\ SaleMoves(t)
           /\ sale' \in [Sales -> SaleState]
           /\ \A u \in Sales \ {t} : sale'[u] = sale[u]
<1>1. TypeOK /\ x \in Statuses /\ sale[t] \in SaleState
  BY DEF PosInv, TypeOK, SaleState
<1>2. /\ sale' \in [Sales -> SaleState]
      /\ sale'[t] = [sale[t] EXCEPT !.status = x]
      /\ \A u \in Sales \ {t} : sale'[u] = sale[u]
  BY <1>1, StatusWritten
<1>3. /\ sale'[t].status = x /\ sale'[t].payment = sale[t].payment
      /\ sale'[t].basket = sale[t].basket /\ sale'[t].cash = sale[t].cash
  BY <1>1, <1>2 DEF SaleState
<1>4. sale[t].basket \in Baskets /\ CashKnown(t) /\ (slips' = 0 => MoneyAt(t))
  BY DEF PosInv, KnownOK
<1> QED
  BY <1>2, <1>3, <1>4 DEF SaleMoves, MoneyAt, CashKnown

LEMMA AskTerminalKeeps ==
    ASSUME PosInv, NEW q \in Requests, AskTerminal(q)
    PROVE  PosInv'
<1>1. request[q].pc = "take" /\ request[q].seen \in Statuses
  BY AtWork DEF AskTerminal, At, PosInv
<1>2. PICK t \in Sales : t = Of(q) /\ sale[t].basket \in Baskets /\ sale[t].status # "none"
  BY <1>1, AtSale DEF PosInv, KnownOK, Idle
<1>3. /\ checkout' \in [Sales -> {"none", "open", "paid", "canceled"}]
      /\ checkout[t] = "paid" <=> checkout'[t] = "paid"
      /\ \A u \in Sales \ {t} : checkout'[u] = checkout[u]
  BY <1>2 DEF AskTerminal, PosInv, TypeOK
<1>4. /\ request' \in [Requests -> {Idle} \cup Working]
      /\ request'[q].pc = "checkout" /\ request'[q].sale = t
      /\ \A p \in Requests \ {q} : request'[p] = request[p]
  BY <1>1, <1>2, GoesOn DEF AskTerminal, PosInv, GoesTo, Steps
<1>5. sale' = sale /\ slips' = slips
  BY DEF AskTerminal, rows
<1>6. TypeOK'
  BY <1>3, <1>4, <1>5 DEF AskTerminal, PosInv, TypeOK, Working, Steps, rows, queue
<1>7. SaleMoves(t) /\ RequestMoves(q)
  <2>1. CashKnown(t) /\ (slips' = 0 => MoneyAt(t))
    BY <1>5 DEF PosInv, KnownOK
  <2> QED
    BY <1>2, <1>3, <1>4, <1>5, <2>1 DEF SaleMoves, MoneyAt, CashKnown, RequestMoves, SeenAt, At
<1>8. ReturnsKept
  BY <1>1, <1>4, <1>5, ReturnsStay DEF AskTerminal, rows, ReturnSteps
<1> QED
  BY <1>3, <1>4, <1>5, <1>6, <1>7, <1>8, StepKeeps DEF SaleStays

LEMMA CommitKeeps ==
    ASSUME PosInv, NEW q \in Requests, Commit(q)
    PROVE  PosInv'
<1>1. request[q].pc = "checkout"
  BY DEF Commit, At
<1>2. PICK t \in Sales : t = Of(q) /\ sale[t].basket \in Baskets
  BY <1>1, AtSale DEF PosInv
<1>3. stock' \in Nat /\ points' \in Nat
  BY <1>2, ConsumedTypes DEF Commit, PosInv, Consumed
<1> DEFINE asked == [sale[t] EXCEPT !.status = "paying", !.granted = Basket(t).earned,
                                    !.asked = TRUE]
<1>4. /\ sale' \in [Sales -> SaleState]
      /\ sale'[t].status = "paying" /\ sale'[t].payment = sale[t].payment
      /\ sale'[t].basket = sale[t].basket /\ sale'[t].cash = sale[t].cash
      /\ \A u \in Sales \ {t} : sale'[u] = sale[u]
  <2>1. sale \in [Sales -> SaleState] /\ Basket(t).earned \in Nat
    BY <1>2, Moves DEF PosInv, TypeOK, SaleState
  <2>2. sale' = [sale EXCEPT ![t] = asked]
    BY <1>2 DEF Commit
  <2>3. /\ asked \in SaleState
        /\ asked.status = "paying" /\ asked.payment = sale[t].payment
        /\ asked.basket = sale[t].basket /\ asked.cash = sale[t].cash
    BY <2>1 DEF SaleState, Statuses
  <2> QED
    BY <2>1, <2>2, <2>3
<1>5. /\ request' \in [Requests -> {Idle} \cup Working]
      /\ request'[q].pc = "watch" /\ request'[q].sale = t
      /\ \A p \in Requests \ {q} : request'[p] = request[p]
  BY <1>1, <1>2, GoesOn DEF Commit, PosInv, GoesTo, Steps, Statuses
<1>6. /\ slips' \in 0..MaxSlips
      /\ slips' = 0 => slips = 0 /\ sale[t].status = "draft"
  <2>1. TypeOK /\ CountsIf(sale[t].status # "draft")
    BY <1>2 DEF Commit, PosInv
  <2> QED
    BY <2>1, Counted DEF CountsIf
<1>7. /\ checkout' = checkout /\ timer' \in [Sales -> {"none", "armed", "read"}]
      /\ deliveries' \in [Sales -> 0..MaxDeliveries]
  BY <1>2, PosAssumption DEF Commit, square, queue, TimerSet, PosInv, TypeOK
<1>8. TypeOK'
  BY <1>3, <1>4, <1>5, <1>6, <1>7 DEF Commit, PosInv, TypeOK, SaleState, Working, Steps, square, queue
<1>9. SaleMoves(t) /\ RequestMoves(q)
  <2>1. CashKnown(t) /\ (slips' = 0 => MoneyAt(t))
    BY <1>6 DEF PosInv, KnownOK
  <2> QED
    BY <1>2, <1>4, <1>5, <1>6, <1>7, <2>1
       DEF SaleMoves, MoneyAt, CashKnown, Returnable, RequestMoves, SeenAt, At
<1>10. ReturnsKept
  BY <1>1, <1>5, <1>6, ReturnsStay DEF Commit, square, queue, ReturnSteps
<1> QED
  BY <1>4, <1>5, <1>6, <1>7, <1>8, <1>9, <1>10, StepKeeps DEF SaleStays

LEMMA CleanKeeps ==
    ASSUME PosInv, NEW q \in Requests, Clean(q)
    PROVE  PosInv'
<1>1. request[q].pc = "clean" /\ slips \in 0..MaxSlips
  BY DEF Clean, At, PosInv, TypeOK
<1>2. PICK t \in Sales : t = Of(q) /\ sale[t].status # "none"
  BY <1>1, AtWork DEF PosInv, KnownOK, Idle
<1>3. CASE request[q].op # "new"
  BY <1>1, <1>3, WalksOff DEF Clean, ReturnSteps, rows
<1>4. CASE request[q].op = "new"
  <2>1. /\ sale' = [sale EXCEPT ![t].status = "canceled"]
        /\ CountsIf(Crossed(t, request[q].seen))
        /\ UNCHANGED <<back, stock, points, drawer, timer, deliveries, checkout, refund, answered, spent>>
    BY <1>2, <1>4 DEF Clean, square, queue
  <2>2. /\ slips' \in 0..MaxSlips
        /\ slips' = 0 => /\ slips = 0 /\ sale[t].status = request[q].seen
                         /\ checkout[t] = "paid" => sale[t].status = "completed"
    <3>1. TypeOK /\ Crossed(t, request[q].seen) \in BOOLEAN
      BY DEF PosInv, Crossed
    <3> QED
      BY <2>1, <3>1, Counted DEF CountsIf, Crossed
  <2>3. slips' = 0 => /\ sale[t].status \in {"draft", "canceled"}
                      /\ sale[t].payment = "none" /\ checkout[t] # "paid"
    BY <1>1, <2>2 DEF PosInv, SeenAt, MoneyAt, At, Returnable
  <2>4. /\ SaleMoves(t)
        /\ sale' \in [Sales -> SaleState]
        /\ \A u \in Sales \ {t} : sale'[u] = sale[u]
    BY <1>2, <2>1, <2>2, <2>3, StatusMoves DEF Statuses
  <2>5. /\ request' \in [Requests -> {Idle} \cup Working]
        /\ request'[q] = Idle
        /\ \A p \in Requests \ {q} : request'[p] = request[p]
    BY Ended DEF PosInv, Clean, Ends
  <2>6. TypeOK'
    BY <2>1, <2>2, <2>4, <2>5 DEF PosInv, TypeOK, SaleState, Working, Steps
  <2>7. RequestMoves(q) /\ ReturnsKept
    BY <1>1, <2>1, <2>2, <2>5, ReturnsStay DEF RequestMoves, SeenAt, At, Idle, ReturnSteps
  <2> QED
    BY <2>1, <2>2, <2>4, <2>5, <2>6, <2>7, StepKeeps DEF SaleStays
<1> QED
  BY <1>3, <1>4

LEMMA CancelKeeps ==
    ASSUME PosInv, NEW q \in Requests, Cancel(q)
    PROVE  PosInv'
<1>1. request[q].pc = "cancel"
  BY DEF Cancel, At
<1>2. PICK t \in Sales : t = Of(q) /\ sale[t].basket \in Baskets /\ sale[t].status # "none"
  BY <1>1, AtSale DEF PosInv, KnownOK, Idle
<1>3. /\ sale' = [sale EXCEPT ![t].status = "canceled"]
      /\ CountsIf(Crossed(t, request[q].seen))
      /\ UNCHANGED <<back, drawer, timer, deliveries, refund, answered, spent>>
  BY <1>2 DEF Cancel, queue
<1>4. stock' \in Nat /\ points' \in Nat
  <2>1. Returned(t) \/ UNCHANGED <<stock, points>>
    BY <1>2 DEF Cancel
  <2> QED
    BY <1>2, <2>1, ReturnedTypes DEF PosInv, TypeOK, Returned
<1>5. /\ checkout' \in [Sales -> {"none", "open", "paid", "canceled"}]
      /\ checkout[t] = "paid" <=> checkout'[t] = "paid"
      /\ \A u \in Sales \ {t} : checkout'[u] = checkout[u]
  BY <1>2 DEF Cancel, PosInv, TypeOK
<1>6. /\ slips' \in 0..MaxSlips
      /\ slips' = 0 => /\ slips = 0 /\ sale[t].status = request[q].seen
                       /\ checkout[t] = "paid" => sale[t].status = "completed"
  <2>1. TypeOK /\ Crossed(t, request[q].seen) \in BOOLEAN
    BY DEF PosInv, Crossed
  <2> QED
    BY <1>3, <2>1, Counted DEF CountsIf, Crossed
<1>7. slips' = 0 => /\ sale[t].status \in {"draft", "paying"}
                    /\ sale[t].payment = "none" /\ checkout[t] # "paid"
  <2>1. sale[t].payment \in Payments
    BY DEF PosInv, TypeOK
  <2>2. slips' = 0 => MoneyAt(t) /\ SeenAt(q)
    BY <1>6 DEF PosInv
  <2> QED
    BY <1>1, <1>6, <2>1, <2>2 DEF SeenAt, MoneyAt, At, Payments
<1>8. /\ SaleMoves(t)
      /\ sale' \in [Sales -> SaleState]
      /\ \A u \in Sales \ {t} : sale'[u] = sale[u]
  BY <1>2, <1>3, <1>5, <1>6, <1>7, StatusMoves DEF Statuses
<1>9. /\ request' \in [Requests -> {Idle} \cup Working]
      /\ request'[q] = Idle
      /\ \A p \in Requests \ {q} : request'[p] = request[p]
  BY Ended DEF PosInv, Cancel, Ends
<1>10. TypeOK'
  BY <1>3, <1>4, <1>5, <1>6, <1>8, <1>9 DEF PosInv, TypeOK, SaleState, Working, Steps
<1>11. RequestMoves(q) /\ ReturnsKept
  BY <1>1, <1>3, <1>6, <1>9, ReturnsStay DEF RequestMoves, SeenAt, At, Idle, ReturnSteps
<1> QED
  BY <1>5, <1>6, <1>8, <1>9, <1>10, <1>11, StepKeeps DEF SaleStays

LEMMA DropKeeps ==
    ASSUME PosInv, NEW q \in Requests, Drop(q)
    PROVE  PosInv'
<1>1. request[q].pc = "drop"
  BY DEF Drop, At
<1>2. PICK t \in Sales : t = Of(q) /\ sale[t].basket \in Baskets /\ sale[t].status # "none"
  BY <1>1, AtSale DEF PosInv, KnownOK, Idle
<1>3. /\ sale' = [sale EXCEPT ![t].status = "canceled"]
      /\ CountsIf(Crossed(t, "paying"))
      /\ UNCHANGED <<back, drawer, timer, deliveries, checkout, refund, answered, spent>>
  BY <1>2 DEF Drop, square, queue
<1>4. stock' \in Nat /\ points' \in Nat
  BY <1>2, ReturnedTypes DEF PosInv, Drop, Returned
<1>5. /\ slips' \in 0..MaxSlips
      /\ slips' = 0 => /\ slips = 0 /\ sale[t].status = "paying"
                       /\ checkout[t] # "paid" /\ sale[t].payment = "none"
  <2>1. TypeOK /\ Crossed(t, "paying") \in BOOLEAN
    BY DEF PosInv, Crossed
  <2>2. /\ slips' \in 0..MaxSlips
        /\ slips' = 0 => slips = 0 /\ sale[t].status = "paying" /\ checkout[t] # "paid"
    BY <1>3, <2>1, Counted DEF CountsIf, Crossed
  <2>3. slips' = 0 => MoneyAt(t)
    BY <2>2 DEF PosInv
  <2>4. sale[t].payment \in Payments
    BY DEF PosInv, TypeOK
  <2> QED
    BY <2>2, <2>3, <2>4 DEF MoneyAt, Payments
<1>6. /\ SaleMoves(t)
      /\ sale' \in [Sales -> SaleState]
      /\ \A u \in Sales \ {t} : sale'[u] = sale[u]
  BY <1>2, <1>3, <1>5, StatusMoves DEF Statuses
<1>7. /\ request' \in [Requests -> {Idle} \cup Working]
      /\ request'[q] = Idle
      /\ \A p \in Requests \ {q} : request'[p] = request[p]
  BY Ended DEF PosInv, Drop, Ends
<1>8. TypeOK'
  BY <1>3, <1>4, <1>5, <1>6, <1>7 DEF PosInv, TypeOK, SaleState, Working, Steps
<1>9. RequestMoves(q) /\ ReturnsKept
  BY <1>1, <1>3, <1>5, <1>7, ReturnsStay DEF RequestMoves, SeenAt, At, Idle, ReturnSteps
<1> QED
  BY <1>3, <1>5, <1>6, <1>7, <1>8, <1>9, StepKeeps DEF SaleStays

LEMMA TimeoutCommitKeeps ==
    ASSUME PosInv, NEW t \in Sales, TimeoutCommit(t)
    PROVE  PosInv'
<1>1. /\ sale' = [sale EXCEPT ![t].status = "draft"]
      /\ CountsIf(Crossed(t, "paying"))
      /\ timer' \in [Sales -> {"none", "armed", "read"}]
      /\ deliveries' \in [Sales -> 0..MaxDeliveries]
      /\ UNCHANGED <<back, drawer, request, checkout, refund, answered, spent>>
  BY PosAssumption DEF TimeoutCommit, square, queue, PosInv, TypeOK
<1>2. sale[t].status # "none" /\ sale[t].basket \in Baskets
  BY DEF TimeoutCommit, Returnable, PosInv, KnownOK
<1>3. stock' \in Nat /\ points' \in Nat
  BY <1>2, ReturnedTypes DEF PosInv, TimeoutCommit, Returned
<1>4. /\ slips' \in 0..MaxSlips
      /\ slips' = 0 => /\ slips = 0 /\ sale[t].status = "paying"
                       /\ checkout[t] # "paid" /\ sale[t].payment = "none"
  <2>1. TypeOK /\ Crossed(t, "paying") \in BOOLEAN
    BY DEF PosInv, Crossed
  <2>2. /\ slips' \in 0..MaxSlips
        /\ slips' = 0 => slips = 0 /\ sale[t].status = "paying" /\ checkout[t] # "paid"
    BY <1>1, <2>1, Counted DEF CountsIf, Crossed
  <2>3. slips' = 0 => MoneyAt(t)
    BY <2>2 DEF PosInv
  <2>4. sale[t].payment \in Payments
    BY DEF PosInv, TypeOK
  <2> QED
    BY <2>2, <2>3, <2>4 DEF MoneyAt, Payments
<1>5. /\ SaleMoves(t)
      /\ sale' \in [Sales -> SaleState]
      /\ \A u \in Sales \ {t} : sale'[u] = sale[u]
  BY <1>1, <1>2, <1>4, StatusMoves DEF Statuses
<1>6. TypeOK'
  BY <1>1, <1>3, <1>4, <1>5 DEF PosInv, TypeOK, SaleState
<1>7. ReturnsKept
  BY <1>1, <1>4, ReturnsStay
<1> QED
  BY <1>1, <1>4, <1>5, <1>6, <1>7, StepKeeps DEF SaleStays

LEMMA PaymentUpdatedKeeps ==
    ASSUME PosInv, NEW q \in Requests, NEW t \in Sales, PaymentUpdated(q, t)
    PROVE  PosInv'
<1>1. /\ request[q] = Idle
      /\ request' \in [Requests -> {Idle} \cup Working]
      /\ request'[q].sale = t /\ request'[q].pc = "complete"
      /\ \A p \in Requests \ {q} : request'[p] = request[p]
  BY Started DEF PosInv, PaymentUpdated, Starts, Operations, Steps
<1>2. /\ sale[t] \in SaleState /\ sale[t].status # "none" /\ sale[t].basket \in Baskets
      /\ checkout[t] = "paid" /\ sale \in [Sales -> SaleState]
  BY DEF PaymentUpdated, PosInv, TypeOK, SaleState, KnownOK
<1> DEFINE method == IF sale[t].payment = "none" THEN "square" ELSE sale[t].payment
<1>3. /\ sale' \in [Sales -> SaleState]
      /\ sale'[t].status = sale[t].status /\ sale'[t].payment = method
      /\ sale'[t].basket = sale[t].basket /\ sale'[t].cash = sale[t].cash
      /\ \A u \in Sales \ {t} : sale'[u] = sale[u]
  <2>1. sale' = [sale EXCEPT ![t] = [sale[t] EXCEPT !.payment = method]]
    BY DEF PaymentUpdated
  <2>2. [sale[t] EXCEPT !.payment = method] \in SaleState
    BY <1>2 DEF SaleState, Payments
  <2> QED
    BY <1>2, <2>1, <2>2 DEF SaleState
<1>4. UNCHANGED <<back, stock, points, drawer, timer, deliveries, checkout, refund, answered, spent, slips>>
  BY DEF PaymentUpdated, square, queue
<1>5. TypeOK'
  BY <1>1, <1>3, <1>4 DEF PosInv, TypeOK, SaleState, Working, Steps
<1>6. SaleMoves(t) /\ RequestMoves(q)
  <2>1. CashKnown(t) /\ (slips' = 0 => MoneyAt(t))
    BY <1>4 DEF PosInv, KnownOK
  <2> QED
    BY <1>1, <1>2, <1>3, <1>4, <2>1 DEF SaleMoves, MoneyAt, CashKnown, RequestMoves, SeenAt, At, Of
<1>7. ReturnsKept
  BY <1>1, <1>4, ReturnsStay DEF Idle, ReturnSteps
<1> QED
  BY <1>1, <1>3, <1>4, <1>5, <1>6, <1>7, StepKeeps DEF SaleStays

LEMMA CompleteKeeps ==
    ASSUME PosInv, NEW q \in Requests, Complete(q)
    PROVE  PosInv'
<1>1. request[q].pc = "complete"
  BY DEF Complete, At
<1>2. PICK t \in Sales : t = Of(q) /\ sale[t].status # "none"
  BY <1>1, AtWork DEF PosInv, KnownOK, Idle
<1>3. /\ sale' = [sale EXCEPT ![t].status = "completed"]
      /\ answered' \in [Sales -> BOOLEAN]
      /\ UNCHANGED <<back, stock, points, drawer, timer, deliveries, checkout, refund, spent, slips>>
  BY <1>2 DEF Complete, Completed, PosInv, TypeOK, queue
<1>4. /\ SaleMoves(t)
      /\ sale' \in [Sales -> SaleState]
      /\ \A u \in Sales \ {t} : sale'[u] = sale[u]
  BY <1>2, <1>3, StatusMoves DEF Statuses, Returnable
<1>5. /\ request' \in [Requests -> {Idle} \cup Working]
      /\ request'[q] = Idle
      /\ \A p \in Requests \ {q} : request'[p] = request[p]
  BY Ended DEF PosInv, Complete, Ends
<1>6. TypeOK'
  BY <1>3, <1>4, <1>5 DEF PosInv, TypeOK, SaleState, Working, Steps
<1>7. RequestMoves(q) /\ ReturnsKept
  BY <1>1, <1>3, <1>5, ReturnsStay DEF RequestMoves, SeenAt, At, Idle, ReturnSteps
<1> QED
  BY <1>3, <1>4, <1>5, <1>6, <1>7, StepKeeps DEF SaleStays

LEMMA CustomerPaysKeeps ==
    ASSUME PosInv, NEW t \in Sales, CustomerPays(t)
    PROVE  PosInv'
<1>1. /\ checkout' \in [Sales -> {"none", "open", "paid", "canceled"}]
      /\ checkout'[t] = "paid"
      /\ \A u \in Sales \ {t} : checkout'[u] = checkout[u]
      /\ sale' = sale
      /\ UNCHANGED <<back, stock, points, drawer, request, timer, deliveries, refund, answered, spent>>
  BY DEF CustomerPays, PosInv, TypeOK, rows, queue
<1>2. /\ slips' \in 0..MaxSlips
      /\ slips' = 0 => slips = 0 /\ sale[t].status = "paying"
  <2>1. TypeOK /\ CountsIf(sale[t].status # "paying")
    BY DEF CustomerPays, PosInv
  <2> QED
    BY <2>1, Counted DEF CountsIf
<1>3. TypeOK'
  BY <1>1, <1>2 DEF PosInv, TypeOK
<1>4. SaleMoves(t)
  <2>1. sale[t].status # "none" /\ sale[t].basket \in Baskets /\ CashKnown(t)
    BY DEF CustomerPays, PosInv, KnownOK
  <2>2. slips' = 0 => MoneyAt(t)
    BY <1>2 DEF PosInv
  <2> QED
    BY <1>1, <1>2, <2>1, <2>2 DEF SaleMoves, MoneyAt, CashKnown, Returnable
<1>5. ReturnsKept
  BY <1>1, <1>2, ReturnsStay
<1> QED
  BY <1>1, <1>2, <1>3, <1>4, <1>5, StepKeeps DEF SaleStays

LEMMA CheckoutEndsKeeps ==
    ASSUME PosInv, NEW t \in Sales, CheckoutEnds(t)
    PROVE  PosInv'
<1>1. /\ checkout' \in [Sales -> {"none", "open", "paid", "canceled"}]
      /\ checkout[t] = "open" /\ checkout'[t] = "canceled"
      /\ \A u \in Sales \ {t} : checkout'[u] = checkout[u]
      /\ sale' = sale
      /\ UNCHANGED <<back, stock, points, drawer, request, timer, deliveries, refund, answered, spent, slips>>
  BY DEF CheckoutEnds, PosInv, TypeOK, rows, queue
<1>2. TypeOK'
  BY <1>1 DEF PosInv, TypeOK
<1>3. SaleMoves(t)
  <2>1. sale[t].status # "none" /\ sale[t].basket \in Baskets /\ CashKnown(t)
    BY <1>1 DEF PosInv, KnownOK
  <2>2. slips' = 0 => MoneyAt(t)
    BY <1>1 DEF PosInv
  <2> QED
    BY <1>1, <2>1, <2>2 DEF SaleMoves, MoneyAt, CashKnown
<1>4. ReturnsKept
  BY <1>1, ReturnsStay
<1> QED
  BY <1>1, <1>2, <1>3, <1>4, StepKeeps DEF SaleStays

\* The messages of the timeout, and points spent elsewhere.
LEMMA QuietStepsKeep ==
    ASSUME PosInv,
           Spend \/ \E t \in Sales : TimeoutRead(t) \/ TimeoutFails(t) \/ WorkerDies(t)
    PROVE  PosInv'
<1>1. UNCHANGED <<sale, back, stock, drawer, request, checkout, refund, answered, slips>>
  BY DEF Spend, TimeoutRead, TimeoutFails, WorkerDies, Undelivered, rows, square
<1>2. /\ points' \in Nat /\ spent' \in 0..MaxSpent
      /\ timer' \in [Sales -> {"none", "armed", "read"}]
      /\ deliveries' \in [Sales -> 0..MaxDeliveries]
  <2>1. /\ points \in Nat /\ spent \in 0..MaxSpent
        /\ timer \in [Sales -> {"none", "armed", "read"}]
        /\ deliveries \in [Sales -> 0..MaxDeliveries]
        /\ MaxSpent \in Nat /\ MaxDeliveries \in Nat
    BY PosAssumption DEF PosInv, TypeOK
  <2>2. CASE Spend
    BY <2>1, <2>2 DEF Spend, queue
  <2>3. ASSUME NEW t \in Sales, TimeoutRead(t)
        PROVE  /\ timer' \in [Sales -> {"none", "armed", "read"}] /\ UNCHANGED <<points, spent>>
               /\ deliveries' \in [Sales -> 0..MaxDeliveries]
    <3>1. (IF StillPaying(t) THEN deliveries[t] + 1 ELSE 0) \in 0..MaxDeliveries
      BY <2>1, <2>3 DEF TimeoutRead
    <3> QED
      BY <2>1, <2>3, <3>1 DEF TimeoutRead, rows
  <2>4. CASE \E t \in Sales : TimeoutFails(t) \/ WorkerDies(t)
    BY <2>1, <2>4 DEF TimeoutFails, WorkerDies, Undelivered, rows
  <2> QED
    BY <2>1, <2>2, <2>3, <2>4
<1>3. TypeOK'
  BY <1>1, <1>2 DEF PosInv, TypeOK
<1>4. ReturnsKept
  BY <1>1, ReturnsStay
<1> QED
  BY <1>1, <1>3, <1>4, StepKeeps DEF SaleStays

-----------------------------------------------------------------------------
(* Returns.                                                                *)

LEMMA ReturnersFinite ==
    ASSUME NEW t \in Sales
    PROVE  IsFiniteSet(Returners(t)) /\ Cardinality(Returners(t)) \in Nat
<1>1. IsFiniteSet(Requests) /\ Returners(t) \subseteq Requests
  BY PosAssumption DEF Returners
<1>2. IsFiniteSet(Returners(t))
  BY <1>1, FS_Subset
<1> QED
  BY <1>2, FS_CardinalityType

\* A request that is not at a return any more holds no link.
LEMMA LeavesReturn ==
    ASSUME NEW q \in Requests, request'[q].pc \notin {"giveback", "refund"},
           \A p \in Requests \ {q} : request'[p] = request[p], NEW t \in Sales
    PROVE  Cardinality(Returners(t)') =
              Cardinality(Returners(t)) - (IF q \in Returners(t) THEN 1 ELSE 0)
<1>1. Returners(t)' = Returners(t) \ {q}
  BY DEF Returners, Returning, Of
<1>2. Cardinality(Returners(t) \ {q}) =
         IF q \in Returners(t) THEN Cardinality(Returners(t)) - 1 ELSE Cardinality(Returners(t))
  BY ReturnersFinite, FS_RemoveElement
<1> QED
  BY <1>1, <1>2, ReturnersFinite

\* A request that goes on to give back holds one link of its transaction, as it did before
\* or in addition.
LEMMA HoldsLink ==
    ASSUME NEW q \in Requests, request'[q].pc \in {"giveback", "refund"},
           request'[q].sale = Of(q),
           \A p \in Requests \ {q} : request'[p] = request[p], NEW t \in Sales
    PROVE  Cardinality(Returners(t)') =
              Cardinality(Returners(t)) + (IF Of(q) = t /\ q \notin Returners(t) THEN 1 ELSE 0)
<1>1. CASE Of(q) = t
  <2>1. Returners(t)' = Returners(t) \cup {q}
    BY <1>1 DEF Returners, Returning, Of
  <2>2. Cardinality(Returners(t) \cup {q}) =
           IF q \in Returners(t) THEN Cardinality(Returners(t)) ELSE Cardinality(Returners(t)) + 1
    BY ReturnersFinite, FS_AddElement
  <2> QED
    BY <1>1, <2>1, <2>2, ReturnersFinite
<1>2. CASE Of(q) # t
  <2>1. Returners(t)' = Returners(t)
    BY <1>2 DEF Returners, Returning, Of
  <2> QED
    BY <1>2, <2>1, ReturnersFinite
<1> QED
  BY <1>1, <1>2

LEMMA ReturnReadKeeps ==
    ASSUME PosInv, NEW q \in Requests, NEW t \in Sales, ReturnRead(q, t)
    PROVE  PosInv'
<1>1. /\ request[q] = Idle
      /\ request' \in [Requests -> {Idle} \cup Working]
      /\ request'[q].sale = t /\ request'[q].pc = "return"
      /\ request'[q].links = 0
      /\ \A p \in Requests \ {q} : request'[p] = request[p]
  BY Started DEF PosInv, ReturnRead, MayBeReturned, Starts, Operations, Steps
<1>2. UNCHANGED <<sale, back, stock, points, drawer, timer, deliveries, checkout, refund, answered, spent, slips>>
  BY DEF ReturnRead, rows, square, queue
<1>3. sale[t].status = "completed"
  BY DEF ReturnRead, MayBeReturned
<1>4. TypeOK'
  BY <1>1, <1>2 DEF PosInv, TypeOK, Working, Steps
<1>5. RequestMoves(q)
  BY <1>1, <1>2, <1>3 DEF RequestMoves, SeenAt, At
<1>6. ReturnsKept
  <2>1. \A p \in Requests : /\ Returning(p)' = Returning(p)
                            /\ At(p, "refund")' = At(p, "refund")
                            /\ Returning(p) => Of(p)' = Of(p) /\ p # q
                            /\ At(p, "refund") => Of(p)' = Of(p)
    BY <1>1 DEF Returning, At, Idle, Of
  <2>2. \A u \in Sales : Returners(u)' = Returners(u)
    BY <2>1 DEF Returners
  <2>3. LinksOK'
    BY <1>2, <2>2 DEF PosInv, LinksOK
  <2>4. ASSUME slips' = 0
        PROVE  ReturnsOK'
    <3>1. ReturnsOK
      BY <1>2, <2>4 DEF PosInv
    <3>2. \A p \in Requests : At(p, "return")' => request'[p].links = 0
      BY <1>1, <3>1 DEF ReturnsOK, At
    <3> QED
      BY <1>2, <2>1, <3>1, <3>2 DEF ReturnsOK
  <2> QED
    BY <2>3, <2>4 DEF ReturnsKept
<1> QED
  BY <1>1, <1>2, <1>4, <1>5, <1>6, StepKeeps DEF SaleStays

LEMMA ReturnCreateKeeps ==
    ASSUME PosInv, NEW q \in Requests, ReturnCreate(q)
    PROVE  PosInv'
<1>1. request[q].pc = "return"
  BY DEF ReturnCreate, At
<1>2. PICK t \in Sales : t = Of(q) /\ sale[t].status # "none"
  BY <1>1, AtWork DEF PosInv, KnownOK, Idle
<1>3. /\ request' \in [Requests -> {Idle} \cup Working]
      /\ request'[q].pc = "giveback" /\ request'[q].sale = t
      /\ \A p \in Requests \ {q} : request'[p] = request[p]
  BY <1>1, <1>2, GoesOn DEF ReturnCreate, PosInv, GoesTo, Steps, Statuses
<1>4. UNCHANGED <<sale, stock, points, drawer, timer, deliveries, checkout, refund, answered, spent>>
  BY DEF ReturnCreate, square, queue
<1>5. /\ back' \in [Sales -> BackState]
      /\ back'[t].linked = back[t].linked + 1 /\ back'[t].done = back[t].done
      /\ back[t].linked \in Nat /\ back[t].done \in Nat
      /\ \A u \in Sales \ {t} : back'[u] = back[u]
  <2>1. back \in [Sales -> BackState]
    BY DEF PosInv, TypeOK, BackState
  <2>2. back' = [back EXCEPT ![t] = [back[t] EXCEPT !.linked = back[t].linked + 1]]
    BY <1>2 DEF ReturnCreate
  <2>3. [back[t] EXCEPT !.linked = back[t].linked + 1] \in BackState
    BY <2>1 DEF BackState
  <2> QED
    BY <2>1, <2>2, <2>3 DEF BackState
<1>6. /\ slips' \in 0..MaxSlips
      /\ slips' = 0 => slips = 0 /\ back[t].linked = request[q].links
  <2>1. TypeOK /\ CountsIf(back[t].linked # request[q].links \/ sale[t].status # "completed")
    BY <1>2 DEF ReturnCreate, PosInv
  <2> QED
    BY <2>1, Counted DEF CountsIf
<1>7. TypeOK'
  BY <1>3, <1>4, <1>5, <1>6 DEF PosInv, TypeOK, BackState, Working, Steps
<1>8. RequestMoves(q)
  BY <1>2, <1>3, <1>4 DEF RequestMoves, SeenAt, At
<1>9. LinksOK'
  <2>1. ASSUME NEW u \in Sales
        PROVE  back'[u].linked >= Cardinality(Returners(u)')
    <3>1. Cardinality(Returners(u)') =
             Cardinality(Returners(u)) + (IF Of(q) = u /\ q \notin Returners(u) THEN 1 ELSE 0)
      BY <1>2, <1>3, HoldsLink
    <3>2. back[u].linked >= Cardinality(Returners(u)) /\ back[u].linked \in Nat
      BY DEF PosInv, LinksOK, TypeOK
    <3> QED
      BY <1>2, <1>5, <3>1, <3>2, ReturnersFinite
  <2> QED
    BY <2>1 DEF LinksOK
<1>10. ASSUME slips' = 0
       PROVE  ReturnsOK'
  <2>1. ReturnsOK /\ back[t].linked = 0 /\ back[t].done = 0
    BY <1>1, <1>5, <1>6, <1>10 DEF PosInv, ReturnsOK, At
  <2>2. \A p \in Requests : Returning(p) => Of(p) # t /\ p # q
    BY <1>1, <2>1 DEF ReturnsOK, Returning
  <2>3. \A p \in Requests \ {q} : /\ Returning(p)' = Returning(p)
                                  /\ At(p, "refund")' = At(p, "refund")
                                  /\ At(p, "return")' = At(p, "return")
                                  /\ Of(p)' = Of(p) /\ request'[p].links = request[p].links
    BY <1>3 DEF Returning, At, Of
  <2>4. /\ Returning(q)' /\ Of(q)' = t /\ ~At(q, "return")'
        /\ ~At(q, "refund") /\ ~At(q, "refund")' /\ Of(q) = t
    BY <1>1, <1>2, <1>3 DEF Returning, At, Of
  <2>5. refund[t] = "none"
    BY <2>1, <2>2 DEF ReturnsOK, Returning, At
  <2>6. ASSUME NEW u \in Sales
        PROVE  /\ back'[u].linked <= 1 /\ back'[u].done <= back'[u].linked
               /\ refund'[u] # "none" =>
                     back'[u].done = 1 \/ \E p \in Requests : Of(p)' = u /\ At(p, "refund")'
    BY <1>4, <1>5, <2>1, <2>3, <2>4, <2>5 DEF ReturnsOK
  <2>7. ASSUME NEW p \in Requests
        PROVE  /\ Returning(p)' => back'[Of(p)'].linked = 1 /\ back'[Of(p)'].done = 0
               /\ At(p, "return")' => request'[p].links = 0
    <3>1. CASE p = q
      BY <1>5, <2>1, <2>4, <3>1
    <3>2. CASE p # q
      <4>1. Returning(p) => Of(p) \in Sales \ {t}
        BY <2>2, AtWork DEF PosInv, Returning
      <4> QED
        BY <1>5, <2>1, <2>3, <3>2, <4>1 DEF ReturnsOK
    <3> QED
      BY <3>1, <3>2
  <2>8. \A o, p \in Requests : Returning(o)' /\ Returning(p)' /\ Of(o)' = Of(p)' => o = p
    BY <2>1, <2>2, <2>3, <2>4 DEF ReturnsOK
  <2> QED
    BY <2>6, <2>7, <2>8 DEF ReturnsOK
<1> QED
  BY <1>3, <1>4, <1>6, <1>7, <1>8, <1>9, <1>10, StepKeeps DEF SaleStays, ReturnsKept

\* The goods and the points come back, and with them the link is used up.
LEMMA CompletesReturn ==
    ASSUME PosInv, NEW q \in Requests, NEW t \in Sales, t = Of(q), Returning(q),
           request'[q] = Idle, \A p \in Requests \ {q} : request'[p] = request[p],
           back'[t].linked = back[t].linked, back'[t].done = back[t].done + 1,
           \A u \in Sales \ {t} : back'[u] = back[u],
           refund' = refund, slips' = 0 => slips = 0
    PROVE  ReturnsKept
<1>1. request'[q].pc = "idle"
  BY DEF Idle
<1>2. LinksOK'
  <2>1. ASSUME NEW u \in Sales
        PROVE  back'[u].linked >= Cardinality(Returners(u)')
    <3>1. Cardinality(Returners(u)') =
             Cardinality(Returners(u)) - (IF q \in Returners(u) THEN 1 ELSE 0)
      BY <1>1, LeavesReturn
    <3>2. back[u].linked >= Cardinality(Returners(u)) /\ back[u].linked \in Nat
      BY DEF PosInv, LinksOK, TypeOK
    <3> QED
      BY <3>1, <3>2, ReturnersFinite
  <2> QED
    BY <2>1 DEF LinksOK
<1>3. ASSUME slips' = 0
      PROVE  ReturnsOK'
  <2>1. ReturnsOK /\ back[t].linked = 1 /\ back[t].done = 0
    BY <1>3 DEF PosInv, ReturnsOK
  <2>2. \A p \in Requests \ {q} : /\ Returning(p)' = Returning(p)
                                  /\ At(p, "refund")' = At(p, "refund")
                                  /\ At(p, "return")' = At(p, "return")
                                  /\ Of(p)' = Of(p) /\ request'[p].links = request[p].links
    BY DEF Returning, At, Of
  <2>3. ~Returning(q)' /\ ~At(q, "return")'
    BY <1>1 DEF Returning, At
  <2>4. \A p \in Requests \ {q} : Returning(p) => Of(p) \in Sales \ {t}
    BY <2>1, AtWork DEF PosInv, ReturnsOK, Returning
  <2>5. ASSUME NEW u \in Sales
        PROVE  /\ back'[u].linked <= 1 /\ back'[u].done <= back'[u].linked
               /\ refund'[u] # "none" =>
                     back'[u].done = 1 \/ \E p \in Requests : Of(p)' = u /\ At(p, "refund")'
    <3>1. CASE u = t
      BY <2>1, <3>1
    <3>2. CASE u # t
      BY <2>1, <2>2, <3>2 DEF ReturnsOK
    <3> QED
      BY <3>1, <3>2
  <2>6. ASSUME NEW p \in Requests
        PROVE  /\ Returning(p)' => back'[Of(p)'].linked = 1 /\ back'[Of(p)'].done = 0
               /\ At(p, "return")' => request'[p].links = 0
    BY <2>1, <2>2, <2>3, <2>4 DEF ReturnsOK
  <2>7. \A o, p \in Requests : Returning(o)' /\ Returning(p)' /\ Of(o)' = Of(p)' => o = p
    BY <2>1, <2>2, <2>3 DEF ReturnsOK
  <2> QED
    BY <2>5, <2>6, <2>7 DEF ReturnsOK
<1> QED
  BY <1>2, <1>3 DEF ReturnsKept

LEMMA GiveBackKeeps ==
    ASSUME PosInv, NEW q \in Requests, GiveBack(q)
    PROVE  PosInv'
<1>1. request[q].pc = "giveback" /\ Returning(q)
  BY DEF GiveBack, At, Returning
<1>2. PICK t \in Sales : t = Of(q) /\ sale[t].basket \in Baskets
  BY <1>1, AtSale DEF PosInv
<1>3. stock' \in Nat /\ points' \in Nat
  BY <1>2, ReturnedTypes DEF PosInv, GiveBack, Returned
<1>4. CashBack(t) \in Int
  BY <1>2, Moves DEF PosInv, CashBack
<1>5. drawer' \in Nat
  <2>1. drawer \in Nat /\ drawer - CashBack(t) >= 0 /\ drawer' = drawer - CashBack(t)
    BY <1>2 DEF GiveBack, PosInv, TypeOK
  <2> QED
    BY <1>4, <2>1
<1>6. /\ back' \in [Sales -> BackState]
      /\ back'[t].linked = back[t].linked /\ back'[t].done = back[t].done + 1
      /\ \A u \in Sales \ {t} : back'[u] = back[u]
  <2>1. back \in [Sales -> BackState]
    BY DEF PosInv, TypeOK, BackState
  <2>2. back' = [back EXCEPT ![t] = [back[t] EXCEPT !.done = back[t].done + 1,
                                                    !.cash = back[t].cash + CashBack(t)]]
    BY <1>2 DEF GiveBack
  <2>3. [back[t] EXCEPT !.done = back[t].done + 1,
                        !.cash = back[t].cash + CashBack(t)] \in BackState
    <3>1. back[t] \in BackState /\ back[t].done + 1 \in Nat /\ back[t].cash \in Int
      BY <2>1 DEF BackState
    <3>2. back[t].cash + CashBack(t) \in Int
      BY <1>4, <3>1
    <3> QED
      BY <3>1, <3>2 DEF BackState
  <2> QED
    BY <2>1, <2>2, <2>3 DEF BackState
<1>7. /\ request' \in [Requests -> {Idle} \cup Working]
      /\ request'[q] = Idle
      /\ \A p \in Requests \ {q} : request'[p] = request[p]
  BY Ended DEF PosInv, GiveBack, Ends
<1>8. slips' \in 0..MaxSlips /\ (slips' = 0 => slips = 0)
  <2>1. TypeOK /\ CountsIf(sale[t].status # "completed")
    BY <1>2 DEF GiveBack, PosInv
  <2> QED
    BY <2>1, Counted DEF CountsIf
<1>9. UNCHANGED <<sale, timer, deliveries, checkout, refund, answered, spent>>
  BY DEF GiveBack, square, queue
<1>10. TypeOK'
  BY <1>3, <1>5, <1>6, <1>7, <1>8, <1>9 DEF PosInv, TypeOK, BackState, Working, Steps
<1>11. RequestMoves(q)
  BY <1>7 DEF RequestMoves, SeenAt, At, Idle
<1>12. ReturnsKept
  BY <1>1, <1>2, <1>6, <1>7, <1>8, <1>9, CompletesReturn
<1> QED
  BY <1>7, <1>8, <1>9, <1>10, <1>11, <1>12, StepKeeps DEF SaleStays

LEMMA RefundCommitKeeps ==
    ASSUME PosInv, NEW q \in Requests, RefundCommit(q)
    PROVE  PosInv'
<1>1. request[q].pc = "refund" /\ Returning(q)
  BY DEF RefundCommit, At, Returning
<1>2. PICK t \in Sales : t = Of(q) /\ sale[t].basket \in Baskets
  BY <1>1, AtSale DEF PosInv
<1>3. stock' \in Nat /\ points' \in Nat
  BY <1>2, ReturnedTypes DEF PosInv, RefundCommit, Returned
<1>4. /\ back' \in [Sales -> BackState]
      /\ back'[t].linked = back[t].linked /\ back'[t].done = back[t].done + 1
      /\ \A u \in Sales \ {t} : back'[u] = back[u]
  <2>1. back \in [Sales -> BackState]
    BY DEF PosInv, TypeOK, BackState
  <2>2. back' = [back EXCEPT ![t] = [back[t] EXCEPT !.done = back[t].done + 1]]
    BY <1>2 DEF RefundCommit
  <2>3. [back[t] EXCEPT !.done = back[t].done + 1] \in BackState
    BY <2>1 DEF BackState
  <2> QED
    BY <2>1, <2>2, <2>3 DEF BackState
<1>5. /\ request' \in [Requests -> {Idle} \cup Working]
      /\ request'[q] = Idle
      /\ \A p \in Requests \ {q} : request'[p] = request[p]
  BY Ended DEF PosInv, RefundCommit, Ends
<1>6. slips' \in 0..MaxSlips /\ (slips' = 0 => slips = 0)
  <2>1. TypeOK /\ CountsIf(sale[t].status # "completed")
    BY <1>2 DEF RefundCommit, PosInv
  <2> QED
    BY <2>1, Counted DEF CountsIf
<1>7. UNCHANGED <<sale, drawer, timer, deliveries, checkout, refund, answered, spent>>
  BY DEF RefundCommit, square, queue
<1>8. TypeOK'
  BY <1>3, <1>4, <1>5, <1>6, <1>7 DEF PosInv, TypeOK, BackState, Working, Steps
<1>9. RequestMoves(q)
  BY <1>5 DEF RequestMoves, SeenAt, At, Idle
<1>10. ReturnsKept
  BY <1>1, <1>2, <1>4, <1>5, <1>6, <1>7, CompletesReturn
<1> QED
  BY <1>5, <1>6, <1>7, <1>8, <1>9, <1>10, StepKeeps DEF SaleStays

\* A return goes on to Square, or waits for its answer.
LEMMA StaysReturning ==
    ASSUME PosInv, NEW q \in Requests, Returning(q), At(q, "refund")', Of(q)' = Of(q),
           \A p \in Requests \ {q} : request'[p] = request[p],
           back' = back, slips' = 0 => slips = 0,
           \A u \in Sales : refund'[u] # "none" => refund[u] # "none" \/ u = Of(q)
    PROVE  ReturnsKept
<1>1. \A p \in Requests : /\ Returning(p)' = Returning(p)
                          /\ At(p, "refund") => At(p, "refund")'
                          /\ At(p, "return")' = At(p, "return")
                          /\ Of(p)' = Of(p)
                          /\ At(p, "return") => request'[p].links = request[p].links
  BY DEF Returning, At, Of
<1>2. \A u \in Sales : Returners(u)' = Returners(u)
  BY <1>1 DEF Returners
<1>3. LinksOK'
  BY <1>2 DEF PosInv, LinksOK
<1>4. ASSUME slips' = 0
      PROVE  ReturnsOK'
  <2>1. ReturnsOK
    BY <1>4 DEF PosInv
  <2>2. ASSUME NEW u \in Sales, refund'[u] # "none"
        PROVE  back'[u].done = 1 \/ \E p \in Requests : Of(p)' = u /\ At(p, "refund")'
    BY <1>1, <2>1, <2>2 DEF ReturnsOK
  <2> QED
    BY <1>1, <2>1, <2>2 DEF ReturnsOK
<1> QED
  BY <1>3, <1>4 DEF ReturnsKept

LEMMA RefundStepsKeep ==
    ASSUME PosInv, NEW q \in Requests, AskRefund(q) \/ RefundUpdated(q)
    PROVE  PosInv'
<1>1. request[q].pc \in {"giveback", "refund"} /\ Returning(q)
  BY DEF AskRefund, RefundUpdated, At, Returning
<1>2. PICK t \in Sales : t = Of(q) /\ sale[t].status # "none"
  BY <1>1, AtWork DEF PosInv, KnownOK, Idle
<1>3. PICK seen \in {"draft", "completed"} : GoesTo(q, "refund", seen)
  BY DEF AskRefund, RefundUpdated
<1>4. /\ request' \in [Requests -> {Idle} \cup Working]
      /\ request'[q].pc = "refund" /\ request'[q].sale = t
      /\ \A p \in Requests \ {q} : request'[p] = request[p]
  <2>1. TypeOK /\ request[q].pc # "idle"
    BY <1>1 DEF PosInv
  <2>2. CASE seen = "draft"
    <3>1. GoesTo(q, "refund", "draft")
      BY <1>3, <2>2
    <3> QED
      BY <1>2, <2>1, <3>1, GoesOn DEF GoesTo, Steps, Statuses
  <2>3. CASE seen = "completed"
    <3>1. GoesTo(q, "refund", "completed")
      BY <1>3, <2>3
    <3> QED
      BY <1>2, <2>1, <3>1, GoesOn DEF GoesTo, Steps, Statuses
  <2> QED
    BY <2>2, <2>3
<1>5. UNCHANGED <<sale, back, stock, points, drawer, timer, deliveries, checkout, answered, spent, slips>>
  BY DEF AskRefund, RefundUpdated, rows, square, queue
<1>6. /\ refund' \in [Sales -> {"none", "asked", "done"}]
      /\ \A u \in Sales : refund'[u] # "none" => refund[u] # "none" \/ u = t
  BY <1>2 DEF AskRefund, RefundUpdated, square, queue, PosInv, TypeOK
<1>7. TypeOK'
  BY <1>4, <1>5, <1>6 DEF PosInv, TypeOK, Working, Steps
<1>8. RequestMoves(q)
  BY <1>2, <1>4, <1>5 DEF RequestMoves, SeenAt, At
<1>9. ReturnsKept
  <2>1. At(q, "refund")' /\ Of(q)' = Of(q)
    BY <1>2, <1>4 DEF At, Of
  <2> QED
    BY <1>1, <1>2, <1>4, <1>5, <1>6, <2>1, StaysReturning
<1> QED
  BY <1>4, <1>5, <1>7, <1>8, <1>9, StepKeeps DEF SaleStays

LEMMA RefundDoneKeeps ==
    ASSUME PosInv, NEW t \in Sales, RefundDone(t)
    PROVE  PosInv'
<1>1. /\ UNCHANGED <<sale, back, stock, points, drawer, request, timer, deliveries, checkout, answered, spent, slips>>
      /\ refund' \in [Sales -> {"none", "asked", "done"}]
      /\ \A u \in Sales : refund'[u] # "none" => refund[u] # "none"
  BY DEF RefundDone, rows, PosInv, TypeOK, queue
<1>2. TypeOK'
  BY <1>1 DEF PosInv, TypeOK
<1>3. ReturnsKept
  <2>1. LinksOK'
    BY <1>1 DEF PosInv, LinksOK, Returners, Returning, Of
  <2>2. ASSUME slips' = 0
        PROVE  ReturnsOK'
    <3>1. ReturnsOK
      BY <1>1, <2>2 DEF PosInv
    <3> QED
      BY <1>1, <3>1 DEF ReturnsOK, Returning, At, Of
  <2> QED
    BY <2>1, <2>2 DEF ReturnsKept
<1> QED
  BY <1>1, <1>2, <1>3, StepKeeps DEF SaleStays

LEMMA ReturnFailsKeeps ==
    ASSUME PosInv, NEW q \in Requests, ReturnFails(q)
    PROVE  PosInv'
<1>1. request[q].pc \in {"giveback", "refund"} /\ Returning(q)
  BY DEF ReturnFails, Returning
<1>2. PICK t \in Sales : t = Of(q) /\ sale[t].status # "none"
  BY <1>1, AtWork DEF PosInv, KnownOK, Idle
<1>3. /\ request' \in [Requests -> {Idle} \cup Working]
      /\ request'[q] = Idle
      /\ \A p \in Requests \ {q} : request'[p] = request[p]
  BY Ended DEF PosInv, ReturnFails, Ends
<1>4. /\ slips' \in 0..MaxSlips
      /\ slips' = 0 => slips = 0 /\ request[q].pc = "giveback"
  <2>1. TypeOK /\ CountsIf(At(q, "refund")) /\ At(q, "refund") \in BOOLEAN
    BY DEF ReturnFails, PosInv, At
  <2> QED
    BY <1>1, <2>1, Counted DEF CountsIf, At
<1>5. UNCHANGED <<sale, stock, points, drawer, timer, deliveries, checkout, refund, answered, spent>>
  BY DEF ReturnFails, square, queue
\* The request itself is one of those that hold a link.
<1>6. q \in Returners(t) /\ back[t].linked - 1 \in Nat
  <2>1. q \in Returners(t) /\ back[t].linked >= Cardinality(Returners(t)) /\ back[t].linked \in Nat
    BY <1>1, <1>2 DEF Returners, PosInv, LinksOK, TypeOK
  <2>2. Cardinality(Returners(t)) # 0
    BY <2>1, ReturnersFinite, FS_EmptySet
  <2> QED
    BY <2>1, <2>2, ReturnersFinite
<1>7. /\ back' \in [Sales -> BackState]
      /\ back'[t].linked = back[t].linked - 1 /\ back'[t].done = back[t].done
      /\ \A u \in Sales \ {t} : back'[u] = back[u]
  <2>1. back \in [Sales -> BackState]
    BY DEF PosInv, TypeOK, BackState
  <2>2. back' = [back EXCEPT ![t] = [back[t] EXCEPT !.linked = back[t].linked - 1]]
    BY <1>2 DEF ReturnFails, Unlinked
  <2>3. [back[t] EXCEPT !.linked = back[t].linked - 1] \in BackState
    BY <1>6, <2>1 DEF BackState
  <2> QED
    BY <2>1, <2>2, <2>3 DEF BackState
<1>8. TypeOK'
  BY <1>3, <1>4, <1>5, <1>7 DEF PosInv, TypeOK, BackState, Working, Steps
<1>9. RequestMoves(q)
  BY <1>3 DEF RequestMoves, SeenAt, At, Idle
<1>10. LinksOK'
  <2>1. ASSUME NEW u \in Sales
        PROVE  back'[u].linked >= Cardinality(Returners(u)')
    <3>1. Cardinality(Returners(u)') =
             Cardinality(Returners(u)) - (IF q \in Returners(u) THEN 1 ELSE 0)
      BY <1>3, LeavesReturn DEF Idle
    <3>2. back[u].linked >= Cardinality(Returners(u)) /\ back[u].linked \in Nat
      BY DEF PosInv, LinksOK, TypeOK
    <3> QED
      BY <1>6, <1>7, <3>1, <3>2, ReturnersFinite
  <2> QED
    BY <2>1 DEF LinksOK
<1>11. ASSUME slips' = 0
       PROVE  ReturnsOK'
  <2>1. /\ ReturnsOK /\ back[t].linked = 1 /\ back[t].done = 0
        /\ ~At(q, "refund")
    BY <1>1, <1>2, <1>4, <1>11 DEF PosInv, ReturnsOK, At
  <2>2. \A p \in Requests \ {q} : /\ Returning(p)' = Returning(p)
                                  /\ At(p, "refund")' = At(p, "refund")
                                  /\ At(p, "return")' = At(p, "return")
                                  /\ Of(p)' = Of(p) /\ request'[p].links = request[p].links
    BY <1>3 DEF Returning, At, Of
  <2>3. ~Returning(q)' /\ ~At(q, "return")'
    BY <1>3 DEF Returning, At, Idle
  <2>4. \A p \in Requests \ {q} : Returning(p) => Of(p) \in Sales \ {t}
    BY <1>1, <1>2, <2>1, AtWork DEF PosInv, ReturnsOK, Returning
  <2>5. refund[t] = "none"
    BY <2>1, <2>4 DEF ReturnsOK, Returning, At
  <2>6. ASSUME NEW u \in Sales
        PROVE  /\ back'[u].linked <= 1 /\ back'[u].done <= back'[u].linked
               /\ refund'[u] # "none" =>
                     back'[u].done = 1 \/ \E p \in Requests : Of(p)' = u /\ At(p, "refund")'
    <3>1. CASE u = t
      BY <1>5, <1>7, <2>1, <2>5, <3>1
    <3>2. CASE u # t
      BY <1>5, <1>7, <2>1, <2>2, <3>2 DEF ReturnsOK
    <3> QED
      BY <3>1, <3>2
  <2>7. ASSUME NEW p \in Requests
        PROVE  /\ Returning(p)' => back'[Of(p)'].linked = 1 /\ back'[Of(p)'].done = 0
               /\ At(p, "return")' => request'[p].links = 0
    BY <1>7, <2>1, <2>2, <2>3, <2>4 DEF ReturnsOK
  <2>8. \A o, p \in Requests : Returning(o)' /\ Returning(p)' /\ Of(o)' = Of(p)' => o = p
    BY <2>1, <2>2, <2>3 DEF ReturnsOK
  <2> QED
    BY <2>6, <2>7, <2>8 DEF ReturnsOK
<1> QED
  BY <1>3, <1>4, <1>5, <1>8, <1>9, <1>10, <1>11, StepKeeps DEF SaleStays, ReturnsKept

\* A request may die at any point; what it has created or asked for stays.
LEMMA DiesKeeps ==
    ASSUME PosInv, NEW q \in Requests, Dies(q)
    PROVE  PosInv'
<1>1. /\ request' \in [Requests -> {Idle} \cup Working]
      /\ request'[q] = Idle
      /\ \A p \in Requests \ {q} : request'[p] = request[p]
  BY Ended DEF PosInv, Dies, Ends
<1>2. /\ slips' \in 0..MaxSlips
      /\ slips' = 0 => slips = 0 /\ ~At(q, "refund")
  <2>1. /\ TypeOK /\ CountsIf(request[q].pc \in {"checkout", "refund"})
        /\ (request[q].pc \in {"checkout", "refund"}) \in BOOLEAN
    BY DEF Dies, PosInv
  <2> QED
    BY <2>1, Counted DEF CountsIf, At
<1>3. UNCHANGED <<sale, back, stock, points, drawer, timer, deliveries, checkout, refund, answered, spent>>
  BY DEF Dies, rows, square, queue
<1>4. TypeOK'
  BY <1>1, <1>2, <1>3 DEF PosInv, TypeOK, Working, Steps
<1>5. RequestMoves(q)
  BY <1>1 DEF RequestMoves, SeenAt, At, Idle
<1>6. LinksOK'
  <2>1. ASSUME NEW u \in Sales
        PROVE  back'[u].linked >= Cardinality(Returners(u)')
    <3>1. Cardinality(Returners(u)') =
             Cardinality(Returners(u)) - (IF q \in Returners(u) THEN 1 ELSE 0)
      BY <1>1, LeavesReturn DEF Idle
    <3>2. back[u].linked >= Cardinality(Returners(u)) /\ back[u].linked \in Nat
      BY DEF PosInv, LinksOK, TypeOK
    <3> QED
      BY <1>3, <3>1, <3>2, ReturnersFinite
  <2> QED
    BY <2>1 DEF LinksOK
<1>7. ASSUME slips' = 0
      PROVE  ReturnsOK'
  <2>1. ReturnsOK /\ ~At(q, "refund")
    BY <1>2, <1>7 DEF PosInv
  <2>2. \A p \in Requests \ {q} : /\ Returning(p)' = Returning(p)
                                  /\ At(p, "refund")' = At(p, "refund")
                                  /\ At(p, "return")' = At(p, "return")
                                  /\ Of(p)' = Of(p) /\ request'[p].links = request[p].links
    BY <1>1 DEF Returning, At, Of
  <2>3. ~Returning(q)' /\ ~At(q, "return")'
    BY <1>1 DEF Returning, At, Idle
  <2>4. ASSUME NEW u \in Sales
        PROVE  /\ back'[u].linked <= 1 /\ back'[u].done <= back'[u].linked
               /\ refund'[u] # "none" =>
                     back'[u].done = 1 \/ \E p \in Requests : Of(p)' = u /\ At(p, "refund")'
    BY <1>3, <2>1, <2>2 DEF ReturnsOK
  <2>5. ASSUME NEW p \in Requests
        PROVE  /\ Returning(p)' => back'[Of(p)'].linked = 1 /\ back'[Of(p)'].done = 0
               /\ At(p, "return")' => request'[p].links = 0
    BY <1>3, <2>1, <2>2, <2>3 DEF ReturnsOK
  <2>6. \A o, p \in Requests : Returning(o)' /\ Returning(p)' /\ Of(o)' = Of(p)' => o = p
    BY <2>1, <2>2, <2>3 DEF ReturnsOK
  <2> QED
    BY <2>4, <2>5, <2>6 DEF ReturnsOK
<1> QED
  BY <1>1, <1>2, <1>3, <1>4, <1>5, <1>6, <1>7, StepKeeps DEF SaleStays, ReturnsKept

-----------------------------------------------------------------------------
(* The invariant.                                                          *)

LEMMA InitHolds == Init => PosInv
<1> SUFFICES ASSUME Init PROVE PosInv
  OBVIOUS
<1>1. TypeOK
  BY PosAssumption DEF Init, TypeOK, Statuses, Payments
<1>2. KnownOK
  BY DEF Init, KnownOK, CashKnown
<1>3. \A q \in Requests : request[q] = Idle /\ request[q].pc = "idle"
  BY DEF Init, Idle
<1>4. LinksOK
  <2>1. \A t \in Sales : Returners(t) = {}
    BY <1>3 DEF Returners, Returning
  <2>2. \A t \in Sales : back[t].linked = 0
    BY DEF Init
  <2>3. Cardinality({}) = 0
    BY FS_EmptySet
  <2> QED
    BY <2>1, <2>2, <2>3 DEF LinksOK
<1>5. \A q \in Requests : SeenAt(q)
  BY <1>3 DEF SeenAt, At
<1>6. \A t \in Sales : MoneyAt(t)
  BY DEF Init, MoneyAt
<1>7. ReturnsOK
  BY <1>3 DEF Init, ReturnsOK, Returning, At
<1> QED
  BY <1>1, <1>2, <1>4, <1>5, <1>6, <1>7 DEF PosInv

LEMMA NextKeeps == PosInv /\ [Next]_vars => PosInv'
<1> SUFFICES ASSUME PosInv, [Next]_vars PROVE PosInv'
  OBVIOUS
<1>1. CASE UNCHANGED vars
  <2>1. UNCHANGED <<sale, back, stock, points, drawer, request, timer, deliveries, checkout, refund, answered, spent, slips>>
    BY <1>1 DEF vars, rows, square, queue
  <2>2. TypeOK'
    BY <2>1 DEF PosInv, TypeOK
  <2>3. ReturnsKept
    BY <2>1, ReturnsStay
  <2> QED
    BY <2>1, <2>2, <2>3, StepKeeps DEF SaleStays
<1>2. CASE Spend
  BY <1>2, QuietStepsKeep
<1>3. ASSUME NEW t \in Sales, Elsewhere(t)
      PROVE  PosInv'
  BY <1>3, QuietStepsKeep, TimeoutCommitKeeps, CustomerPaysKeeps, CheckoutEndsKeeps, RefundDoneKeeps
     DEF Elsewhere
<1>4. ASSUME NEW q \in Requests, NEW t \in Sales,
             \/ New(q, t) \/ ResumeRead(q, t) \/ CancelRead(q, t) \/ ReturnRead(q, t)
             \/ PaymentUpdated(q, t) \/ CheckoutCanceled(q, t)
      PROVE  PosInv'
  BY <1>4, NewKeeps, ReadsKeep, ReturnReadKeeps, PaymentUpdatedKeeps
<1>5. ASSUME NEW q \in Requests, Requested(q)
      PROVE  PosInv'
  BY <1>4, <1>5, ReopenKeeps, PayAtOnceKeeps, AskTerminalKeeps, CommitKeeps, SmallStepsKeep, RereadKeeps,
     UndoKeeps, CleanKeeps, CancelKeeps, CompleteKeeps, DropKeeps, ReturnCreateKeeps, GiveBackKeeps,
     RefundStepsKeep, RefundCommitKeeps, ReturnFailsKeeps, DiesKeeps
     DEF Requested
<1> QED
  BY <1>1, <1>2, <1>3, <1>5 DEF Next

LEMMA Invariant == Spec => []PosInv
<1>1. Init => PosInv
  BY InitHolds
<1>2. PosInv /\ [Next]_vars => PosInv'
  BY NextKeeps
<1> QED
  BY <1>1, <1>2, PTL DEF Spec

-----------------------------------------------------------------------------
(* What it is for.                                                         *)

\* No handler takes more from the shelf, the customer or the drawer than there is, and no
\* return undoes a link that it does not hold.
THEOREM PosTypeCorrect == Spec => []TypeOK
<1>1. PosInv => TypeOK
  BY DEF PosInv
<1> QED
  BY <1>1, Invariant, PTL

\* The link that a return creates on its original is held by one request at a time: while
\* no step slips a sale is returned once, and what Square has refunded is returned.
THEOREM SalesAreReturnedOnce == Spec => []ReturnedOnce
<1> SUFFICES ASSUME PosInv PROVE ReturnedOnce
  BY Invariant, PTL
<1>1. ASSUME slips = 0, NEW t \in Sales
      PROVE  /\ back[t].done <= 1
             /\ refund[t] # "none" =>
                   back[t].done = 1 \/ \E q \in Requests : Of(q) = t /\ At(q, "refund")
  <2>1. ReturnsOK /\ back[t].linked \in Nat /\ back[t].done \in Nat
    BY <1>1 DEF PosInv, TypeOK
  <2> QED
    BY <2>1 DEF ReturnsOK
<1> QED
  BY <1>1 DEF ReturnedOnce

\* While nothing slips a step writes the status of a transaction that has ended only to
\* what it is.
EndedKept ==
    slips' = 0 => \A t \in Sales :
        sale[t].status \in {"completed", "canceled"} => sale'[t].status = sale[t].status

\* It does when it writes one status, which the transaction has not left since it was read.
LEMMA OneStatusIsWritten ==
    ASSUME PosInv, NEW t \in Sales, NEW x, sale' = [sale EXCEPT ![t].status = x],
           slips' = 0 /\ sale[t].status \in {"completed", "canceled"} => x = sale[t].status
    PROVE  EndedKept
<1>1. /\ sale'[t] = [sale[t] EXCEPT !.status = x] /\ sale[t] \in SaleState
      /\ \A u \in Sales \ {t} : sale'[u] = sale[u]
  BY DEF PosInv, TypeOK, SaleState
<1>2. sale'[t].status = x
  BY <1>1 DEF SaleState
<1> QED
  BY <1>1, <1>2 DEF EndedKept

LEMMA PaymentKeepsEnded ==
    ASSUME PosInv, NEW q \in Requests,
           \/ \E t \in Sales : New(q, t) \/ PaymentUpdated(q, t)
           \/ PayAtOnce(q) \/ Commit(q) \/ Complete(q)
    PROVE  EndedKept
<1>0. sale \in [Sales -> SaleState]
  BY DEF PosInv, TypeOK, SaleState
<1>1. ASSUME NEW t \in Sales, New(q, t)
      PROVE  EndedKept
  BY <1>0, <1>1 DEF New, Draft, EndedKept, SaleState
<1>2. ASSUME NEW t \in Sales, PaymentUpdated(q, t)
      PROVE  EndedKept
  <2>1. PICK m : sale' = [sale EXCEPT ![t].payment = m]
    BY <1>2 DEF PaymentUpdated
  <2> QED
    BY <1>0, <2>1 DEF EndedKept, SaleState
<1>3. ASSUME PayAtOnce(q) \/ Commit(q)
      PROVE  EndedKept
  <2>1. request[q].pc # "idle"
    BY <1>3 DEF PayAtOnce, Commit, At
  <2>2. PICK t \in Sales : t = Of(q)
    BY <2>1, AtWork DEF PosInv
  <2>3. slips' = 0 => sale[t].status = "draft"
    <3>1. TypeOK /\ CountsIf(sale[t].status # "draft")
      BY <1>3, <2>2 DEF PayAtOnce, Commit, PosInv
    <3> QED
      BY <3>1, Counted DEF CountsIf
  <2>4. \A u \in Sales \ {t} : sale'[u] = sale[u]
    BY <1>0, <1>3, <2>2 DEF PayAtOnce, Commit
  <2> QED
    BY <2>3, <2>4 DEF EndedKept
<1>4. ASSUME Complete(q)
      PROVE  EndedKept
  <2>1. request[q].pc = "complete"
    BY <1>4 DEF Complete, At
  <2>2. PICK t \in Sales : t = Of(q)
    BY <2>1, AtWork DEF PosInv
  <2>3. slips' = 0 => sale[t].status \in Returnable
    BY <1>4, <2>1, <2>2 DEF Complete, PosInv, SeenAt, MoneyAt, At
  <2>4. sale' = [sale EXCEPT ![t].status = "completed"]
    BY <1>4, <2>2 DEF Complete, Completed
  <2> QED
    BY <2>3, <2>4, OneStatusIsWritten DEF Returnable
<1> QED
  BY <1>1, <1>2, <1>3, <1>4

LEMMA GivingUpKeepsEnded ==
    ASSUME PosInv, NEW q \in Requests, Reopen(q) \/ Clean(q) \/ Cancel(q) \/ Drop(q)
    PROVE  EndedKept
<1>0. request[q].pc # "idle"
  BY DEF Reopen, Clean, Cancel, Drop, At
<1>1. PICK t \in Sales : t = Of(q)
  BY <1>0, AtWork DEF PosInv
<1>2. ASSUME NEW seen, CountsIf(Crossed(t, seen)), slips' = 0
      PROVE  slips = 0 /\ sale[t].status = seen
  <2>1. TypeOK /\ Crossed(t, seen) \in BOOLEAN
    BY DEF PosInv, Crossed
  <2> QED
    BY <1>2, <2>1, Counted DEF CountsIf, Crossed
<1>3. CASE Reopen(q)
  <2>1. slips' = 0 => sale[t].status = "draft"
    BY <1>1, <1>2, <1>3 DEF Reopen, CountsIf, Crossed
  <2>2. \A u \in Sales \ {t} : sale'[u] = sale[u]
    BY <1>1, <1>3 DEF Reopen, Draft, PosInv, TypeOK
  <2> QED
    BY <2>1, <2>2 DEF EndedKept
<1>4. CASE Clean(q) /\ request[q].op = "new"
  <2>1. sale' = [sale EXCEPT ![t].status = "canceled"] /\ CountsIf(Crossed(t, request[q].seen))
    BY <1>1, <1>4 DEF Clean
  <2>2. slips' = 0 => slips = 0 /\ sale[t].status = request[q].seen
    BY <1>2, <2>1 DEF CountsIf, Crossed
  <2>3. slips' = 0 => sale[t].status \in {"draft", "canceled"}
    BY <1>4, <2>2 DEF Clean, PosInv, SeenAt, At
  <2> QED
    BY <2>1, <2>3, OneStatusIsWritten
<1>5. CASE Clean(q) /\ request[q].op # "new"
  BY <1>5 DEF Clean, EndedKept
<1>6. CASE Cancel(q)
  <2>1. sale' = [sale EXCEPT ![t].status = "canceled"] /\ CountsIf(Crossed(t, request[q].seen))
    BY <1>1, <1>6 DEF Cancel
  <2>2. slips' = 0 => slips = 0 /\ sale[t].status = request[q].seen
    BY <1>2, <2>1 DEF CountsIf, Crossed
  <2>3. slips' = 0 => sale[t].status \in {"draft", "paying"}
    BY <1>6, <2>2 DEF Cancel, PosInv, SeenAt, At
  <2> QED
    BY <2>1, <2>3, OneStatusIsWritten
<1>7. CASE Drop(q)
  <2>1. sale' = [sale EXCEPT ![t].status = "canceled"] /\ CountsIf(Crossed(t, "paying"))
    BY <1>1, <1>7 DEF Drop
  <2>2. slips' = 0 => sale[t].status = "paying"
    BY <1>2, <2>1 DEF CountsIf, Crossed
  <2> QED
    BY <2>1, <2>2, OneStatusIsWritten
<1> QED
  BY <1>3, <1>4, <1>5, <1>6, <1>7

LEMMA StepKeepsEnded == PosInv /\ [Next]_vars => EndedKept
<1> SUFFICES ASSUME PosInv, [Next]_vars PROVE EndedKept
  OBVIOUS
<1>1. CASE sale' = sale
  BY <1>1 DEF EndedKept
<1>2. ASSUME NEW t \in Sales, TimeoutCommit(t)
      PROVE  EndedKept
  <2>1. sale' = [sale EXCEPT ![t].status = "draft"] /\ CountsIf(Crossed(t, "paying"))
    BY <1>2 DEF TimeoutCommit
  <2>2. TypeOK /\ Crossed(t, "paying") \in BOOLEAN
    BY DEF PosInv, Crossed
  <2>3. slips' = 0 => sale[t].status = "paying"
    BY <2>1, <2>2, Counted DEF CountsIf, Crossed
  <2> QED
    BY <2>1, <2>3, OneStatusIsWritten
<1>3. ASSUME NEW q \in Requests, Requested(q)
      PROVE  EndedKept
  <2>1. \/ sale' = sale
        \/ \E t \in Sales : New(q, t) \/ PaymentUpdated(q, t)
        \/ PayAtOnce(q) \/ Commit(q) \/ Complete(q)
        \/ Reopen(q) \/ Clean(q) \/ Cancel(q) \/ Drop(q)
    BY <1>3 DEF Requested, ResumeRead, CancelRead, ReturnRead, CheckoutCanceled, LeaveAsDraft, AskTerminal,
                TakeFails, Watch, Misses, Paid, WaitEnds, Reread, Undo, UndoFails, Finish, FinishFails,
                ReturnCreate, GiveBack, AskRefund, RefundUpdated, RefundCommit, ReturnFails, Dies, rows
  <2> QED
    BY <1>1, <2>1, PaymentKeepsEnded, GivingUpKeepsEnded
<1>4. ASSUME NEW t \in Sales, Elsewhere(t)
      PROVE  TimeoutCommit(t) \/ sale' = sale
  BY <1>4 DEF Elsewhere, TimeoutRead, TimeoutFails, WorkerDies, Undelivered, CustomerPays, CheckoutEnds, RefundDone,
              rows
<1>5. CASE Spend \/ UNCHANGED vars
  BY <1>5 DEF Spend, vars, rows, EndedKept
<1> QED
  BY <1>1, <1>2, <1>3, <1>4, <1>5 DEF Next

\* A transaction that is completed or canceled stays so while no step slips: what the
\* worker, the webhooks and the routes have read of its status keeps them from writing it.
THEOREM EndedSalesStayEnded == Spec => EndedStaysEnded
<1>1. PosInv /\ [Next]_vars => [EndedKept]_vars
  BY StepKeepsEnded
<1> QED
  BY <1>1, Invariant, PTL DEF Spec, EndedStaysEnded, EndedKept

-----------------------------------------------------------------------------
(* Sums over finite sets.  SumFunctionOnSet adds the numbers in an order   *)
(* that CHOOSE decides; SumProperties says that the order is no matter.    *)

\* A family of subsets of a finite set has them all if it has each set that it has without
\* any one of its elements: a smallest one that it lacks would be a contradiction.
LEMMA FamilyInduction ==
    ASSUME NEW D, IsFiniteSet(D), NEW F,
           \A s \in SUBSET D : (\A x \in s : s \ {x} \in F) => s \in F
    PROVE  \A s \in SUBSET D : s \in F
<1> SUFFICES ASSUME NEW u \in SUBSET D, u \notin F
             PROVE  FALSE
  OBVIOUS
<1> DEFINE T == {n \in Nat : \E s \in SUBSET D : s \notin F /\ Cardinality(s) = n}
<1>1. \A s \in SUBSET D : IsFiniteSet(s) /\ Cardinality(s) \in Nat
  BY FS_Subset, FS_CardinalityType
<1>2. T \subseteq Nat /\ T # {}
  BY <1>1
<1>3. PICK m \in T : \A n \in T : ~(<<n, m>> \in OpToRel(<, Nat))
  <2> HIDE DEF T
  <2> QED
    BY <1>2, NatLessThanWellFounded, WFMin
<1>4. PICK s \in SUBSET D : s \notin F /\ Cardinality(s) = m
  BY <1>3
<1>5. PICK x \in s : s \ {x} \notin F
  BY <1>4
<1>6. Cardinality(s \ {x}) = m - 1 /\ s \ {x} \in SUBSET D
  BY <1>1, <1>4, <1>5, FS_RemoveElement
<1>7. m \in Nat /\ m - 1 \in T
  <2>1. Cardinality(s \ {x}) \in Nat
    BY <1>1, <1>6
  <2>2. Cardinality(s \ {x}) \in T
    BY <1>5, <1>6, <2>1
  <2>3. m \in Nat
    BY <1>3
  <2> HIDE DEF T
  <2> QED
    BY <1>6, <2>2, <2>3
<1>8. m - 1 \in Nat /\ <<m - 1, m>> \in OpToRel(<, Nat)
  BY <1>7 DEF OpToRel
<1> QED
  BY <1>3, <1>7, <1>8

\* G gives the sum of every subset of D, whatever is taken out first.
IsSumOf(G, w, D) ==
    /\ G \in [SUBSET D -> Int]
    /\ G[{}] = 0
    /\ \A s \in SUBSET D : \A x \in s : G[s] = w[x] + G[s \ {x}]

\* The recursion that SumFunctionOnSet stands for.
Step(w, S, f) == [s \in SUBSET S |->
    IF s = {} THEN 0 ELSE w[CHOOSE x \in s : TRUE] + f[s \ {CHOOSE x \in s : TRUE}]]

LEMMA SumIter ==
    ASSUME NEW w, NEW S
    PROVE  SumFunctionOnSet(w, S) = (CHOOSE f : f = Step(w, S, f))[S]
BY DEF SumFunctionOnSet, FoldFunctionOnSet, MapThenFoldSet, Step

\* There is such a G: an element more is a summand more for the sets that have it.
LEMMA SumExists ==
    ASSUME NEW D, IsFiniteSet(D), NEW w \in [D -> Int]
    PROVE  \E G : IsSumOf(G, w, D)
<1> DEFINE F == {s \in SUBSET D : \E G : IsSumOf(G, w, s)}
<1>1. {} \in F
  <2>1. IsSumOf([s \in SUBSET {} |-> 0], w, {})
    BY DEF IsSumOf
  <2> QED
    BY <2>1
<1>2. ASSUME NEW E \in F, NEW a \in D \ E
      PROVE  E \cup {a} \in F
  <2>1. PICK G : IsSumOf(G, w, E)
    OBVIOUS
  <2> DEFINE H == [s \in SUBSET (E \cup {a}) |-> IF a \in s THEN w[a] + G[s \ {a}] ELSE G[s]]
  <2>2. ASSUME NEW s \in SUBSET (E \cup {a})
        PROVE  /\ a \in s => s \ {a} \in SUBSET E /\ H[s] = w[a] + G[s \ {a}]
               /\ a \notin s => s \in SUBSET E /\ H[s] = G[s]
               /\ H[s] \in Int
    <3>1. a \in s => s \ {a} \in SUBSET E
      OBVIOUS
    <3>2. a \notin s => s \in SUBSET E
      OBVIOUS
    <3>3. w[a] \in Int
      OBVIOUS
    <3> QED
      BY <2>1, <3>1, <3>2, <3>3 DEF IsSumOf
  <2>3. H \in [SUBSET (E \cup {a}) -> Int]
    BY <2>2
  <2>4. H[{}] = 0
    BY <2>1, <2>2 DEF IsSumOf
  <2> HIDE DEF H
  <2>5. ASSUME NEW s \in SUBSET (E \cup {a}), NEW x \in s
        PROVE  H[s] = w[x] + H[s \ {x}]
    <3>0. s \ {x} \in SUBSET (E \cup {a}) /\ w[x] \in Int /\ w[a] \in Int
      OBVIOUS
    <3>1. CASE x = a
      <4>1. a \notin s \ {x}
        BY <3>1
      <4> QED
        BY <2>2, <3>0, <3>1, <4>1
    <3>2. CASE x # a /\ a \in s
      <4>1. a \in s \ {x} /\ x \in s \ {a} /\ (s \ {x}) \ {a} = (s \ {a}) \ {x}
        BY <3>2
      <4>2. H[s] = w[a] + G[s \ {a}] /\ s \ {a} \in SUBSET E
        BY <2>2, <3>2
      <4>3. H[s \ {x}] = w[a] + G[(s \ {x}) \ {a}]
        BY <2>2, <3>0, <4>1
      <4>4. G[s \ {a}] = w[x] + G[(s \ {a}) \ {x}]
        BY <2>1, <4>1, <4>2 DEF IsSumOf
      <4>5. (s \ {a}) \ {x} \in SUBSET E /\ G[(s \ {a}) \ {x}] \in Int
        BY <2>1, <4>2 DEF IsSumOf
      <4>6. PICK i \in Int : i = G[(s \ {a}) \ {x}]
        BY <4>5
      <4>7. H[s] = w[a] + (w[x] + i)
        BY <4>2, <4>4, <4>6
      <4>8. H[s \ {x}] = w[a] + i
        BY <4>1, <4>3, <4>6
      <4> QED
        BY <3>0, <4>7, <4>8
    <3>3. CASE a \notin s
      <4>1. a \notin s \ {x}
        BY <3>3
      <4>2. H[s] = G[s] /\ H[s \ {x}] = G[s \ {x}] /\ s \in SUBSET E
        BY <2>2, <3>0, <3>3, <4>1
      <4> QED
        BY <2>1, <4>2 DEF IsSumOf
    <3> QED
      BY <3>1, <3>2, <3>3
  <2>6. IsSumOf(H, w, E \cup {a})
    BY <2>3, <2>4, <2>5 DEF IsSumOf
  <2> QED
    BY <2>6
<1> QED
  <2> HIDE DEF F
  <2>1. ASSUME NEW s \in SUBSET D, \A x \in s : s \ {x} \in F
        PROVE  s \in F
    <3>1. CASE s = {}
      BY <1>1, <3>1
    <3>2. CASE s # {}
      <4>1. PICK a \in s : TRUE
        BY <3>2
      <4>2. s \ {a} \in F /\ a \in D \ (s \ {a}) /\ (s \ {a}) \cup {a} = s
        BY <2>1, <4>1
      <4> QED
        BY <1>2, <4>2
    <3> QED
      BY <3>1, <3>2
  <2>2. \A s \in SUBSET D : s \in F
    BY <2>1, FamilyInduction
  <2> QED
    BY <2>2 DEF F

\* And SumFunctionOnSet is nothing else.
LEMMA SumIs ==
    ASSUME NEW D, IsFiniteSet(D), NEW w, NEW G, IsSumOf(G, w, D), NEW S \in SUBSET D
    PROVE  SumFunctionOnSet(w, S) = G[S]
<1> DEFINE g == [s \in SUBSET S |-> G[s]]
<1>1. g = Step(w, S, g)
  <2>1. ASSUME NEW s \in SUBSET S, s # {}
        PROVE  g[s] = w[CHOOSE x \in s : TRUE] + g[s \ {CHOOSE x \in s : TRUE}]
    <3>1. PICK y : y = CHOOSE x \in s : TRUE
      OBVIOUS
    <3>2. y \in s
      BY <2>1, <3>1
    <3>3. G[s] = w[y] + G[s \ {y}] /\ s \ {y} \in SUBSET S
      BY <3>2 DEF IsSumOf
    <3> QED
      BY <3>1, <3>3
  <2>2. g[{}] = 0
    BY DEF IsSumOf
  <2> HIDE DEF g
  <2>3. \A s \in SUBSET S : g[s] = IF s = {} THEN 0
                        ELSE w[CHOOSE x \in s : TRUE] + g[s \ {CHOOSE x \in s : TRUE}]
    BY <2>1, <2>2
  <2>4. g = [s \in SUBSET S |-> g[s]]
    BY DEF g
  <2> QED
    BY <2>3, <2>4 DEF Step
<1>2. PICK f : f = CHOOSE h : h = Step(w, S, h)
  OBVIOUS
<1>3. f = Step(w, S, f)
  BY <1>1, <1>2
<1> DEFINE F == {s \in SUBSET S : f[s] = G[s]}
<1>4. ASSUME NEW s \in SUBSET S, \A x \in s : s \ {x} \in F
      PROVE  s \in F
  <2>1. CASE s = {}
    BY <1>3, <2>1 DEF Step, IsSumOf
  <2>2. CASE s # {}
    <3>1. PICK y : y = CHOOSE x \in s : TRUE
      OBVIOUS
    <3>2. y \in s
      BY <2>2, <3>1
    <3>3. f[s] = w[y] + f[s \ {y}]
      BY <1>3, <2>2, <3>1 DEF Step
    <3>4. G[s] = w[y] + G[s \ {y}]
      BY <3>2 DEF IsSumOf
    <3> QED
      BY <1>4, <3>2, <3>3, <3>4
  <2> QED
    BY <2>1, <2>2
<1>5. S \in F
  <2>1. IsFiniteSet(S)
    BY FS_Subset
  <2> HIDE DEF F
  <2> QED
    BY <1>4, <2>1, FamilyInduction
<1> QED
  BY <1>2, <1>5, SumIter

\* A sum is an integer, of nothing 0, and any of its summands can be taken out of it.
LEMMA SumProperties ==
    ASSUME NEW D, IsFiniteSet(D), NEW w \in [D -> Int]
    PROVE  /\ SumFunctionOnSet(w, {}) = 0
           /\ \A S \in SUBSET D : SumFunctionOnSet(w, S) \in Int
           /\ \A S \in SUBSET D : \A x \in S :
                 SumFunctionOnSet(w, S) = w[x] + SumFunctionOnSet(w, S \ {x})
<1>1. PICK G : IsSumOf(G, w, D)
  BY SumExists
<1>2. \A S \in SUBSET D : SumFunctionOnSet(w, S) = G[S]
  BY <1>1, SumIs
<1>3. \A S \in SUBSET D : \A x \in S : S \ {x} \in SUBSET D
  OBVIOUS
<1> QED
  BY <1>1, <1>2, <1>3 DEF IsSumOf

\* Where one summand changes, the sum changes by as much.
LEMMA SumMoves ==
    ASSUME NEW D, IsFiniteSet(D), NEW w \in [D -> Int], NEW v \in [D -> Int], NEW x \in D,
           \A y \in D \ {x} : v[y] = w[y]
    PROVE  SumFunction(v) = SumFunction(w) + (v[x] - w[x])
<1> DEFINE F == {s \in SUBSET D : x \notin s => SumFunctionOnSet(v, s) = SumFunctionOnSet(w, s)}
<1>1. ASSUME NEW s \in SUBSET D, \A y \in s : s \ {y} \in F
      PROVE  s \in F
  <2>1. CASE s = {}
    BY <2>1, SumProperties
  <2>2. ASSUME NEW y \in s, x \notin s
        PROVE  SumFunctionOnSet(v, s) = SumFunctionOnSet(w, s)
    <3>1. /\ SumFunctionOnSet(v, s) = v[y] + SumFunctionOnSet(v, s \ {y})
          /\ SumFunctionOnSet(w, s) = w[y] + SumFunctionOnSet(w, s \ {y})
      BY SumProperties
    <3>2. SumFunctionOnSet(v, s \ {y}) = SumFunctionOnSet(w, s \ {y}) /\ v[y] = w[y]
      BY <1>1, <2>2
    <3> QED
      BY <3>1, <3>2
  <2> QED
    BY <2>1, <2>2
<1>2. D \ {x} \in F
  <2> HIDE DEF F
  <2>1. \A s \in SUBSET D : s \in F
    BY <1>1, FamilyInduction
  <2> QED
    BY <2>1
<1>3. /\ SumFunctionOnSet(v, D) = v[x] + SumFunctionOnSet(v, D \ {x})
      /\ SumFunctionOnSet(w, D) = w[x] + SumFunctionOnSet(w, D \ {x})
      /\ SumFunctionOnSet(w, D \ {x}) \in Int
  BY SumProperties
<1>4. SumFunctionOnSet(v, D \ {x}) = SumFunctionOnSet(w, D \ {x})
  BY <1>2
<1>5. v[x] \in Int /\ w[x] \in Int /\ DOMAIN v = D /\ DOMAIN w = D
  OBVIOUS
<1> QED
  BY <1>3, <1>4, <1>5 DEF SumFunction

\* Of zeros the sum is 0.
LEMMA SumOfZeros ==
    ASSUME NEW D, IsFiniteSet(D), NEW w \in [D -> Int], \A x \in D : w[x] = 0
    PROVE  SumFunction(w) = 0
<1> DEFINE F == {s \in SUBSET D : SumFunctionOnSet(w, s) = 0}
<1>1. ASSUME NEW s \in SUBSET D, \A y \in s : s \ {y} \in F
      PROVE  s \in F
  <2>1. CASE s = {}
    BY <2>1, SumProperties
  <2>2. ASSUME NEW y \in s
        PROVE  SumFunctionOnSet(w, s) = 0
    <3>1. SumFunctionOnSet(w, s) = w[y] + SumFunctionOnSet(w, s \ {y})
      BY SumProperties
    <3>2. SumFunctionOnSet(w, s \ {y}) = 0 /\ w[y] = 0
      BY <1>1
    <3> QED
      BY <3>1, <3>2
  <2> QED
    BY <2>1, <2>2
<1>2. D \in F
  <2> HIDE DEF F
  <2> QED
    BY <1>1, FamilyInduction
<1> QED
  BY <1>2 DEF SumFunction

-----------------------------------------------------------------------------
(* The drawer, the shelf and the points.                                   *)

\* While nothing slips, only what is completed is being returned.
LinkedOK == slips = 0 => \A t \in Sales : back[t].linked > 0 => sale[t].status = "completed"

LedgerInv == LinkedOK /\ DrawerFollowsPayments /\ GoodsAndPointsFollowSales

\* A step moves the drawer, the shelf and the points by what one transaction says.
Settles(t) ==
    /\ \A u \in Sales \ {t} : sale'[u] = sale[u] /\ back'[u] = back[u]
    /\ drawer' = drawer + (CashOf(t)' - CashOf(t))
    /\ slips' = 0 => /\ slips = 0
                     /\ stock' = stock + (GoodsOf(t)' - GoodsOf(t))
                     /\ points' + spent' = points + spent + (PointsOf(t)' - PointsOf(t))
                     /\ back'[t].linked > 0 => sale'[t].status = "completed"

\* Or none.
SettlesNone ==
    /\ UNCHANGED <<sale, back, stock, drawer>>
    /\ points' + spent' = points + spent
    /\ slips' = 0 => slips = 0

LEMMA LedgerTypes ==
    TypeOK /\ KnownOK =>
        \A t \in Sales : CashOf(t) \in Int /\ GoodsOf(t) \in Int /\ PointsOf(t) \in Int
<1> SUFFICES ASSUME TypeOK, KnownOK, NEW t \in Sales
             PROVE  CashOf(t) \in Int /\ GoodsOf(t) \in Int /\ PointsOf(t) \in Int
  OBVIOUS
<1>1. sale[t].granted \in Nat /\ sale[t].cash \in Int /\ back[t].cash \in Int
  BY DEF TypeOK
<1>2. Stands(t) => Basket(t).used \in Nat /\ Basket(t).units \in Nat
  BY PosAssumption DEF KnownOK, Stands, Returnable, Basket
<1>3. CashOf(t) \in Int
  BY <1>1 DEF CashOf
<1>4. GoodsOf(t) \in Int
  BY <1>2 DEF GoodsOf, Units
<1>5. PointsOf(t) \in Int
  BY <1>1, <1>2 DEF PointsOf
<1> QED
  BY <1>3, <1>4, <1>5

LEMMA SettledLedger ==
    ASSUME PosInv, PosInv', LedgerInv, SettlesNone \/ \E t \in Sales : Settles(t)
    PROVE  LedgerInv'
<1> DEFINE Cash == [t \in Sales |-> CashOf(t)]
           Goods == [t \in Sales |-> GoodsOf(t)]
           Given == [t \in Sales |-> PointsOf(t)]
<1>0. /\ \A t \in Sales : CashOf(t) \in Int /\ GoodsOf(t) \in Int /\ PointsOf(t) \in Int
      /\ \A t \in Sales : CashOf(t)' \in Int /\ GoodsOf(t)' \in Int /\ PointsOf(t)' \in Int
  <2>1. TypeOK /\ KnownOK /\ (TypeOK /\ KnownOK)'
    BY DEF PosInv
  <2>2. (\A t \in Sales : CashOf(t) \in Int /\ GoodsOf(t) \in Int /\ PointsOf(t) \in Int)'
    BY <2>1, LedgerTypes, PTL
  <2> QED
    BY <2>1, <2>2, LedgerTypes
<1>1. /\ Cash \in [Sales -> Int] /\ Goods \in [Sales -> Int] /\ Given \in [Sales -> Int]
      /\ Cash' \in [Sales -> Int] /\ Goods' \in [Sales -> Int] /\ Given' \in [Sales -> Int]
  BY <1>0
<1>2. IsFiniteSet(Sales) /\ Stock \in Int /\ Float \in Int /\ Points \in Int
  BY PosAssumption
<1>3. /\ drawer \in Int /\ stock \in Int /\ points \in Int /\ spent \in Int
      /\ points' \in Int /\ spent' \in Int
  BY PosAssumption DEF PosInv, TypeOK
<1>4. drawer = Float + SumFunction(Cash)
  BY DEF LedgerInv, DrawerFollowsPayments
<1>5. slips = 0 => stock = Stock + SumFunction(Goods) /\ points = Points - spent + SumFunction(Given)
  BY DEF LedgerInv, GoodsAndPointsFollowSales
<1>6. /\ SumFunction(Cash) \in Int /\ SumFunction(Goods) \in Int /\ SumFunction(Given) \in Int
  <2> HIDE DEF Cash, Goods, Given
  <2> QED
    BY <1>1, <1>2, SumProperties DEF SumFunction
<1>7. CASE SettlesNone
  <2>1. Cash' = Cash /\ Goods' = Goods /\ Given' = Given
    BY <1>7 DEF SettlesNone, CashOf, GoodsOf, PointsOf, Stands, Units, Basket
  <2>2. drawer' = Float + SumFunction(Cash')
    BY <1>4, <1>7, <2>1 DEF SettlesNone
  <2>3. slips' = 0 => /\ stock' = Stock + SumFunction(Goods')
                      /\ points' = Points - spent' + SumFunction(Given')
    <3>1. slips' = 0 => slips = 0 /\ stock' = stock /\ points' + spent' = points + spent
      BY <1>7 DEF SettlesNone
    <3> HIDE DEF Cash, Goods, Given
    <3>2. slips' = 0 => stock' = Stock + SumFunction(Goods')
      BY <1>5, <2>1, <3>1
    <3>3. slips' = 0 => points' = Points - spent' + SumFunction(Given)
      <4>1. PICK n \in Int : n = SumFunction(Given)
        BY <1>6
      <4>2. slips' = 0 => points = Points - spent + n
        BY <1>5, <3>1, <4>1
      <4>3. \A a, b, c, d, e \in Int : c + d = a + b /\ a = e - b + n => c = e - d + n
        OBVIOUS
      <4>4. PICK a, b, c, d \in Int : a = points /\ b = spent /\ c = points' /\ d = spent'
        BY <1>3
      <4>5. slips' = 0 => c + d = a + b /\ a = Points - b + n
        BY <3>1, <4>2, <4>4
      <4>6. slips' = 0 => c = Points - d + n
        BY <1>2, <4>3, <4>5
      <4> QED
        BY <4>1, <4>4, <4>6
    <3> QED
      BY <2>1, <3>2, <3>3
  <2>4. LinkedOK'
    BY <1>7 DEF SettlesNone, LedgerInv, LinkedOK
  <2> QED
    BY <2>2, <2>3, <2>4 DEF LedgerInv, DrawerFollowsPayments, GoodsAndPointsFollowSales
<1>8. ASSUME NEW t \in Sales, Settles(t)
      PROVE  LedgerInv'
  <2>1. /\ \A u \in Sales \ {t} : Cash'[u] = Cash[u] /\ Goods'[u] = Goods[u] /\ Given'[u] = Given[u]
        /\ Cash'[t] = CashOf(t)' /\ Goods'[t] = GoodsOf(t)' /\ Given'[t] = PointsOf(t)'
        /\ Cash[t] = CashOf(t) /\ Goods[t] = GoodsOf(t) /\ Given[t] = PointsOf(t)
    BY <1>8 DEF Settles, CashOf, GoodsOf, PointsOf, Stands, Units, Basket
  <2> HIDE DEF Cash, Goods, Given
  <2>2. /\ SumFunction(Cash') = SumFunction(Cash) + (Cash'[t] - Cash[t])
        /\ SumFunction(Goods') = SumFunction(Goods) + (Goods'[t] - Goods[t])
        /\ SumFunction(Given') = SumFunction(Given) + (Given'[t] - Given[t])
    BY <1>1, <1>2, <2>1, SumMoves
  <2>3. /\ Cash'[t] \in Int /\ Cash[t] \in Int /\ Goods'[t] \in Int /\ Goods[t] \in Int
        /\ Given'[t] \in Int /\ Given[t] \in Int
    BY <1>1
  <2>4. drawer' = Float + SumFunction(Cash')
    BY <1>2, <1>3, <1>4, <1>6, <1>8, <2>1, <2>2, <2>3 DEF Settles
  <2>5. slips' = 0 => stock' = Stock + SumFunction(Goods')
    BY <1>2, <1>3, <1>5, <1>6, <1>8, <2>1, <2>2, <2>3 DEF Settles
  <2>6. slips' = 0 => points' = Points - spent' + SumFunction(Given')
    BY <1>2, <1>3, <1>5, <1>6, <1>8, <2>1, <2>2, <2>3 DEF Settles
  <2>7. LinkedOK'
    BY <1>8 DEF Settles, LedgerInv, LinkedOK
  <2> QED
    BY <2>4, <2>5, <2>6, <2>7
       DEF LedgerInv, DrawerFollowsPayments, GoodsAndPointsFollowSales, Cash, Goods, Given
<1> QED
  BY <1>7, <1>8

\* What a step that does not move the rows does.
LEMMA NoneSettled ==
    ASSUME PosInv, UNCHANGED rows, UNCHANGED spent, slips' = slips \/ slips' = slips + 1
    PROVE  SettlesNone
BY PosAssumption DEF PosInv, TypeOK, rows, SettlesNone

\* The status of a transaction is written: it is given up and its goods and points go
\* back, or it has held none, or it is completed.
LEMMA StatusSettles ==
    ASSUME PosInv, LedgerInv, NEW t \in Sales, NEW x \in Statuses,
           sale' = [sale EXCEPT ![t].status = x], UNCHANGED <<back, drawer, spent>>,
           slips' = 0 =>
              /\ slips = 0
              /\ \/ /\ sale[t].status = "paying" /\ x \in {"draft", "canceled"}
                    /\ stock' = stock - Units(t) /\ points' = PointsTakenBack(t)
                 \/ /\ sale[t].status \in {"draft", "canceled"} /\ x \in {"draft", "canceled"}
                    /\ UNCHANGED <<stock, points>>
                 \/ /\ sale[t].status \in Returnable /\ x = "completed"
                    /\ UNCHANGED <<stock, points>>
    PROVE  Settles(t)
<1>1. sale[t] \in SaleState /\ back[t] \in BackState /\ sale \in [Sales -> SaleState]
  BY DEF PosInv, TypeOK, SaleState, BackState
<1>2. /\ sale'[t].status = x /\ sale'[t].payment = sale[t].payment
      /\ sale'[t].granted = sale[t].granted /\ sale'[t].basket = sale[t].basket
      /\ \A u \in Sales \ {t} : sale'[u] = sale[u]
  <2>1. sale'[t] = [sale[t] EXCEPT !.status = x] /\ \A u \in Sales \ {t} : sale'[u] = sale[u]
    BY <1>1
  <2> QED
    BY <1>1, <2>1 DEF SaleState
<1>3. Units(t)' = Units(t) /\ CashOf(t)' = CashOf(t) /\ Basket(t)' = Basket(t)
  BY <1>2 DEF Units, Basket, CashOf
<1>4. CashOf(t) \in Int /\ GoodsOf(t) \in Int /\ PointsOf(t) \in Int
      /\ drawer \in Int /\ stock \in Int /\ points \in Int /\ spent \in Int
  BY PosAssumption, LedgerTypes DEF PosInv, TypeOK
<1>5. ASSUME slips' = 0
      PROVE  /\ stock' = stock + (GoodsOf(t)' - GoodsOf(t))
             /\ points' + spent' = points + spent + (PointsOf(t)' - PointsOf(t))
             /\ back'[t].linked > 0 => sale'[t].status = "completed"
  <2>1. /\ back[t].linked > 0 => sale[t].status = "completed"
        /\ back[t].done <= back[t].linked
    BY <1>5 DEF LedgerInv, LinkedOK, PosInv, ReturnsOK
  <2>2. CASE /\ sale[t].status = "paying" /\ x \in {"draft", "canceled"}
             /\ stock' = stock - Units(t) /\ points' = PointsTakenBack(t)
    <3>1. back[t].done = 0 /\ ~(back[t].linked > 0)
      BY <1>1, <2>1, <2>2 DEF BackState
    <3>2. GoodsOf(t) = Units(t) /\ GoodsOf(t)' = 0
      BY <1>2, <2>2, <3>1 DEF GoodsOf, Stands, Returnable
    <3>3. PointsOf(t) = sale[t].granted - Basket(t).used /\ PointsOf(t)' = 0
      BY <1>2, <2>2, <3>1 DEF PointsOf, Stands, Returnable
    <3>4. PICK g, u \in Int : g = sale[t].granted /\ u = Basket(t).used
      <4>1. sale[t].basket \in Baskets
        BY <2>2 DEF PosInv, KnownOK
      <4> QED
        BY <4>1, Moves DEF PosInv
    <3>5. points' = points - g + u
      BY <2>2, <3>4 DEF PointsTakenBack
    <3>6. points' + spent' = points + spent + (PointsOf(t)' - PointsOf(t))
      BY <1>4, <3>3, <3>4, <3>5
    <3>7. stock' = stock + (GoodsOf(t)' - GoodsOf(t))
      BY <1>4, <2>2, <3>2
    <3> QED
      BY <3>1, <3>6, <3>7
  <2>3. CASE /\ sale[t].status \in {"draft", "canceled"} /\ x \in {"draft", "canceled"}
             /\ UNCHANGED <<stock, points>>
    <3>1. GoodsOf(t) = 0 /\ GoodsOf(t)' = 0 /\ PointsOf(t) = 0 /\ PointsOf(t)' = 0
      BY <1>2, <2>3 DEF GoodsOf, PointsOf, Stands, Returnable
    <3> QED
      BY <1>4, <2>1, <2>3, <3>1
  <2>4. CASE sale[t].status \in Returnable /\ x = "completed" /\ UNCHANGED <<stock, points>>
    <3>1. GoodsOf(t)' = GoodsOf(t) /\ PointsOf(t)' = PointsOf(t)
      BY <1>2, <1>3, <2>4 DEF GoodsOf, PointsOf, Stands, Returnable
    <3> QED
      BY <1>2, <1>4, <2>4, <3>1
  <2> QED
    BY <1>5, <2>2, <2>3, <2>4
<1>6. drawer' = drawer + (CashOf(t)' - CashOf(t))
  BY <1>3, <1>4
<1> QED
  BY <1>2, <1>5, <1>6 DEF Settles

\* A draft is begun, or written anew.
LEMMA DraftSettles ==
    ASSUME PosInv, LedgerInv, NEW q \in Requests, NEW t \in Sales, NEW b \in Baskets, Draft(q, t, b),
           UNCHANGED <<back, stock, points, drawer, spent>>,
           slips' = 0 => slips = 0 /\ sale[t].status \in {"none", "draft"}
    PROVE  Settles(t)
<1>1. sale[t] \in SaleState /\ TypeOK
  BY DEF PosInv, TypeOK, SaleState
<1>2. /\ sale'[t].status = "draft" /\ sale'[t].cash = sale[t].cash
      /\ \A u \in Sales \ {t} : sale'[u] = sale[u]
  <2>1. /\ sale'[t] = [sale[t] EXCEPT !.status = "draft", !.carts = q, !.basket = b]
        /\ \A u \in Sales \ {t} : sale'[u] = sale[u]
    BY <1>1, Drafted DEF Draft
  <2> QED
    BY <1>1, <2>1 DEF SaleState
<1>3. CashOf(t)' = CashOf(t)
  BY <1>2 DEF CashOf
<1>4. CashOf(t) \in Int /\ drawer \in Int /\ stock \in Int /\ points \in Int /\ spent \in Int
  BY PosAssumption, LedgerTypes DEF PosInv, TypeOK
<1>5. ASSUME slips' = 0
      PROVE  /\ GoodsOf(t) = 0 /\ GoodsOf(t)' = 0 /\ PointsOf(t) = 0 /\ PointsOf(t)' = 0
             /\ ~(back'[t].linked > 0)
  BY <1>2, <1>5 DEF GoodsOf, PointsOf, Stands, Returnable, LedgerInv, LinkedOK
<1> QED
  BY <1>2, <1>3, <1>4, <1>5 DEF Settles

\* Goods and points move, and with them the payment in cash.
LEMMA PayAtOnceSettles ==
    ASSUME PosInv, LedgerInv, NEW q \in Requests, PayAtOnce(q)
    PROVE  \E t \in Sales : Settles(t)
<1>1. request[q].pc = "take"
  BY DEF PayAtOnce, At
<1>2. PICK t \in Sales : t = Of(q) /\ sale[t].basket \in Baskets
  BY <1>1, AtSale DEF PosInv
<1>3. /\ Coins(t) \in Int /\ Basket(t).earned \in Nat /\ Basket(t).used \in Nat
      /\ Units(t) \in Int
  BY <1>2, Moves DEF PosInv
<1> DEFINE paid == [sale[t] EXCEPT !.status = "completed", !.granted = Basket(t).earned,
                                   !.payment = "original", !.cash = Coins(t)]
<1>4. sale[t] \in SaleState /\ back[t] \in BackState /\ sale \in [Sales -> SaleState]
  BY DEF PosInv, TypeOK, SaleState, BackState
<1>5. /\ sale'[t].status = "completed" /\ sale'[t].cash = Coins(t)
      /\ sale'[t].granted = Basket(t).earned /\ sale'[t].basket = sale[t].basket
      /\ \A u \in Sales \ {t} : sale'[u] = sale[u]
  <2>1. sale' = [sale EXCEPT ![t] = paid]
    BY <1>2 DEF PayAtOnce
  <2>2. /\ paid.status = "completed" /\ paid.cash = Coins(t)
        /\ paid.granted = Basket(t).earned /\ paid.basket = sale[t].basket
    BY <1>4 DEF SaleState
  <2> QED
    BY <1>4, <2>1, <2>2
<1>6. /\ UNCHANGED <<back, spent>> /\ sale[t].cash = 0
      /\ drawer' = drawer + Coins(t) /\ stock' = stock + Units(t)
      /\ points' = points + Basket(t).earned - Basket(t).used
  BY <1>2 DEF PayAtOnce, CashPaid, Consumed, PosInv, KnownOK, CashKnown
<1>7. slips' = 0 => slips = 0 /\ sale[t].status = "draft"
  <2>1. TypeOK /\ CountsIf(sale[t].status # "draft")
    BY <1>2 DEF PayAtOnce, PosInv
  <2> QED
    BY <2>1, Counted DEF CountsIf
<1>8. drawer' = drawer + (CashOf(t)' - CashOf(t))
  <2>1. PICK c, d \in Int : c = back[t].cash /\ d = drawer
    BY <1>4 DEF BackState, PosInv, TypeOK
  <2>2. CashOf(t) = 0 - c
    BY <1>6, <2>1 DEF CashOf
  <2>3. CashOf(t)' = Coins(t) - c
    BY <1>5, <1>6, <2>1 DEF CashOf
  <2> QED
    BY <1>3, <1>6, <2>1, <2>2, <2>3
<1>9. ASSUME slips' = 0
      PROVE  /\ stock' = stock + (GoodsOf(t)' - GoodsOf(t))
             /\ points' + spent' = points + spent + (PointsOf(t)' - PointsOf(t))
  <2>1. back[t].done = 0
    <3>1. ~(back[t].linked > 0) /\ back[t].done <= back[t].linked
      BY <1>7, <1>9 DEF LedgerInv, LinkedOK, PosInv, ReturnsOK
    <3> QED
      BY <1>4, <3>1 DEF BackState
  <2>2. GoodsOf(t) = 0 /\ GoodsOf(t)' = Units(t)
    BY <1>5, <1>6, <1>7, <1>9, <2>1 DEF GoodsOf, Stands, Returnable, Units, Basket
  <2>3. PICK e, u \in Int : e = Basket(t).earned /\ u = Basket(t).used
    BY <1>3
  <2>4. PointsOf(t) = 0 /\ PointsOf(t)' = e - u
    BY <1>5, <1>6, <1>7, <1>9, <2>1, <2>3 DEF PointsOf, Stands, Returnable, Basket
  <2>5. PICK p, s, k \in Int : p = points /\ s = spent /\ k = stock
    BY PosAssumption DEF PosInv, TypeOK
  <2>6. points' = p + e - u /\ spent' = s /\ stock' = k + Units(t)
    BY <1>6, <2>3, <2>5
  <2> QED
    BY <1>3, <2>2, <2>4, <2>5, <2>6
<1>10. Settles(t)
  BY <1>5, <1>6, <1>7, <1>8, <1>9 DEF Settles
<1> QED
  BY <1>10

LEMMA CommitSettles ==
    ASSUME PosInv, LedgerInv, NEW q \in Requests, Commit(q)
    PROVE  \E t \in Sales : Settles(t)
<1>1. request[q].pc = "checkout"
  BY DEF Commit, At
<1>2. PICK t \in Sales : t = Of(q) /\ sale[t].basket \in Baskets
  BY <1>1, AtSale DEF PosInv
<1>3. Basket(t).earned \in Nat /\ Basket(t).used \in Nat /\ Units(t) \in Int
  BY <1>2, Moves DEF PosInv
<1> DEFINE asked == [sale[t] EXCEPT !.status = "paying", !.granted = Basket(t).earned,
                                    !.asked = TRUE]
<1>4. sale[t] \in SaleState /\ back[t] \in BackState /\ sale \in [Sales -> SaleState]
  BY DEF PosInv, TypeOK, SaleState, BackState
<1>5. /\ sale'[t].status = "paying" /\ sale'[t].cash = sale[t].cash
      /\ sale'[t].granted = Basket(t).earned /\ sale'[t].basket = sale[t].basket
      /\ \A u \in Sales \ {t} : sale'[u] = sale[u]
  <2>1. sale' = [sale EXCEPT ![t] = asked]
    BY <1>2 DEF Commit
  <2>2. /\ asked.status = "paying" /\ asked.cash = sale[t].cash
        /\ asked.granted = Basket(t).earned /\ asked.basket = sale[t].basket
    BY <1>4 DEF SaleState
  <2> QED
    BY <1>4, <2>1, <2>2
<1>6. /\ UNCHANGED <<back, spent, drawer>> /\ stock' = stock + Units(t)
      /\ points' = points + Basket(t).earned - Basket(t).used
  BY <1>2 DEF Commit, Consumed
<1>7. slips' = 0 => slips = 0 /\ sale[t].status = "draft"
  <2>1. TypeOK /\ CountsIf(sale[t].status # "draft")
    BY <1>2 DEF Commit, PosInv
  <2> QED
    BY <2>1, Counted DEF CountsIf
<1>8. drawer' = drawer + (CashOf(t)' - CashOf(t))
  <2>1. CashOf(t) \in Int /\ drawer \in Int
    BY LedgerTypes DEF PosInv, TypeOK
  <2>2. CashOf(t)' = CashOf(t)
    BY <1>5, <1>6 DEF CashOf
  <2> QED
    BY <1>6, <2>1, <2>2
<1>9. ASSUME slips' = 0
      PROVE  /\ stock' = stock + (GoodsOf(t)' - GoodsOf(t))
             /\ points' + spent' = points + spent + (PointsOf(t)' - PointsOf(t))
             /\ ~(back'[t].linked > 0)
  <2>1. back[t].done = 0 /\ ~(back'[t].linked > 0)
    <3>1. ~(back[t].linked > 0) /\ back[t].done <= back[t].linked
      BY <1>7, <1>9 DEF LedgerInv, LinkedOK, PosInv, ReturnsOK
    <3> QED
      BY <1>4, <1>6, <3>1 DEF BackState
  <2>2. GoodsOf(t) = 0 /\ GoodsOf(t)' = Units(t)
    BY <1>5, <1>6, <1>7, <1>9, <2>1 DEF GoodsOf, Stands, Returnable, Units, Basket
  <2>3. PICK e, u \in Int : e = Basket(t).earned /\ u = Basket(t).used
    BY <1>3
  <2>4. PointsOf(t) = 0 /\ PointsOf(t)' = e - u
    BY <1>5, <1>6, <1>7, <1>9, <2>1, <2>3 DEF PointsOf, Stands, Returnable, Basket
  <2>5. PICK p, s, k \in Int : p = points /\ s = spent /\ k = stock
    BY PosAssumption DEF PosInv, TypeOK
  <2>6. points' = p + e - u /\ spent' = s /\ stock' = k + Units(t)
    BY <1>6, <2>3, <2>5
  <2> QED
    BY <1>3, <2>1, <2>2, <2>4, <2>5, <2>6
<1>10. Settles(t)
  BY <1>5, <1>6, <1>7, <1>8, <1>9 DEF Settles
<1> QED
  BY <1>10

\* A return moves goods, points and, in cash, the drawer back.
LEMMA ReturnSettles ==
    ASSUME PosInv, LedgerInv, NEW q \in Requests, GiveBack(q) \/ RefundCommit(q)
    PROVE  \E t \in Sales : Settles(t)
<1>1. request[q].pc # "idle" /\ Returning(q)
  BY DEF GiveBack, RefundCommit, At, Returning
<1>2. PICK t \in Sales : t = Of(q) /\ sale[t].basket \in Baskets
  BY <1>1, AtSale DEF PosInv
<1>3. /\ sale[t].granted \in Nat /\ Basket(t).used \in Nat /\ Units(t) \in Int /\ Coins(t) \in Int
      /\ CashBack(t) \in Int
  BY <1>2, Moves DEF PosInv, CashBack
<1>4. back[t] \in BackState /\ back \in [Sales -> BackState]
  BY DEF PosInv, TypeOK, BackState
<1>5. PICK m \in Int :
         /\ back'[t].linked = back[t].linked /\ back'[t].done = back[t].done + 1
         /\ back'[t].cash = back[t].cash + m
         /\ drawer' = drawer - m
         /\ \A u \in Sales \ {t} : back'[u] = back[u]
  <2>1. CASE GiveBack(q)
    <3>1. /\ back' = [back EXCEPT ![t] = [back[t] EXCEPT !.done = back[t].done + 1,
                                                         !.cash = back[t].cash + CashBack(t)]]
          /\ drawer' = drawer - CashBack(t)
      BY <1>2, <2>1 DEF GiveBack
    <3> QED
      BY <1>3, <1>4, <3>1 DEF BackState
  <2>2. CASE RefundCommit(q)
    <3>1. /\ back' = [back EXCEPT ![t] = [back[t] EXCEPT !.done = back[t].done + 1]]
          /\ drawer' = drawer
      BY <1>2, <2>2 DEF RefundCommit
    <3>2. drawer' = drawer - 0 /\ back[t].cash = back[t].cash + 0
      BY <1>4, <3>1 DEF BackState, PosInv, TypeOK
    <3> QED
      BY <1>4, <3>1, <3>2 DEF BackState
  <2> QED
    BY <2>1, <2>2
<1>6. /\ UNCHANGED <<sale, spent>> /\ stock' = stock - Units(t) /\ points' = PointsTakenBack(t)
  BY <1>2 DEF GiveBack, RefundCommit, Returned
<1>7. slips' = 0 => slips = 0
  <2>1. TypeOK /\ CountsIf(sale[t].status # "completed")
    BY <1>2 DEF GiveBack, RefundCommit, PosInv
  <2> QED
    BY <2>1, Counted DEF CountsIf
<1>8. drawer' = drawer + (CashOf(t)' - CashOf(t))
  <2>1. PICK c, d \in Int : c = back[t].cash /\ d = drawer
    BY <1>4 DEF BackState, PosInv, TypeOK
  <2>2. PICK k \in Int : CashOf(t) = k - back[t].cash /\ CashOf(t)' = k - back'[t].cash
    BY <1>6 DEF CashOf, PosInv, TypeOK
  <2>3. CashOf(t) = k - c /\ CashOf(t)' = k - (c + m) /\ drawer' = d - m
    BY <1>5, <2>1, <2>2
  <2> QED
    BY <2>1, <2>3
<1>9. ASSUME slips' = 0
      PROVE  /\ stock' = stock + (GoodsOf(t)' - GoodsOf(t))
             /\ points' + spent' = points + spent + (PointsOf(t)' - PointsOf(t))
             /\ sale'[t].status = "completed"
  <2>1. back[t].done = 0 /\ back[t].linked = 1
    BY <1>1, <1>2, <1>7, <1>9 DEF PosInv, ReturnsOK
  <2>2. sale[t].status = "completed" /\ sale'[t].status = "completed" /\ back'[t].done = 1
    BY <1>5, <1>6, <1>7, <1>9, <2>1 DEF LedgerInv, LinkedOK
  <2>3. GoodsOf(t) = Units(t) /\ GoodsOf(t)' = 0
    BY <2>1, <2>2 DEF GoodsOf, Stands, Returnable
  <2>4. PICK g, u \in Int : g = sale[t].granted /\ u = Basket(t).used
    BY <1>3
  <2>5. PointsOf(t) = g - u /\ PointsOf(t)' = 0
    BY <2>1, <2>2, <2>4 DEF PointsOf, Stands, Returnable
  <2>6. PICK p, s, k \in Int : p = points /\ s = spent /\ k = stock
    BY PosAssumption DEF PosInv, TypeOK
  <2>7. points' = p - g + u /\ spent' = s /\ stock' = k - Units(t)
    BY <1>6, <2>4, <2>6 DEF PointsTakenBack
  <2> QED
    BY <1>3, <2>2, <2>3, <2>5, <2>6, <2>7
<1>10. Settles(t)
  BY <1>5, <1>6, <1>7, <1>8, <1>9 DEF Settles
<1> QED
  BY <1>10

\* A return transaction is linked to its original, or its link is cut.
LEMMA LinkSettles ==
    ASSUME PosInv, LedgerInv, NEW q \in Requests, ReturnCreate(q) \/ ReturnFails(q)
    PROVE  \E t \in Sales : Settles(t)
<1>1. request[q].pc # "idle"
  BY DEF ReturnCreate, ReturnFails, At
<1>2. PICK t \in Sales : t = Of(q)
  BY <1>1, AtSale DEF PosInv
<1>3. back[t] \in BackState /\ back \in [Sales -> BackState]
  BY DEF PosInv, TypeOK, BackState
<1>4. /\ back'[t].done = back[t].done /\ back'[t].cash = back[t].cash
      /\ ReturnFails(q) /\ back'[t].linked > 0 => back[t].linked > 0
      /\ \A u \in Sales \ {t} : back'[u] = back[u]
  <2>1. CASE ReturnCreate(q)
    BY <1>2, <1>3, <2>1 DEF ReturnCreate, ReturnFails, At, BackState
  <2>2. CASE ReturnFails(q)
    BY <1>2, <1>3, <2>2 DEF ReturnFails, Unlinked, BackState
  <2> QED
    BY <2>1, <2>2
<1>5. UNCHANGED <<sale, stock, points, drawer, spent>>
  BY DEF ReturnCreate, ReturnFails
<1>6. slips' = 0 => slips = 0 /\ (ReturnCreate(q) => sale[t].status = "completed")
  <2>1. CASE ReturnCreate(q)
    <3>1. CountsIf(back[t].linked # request[q].links \/ sale[t].status # "completed")
      BY <1>2, <2>1 DEF ReturnCreate
    <3> QED
      BY <3>1, PosAssumption DEF CountsIf, PosInv, TypeOK
  <2>2. CASE ReturnFails(q)
    BY <2>2, PosAssumption DEF ReturnFails, ReturnCreate, At, CountsIf, PosInv, TypeOK
  <2> QED
    BY <2>1, <2>2
<1>7. CashOf(t)' = CashOf(t) /\ GoodsOf(t)' = GoodsOf(t) /\ PointsOf(t)' = PointsOf(t)
  BY <1>4, <1>5 DEF CashOf, GoodsOf, PointsOf, Stands, Units, Basket
<1>8. CashOf(t) \in Int /\ GoodsOf(t) \in Int /\ PointsOf(t) \in Int
      /\ drawer \in Int /\ stock \in Int /\ points \in Int /\ spent \in Int
  BY PosAssumption, LedgerTypes DEF PosInv, TypeOK
<1>9. slips' = 0 => (back'[t].linked > 0 => sale'[t].status = "completed")
  BY <1>4, <1>5, <1>6 DEF LedgerInv, LinkedOK
<1> QED
  BY <1>4, <1>5, <1>6, <1>7, <1>8, <1>9 DEF Settles

\* Square's payment is upserted.
LEMMA UpsertSettles ==
    ASSUME PosInv, LedgerInv, NEW q \in Requests, NEW t \in Sales, PaymentUpdated(q, t)
    PROVE  Settles(t)
<1>1. sale[t] \in SaleState /\ sale \in [Sales -> SaleState]
  BY DEF PosInv, TypeOK, SaleState
<1>2. PICK m : /\ sale' = [sale EXCEPT ![t].payment = m]
               /\ m = IF sale[t].payment = "none" THEN "square" ELSE sale[t].payment
  BY DEF PaymentUpdated
<1>3. /\ sale'[t].status = sale[t].status /\ sale'[t].cash = sale[t].cash
      /\ sale'[t].granted = sale[t].granted /\ sale'[t].basket = sale[t].basket
      /\ \A u \in Sales \ {t} : sale'[u] = sale[u]
  BY <1>1, <1>2 DEF SaleState
<1>4. UNCHANGED <<back, stock, points, drawer, spent, slips>>
  BY DEF PaymentUpdated
<1>5. CashOf(t)' = CashOf(t) /\ GoodsOf(t)' = GoodsOf(t) /\ PointsOf(t)' = PointsOf(t)
  <2>1. CashOf(t)' = CashOf(t)
    BY <1>3, <1>4 DEF CashOf
  <2>2. GoodsOf(t)' = GoodsOf(t)
    BY <1>3, <1>4 DEF GoodsOf, Stands, Units, Basket
  <2>3. PointsOf(t)' = PointsOf(t)
    BY <1>3, <1>4 DEF PointsOf, Stands, Basket
  <2> QED
    BY <2>1, <2>2, <2>3
<1>6. CashOf(t) \in Int /\ GoodsOf(t) \in Int /\ PointsOf(t) \in Int
      /\ drawer \in Int /\ stock \in Int /\ points \in Int /\ spent \in Int
  BY PosAssumption, LedgerTypes DEF PosInv, TypeOK
<1>7. slips' = 0 => (back'[t].linked > 0 => sale'[t].status = "completed")
  BY <1>3, <1>4 DEF LedgerInv, LinkedOK
<1> QED
  BY <1>3, <1>4, <1>5, <1>6, <1>7 DEF Settles

\* Whoever writes a status without a condition has read it, and while nothing slips it is
\* still so.
LEMMA NotCrossed ==
    ASSUME PosInv, NEW t \in Sales, NEW seen, CountsIf(Crossed(t, seen)), slips' = 0
    PROVE  slips = 0 /\ sale[t].status = seen
<1>1. TypeOK /\ Crossed(t, seen) \in BOOLEAN
  BY DEF PosInv, Crossed
<1> QED
  BY <1>1, Counted DEF CountsIf, Crossed

\* A request that gives up a transaction, or completes it.
LEMMA EndingSettles ==
    ASSUME PosInv, LedgerInv, NEW q \in Requests,
           Cancel(q) \/ Drop(q) \/ Complete(q) \/ (Clean(q) /\ request[q].op = "new")
    PROVE  \E t \in Sales : Settles(t)
<1>1. request[q].pc # "idle"
  BY DEF Cancel, Drop, Complete, Clean, At
<1>2. PICK t \in Sales : t = Of(q)
  BY <1>1, AtSale DEF PosInv
<1>3. "draft" \in Statuses /\ "canceled" \in Statuses /\ "completed" \in Statuses
  BY DEF Statuses
<1>4. CASE Cancel(q)
  <2>1. /\ sale' = [sale EXCEPT ![t].status = "canceled"] /\ UNCHANGED <<back, drawer, spent>>
        /\ CountsIf(Crossed(t, request[q].seen))
        /\ IF request[q].seen = "paying" THEN Returned(t) ELSE UNCHANGED <<stock, points>>
    BY <1>2, <1>4 DEF Cancel
  <2>2. slips' = 0 => /\ slips = 0 /\ sale[t].status = request[q].seen
                      /\ request[q].seen \in {"draft", "paying"}
    BY <1>4, <2>1, NotCrossed DEF Cancel, PosInv, SeenAt, At, CountsIf, Crossed
  <2> QED
    BY <1>3, <2>1, <2>2, StatusSettles DEF Returned
<1>5. CASE Drop(q)
  <2>1. /\ sale' = [sale EXCEPT ![t].status = "canceled"] /\ UNCHANGED <<back, drawer, spent>>
        /\ CountsIf(Crossed(t, "paying")) /\ Returned(t)
    BY <1>2, <1>5 DEF Drop
  <2>2. slips' = 0 => slips = 0 /\ sale[t].status = "paying"
    BY <2>1, NotCrossed DEF CountsIf, Crossed
  <2> QED
    BY <1>3, <2>1, <2>2, StatusSettles DEF Returned
<1>6. CASE Complete(q)
  <2>1. /\ sale' = [sale EXCEPT ![t].status = "completed"]
        /\ UNCHANGED <<back, drawer, spent, stock, points, slips>>
    BY <1>2, <1>6 DEF Complete, Completed
  <2>2. slips' = 0 => slips = 0 /\ sale[t].status \in Returnable
    BY <1>2, <1>6, <2>1 DEF Complete, PosInv, SeenAt, MoneyAt, At
  <2> QED
    BY <1>3, <2>1, <2>2, StatusSettles
<1>7. CASE Clean(q) /\ request[q].op = "new"
  <2>1. /\ sale' = [sale EXCEPT ![t].status = "canceled"]
        /\ UNCHANGED <<back, drawer, spent, stock, points>>
        /\ CountsIf(Crossed(t, request[q].seen))
    BY <1>2, <1>7 DEF Clean
  <2>2. slips' = 0 => /\ slips = 0 /\ sale[t].status = request[q].seen
                      /\ request[q].seen \in {"draft", "canceled"}
    BY <1>7, <2>1, NotCrossed DEF Clean, PosInv, SeenAt, At, CountsIf, Crossed
  <2> QED
    BY <1>3, <2>1, <2>2, StatusSettles
<1> QED
  BY <1>4, <1>5, <1>6, <1>7

\* The worker makes a draft again of what has not been paid.
LEMMA TimeoutSettles ==
    ASSUME PosInv, LedgerInv, NEW t \in Sales, TimeoutCommit(t)
    PROVE  Settles(t)
<1>1. /\ sale' = [sale EXCEPT ![t].status = "draft"] /\ UNCHANGED <<back, drawer, spent>>
      /\ CountsIf(Crossed(t, "paying")) /\ Returned(t)
  BY DEF TimeoutCommit
<1>2. slips' = 0 => slips = 0 /\ sale[t].status = "paying"
  BY <1>1, NotCrossed DEF CountsIf, Crossed
<1>3. "draft" \in Statuses
  BY DEF Statuses
<1> QED
  BY <1>1, <1>2, <1>3, StatusSettles DEF Returned

LEMMA BeginningSettles ==
    ASSUME PosInv, LedgerInv, NEW q \in Requests, Reopen(q) \/ \E t \in Sales : New(q, t)
    PROVE  \E t \in Sales : Settles(t)
<1>1. ASSUME NEW t \in Sales, New(q, t)
      PROVE  Settles(t)
  <2>1. PICK b \in Baskets : Draft(q, t, b)
    BY <1>1 DEF New
  <2>2. UNCHANGED <<back, stock, points, drawer, spent, slips>> /\ sale[t].status = "none"
    BY <1>1 DEF New
  <2> QED
    BY <2>1, <2>2, DraftSettles DEF Draft
<1>2. CASE Reopen(q)
  <2>1. request[q].pc = "reopen"
    BY <1>2 DEF Reopen, At
  <2>2. PICK t \in Sales : t = Of(q)
    BY <2>1, AtSale DEF PosInv
  <2>3. PICK b \in Baskets : Draft(q, t, b)
    BY <1>2, <2>2 DEF Reopen
  <2>4. UNCHANGED <<back, stock, points, drawer, spent>> /\ CountsIf(Crossed(t, "draft"))
    BY <1>2, <2>2 DEF Reopen
  <2>5. slips' = 0 => slips = 0 /\ sale[t].status = "draft"
    BY <2>4, NotCrossed DEF CountsIf, Crossed
  <2> QED
    BY <2>3, <2>4, <2>5, DraftSettles DEF Draft
<1> QED
  BY <1>1, <1>2

\* Goods that go back without a status being written are a slip.
LEMMA UndoSettles ==
    ASSUME PosInv, LedgerInv, NEW q \in Requests, Undo(q)
    PROVE  \E t \in Sales : Settles(t)
<1>1. request[q].pc = "undo"
  BY DEF Undo, At
<1>2. PICK t \in Sales : t = Of(q)
  BY <1>1, AtSale DEF PosInv
<1>3. slips' # 0
  <2>1. slips' = 0 => slips = 0
    BY Counted DEF Undo, PosInv, Crossed
  <2> QED
    BY <1>1, <2>1 DEF PosInv, SeenAt, At, Undo, Returnable
<1>4. UNCHANGED <<sale, back, drawer>>
  BY DEF Undo
<1>5. CashOf(t)' = CashOf(t)
  BY <1>4 DEF CashOf
<1>6. CashOf(t) \in Int /\ drawer \in Int
  BY LedgerTypes DEF PosInv, TypeOK
<1> QED
  BY <1>2, <1>3, <1>4, <1>5, <1>6 DEF Settles

LEMMA QuietSettles ==
    ASSUME PosInv, LedgerInv, [Next]_vars, UNCHANGED rows, UNCHANGED spent
    PROVE  SettlesNone
<1>1. slips' = slips \/ slips' = slips + 1
  <2>1. CASE UNCHANGED vars
    BY <2>1 DEF vars
  <2>2. ASSUME NEW q \in Requests, Requested(q)
        PROVE  slips' = slips \/ slips' = slips + 1
    BY <2>2 DEF Requested, CountsIf, New, ResumeRead, CancelRead, ReturnRead, PaymentUpdated,
                CheckoutCanceled, Reopen, LeaveAsDraft, PayAtOnce, AskTerminal, Commit, TakeFails, Watch,
                Misses, Paid, WaitEnds, Reread, Undo, UndoFails, Clean, Finish, FinishFails, Cancel,
                Complete, Drop, ReturnCreate, GiveBack, AskRefund, RefundUpdated, RefundCommit,
                ReturnFails, Dies
  <2>3. ASSUME NEW t \in Sales, Elsewhere(t)
        PROVE  slips' = slips \/ slips' = slips + 1
    BY <2>3 DEF Elsewhere, CountsIf, TimeoutRead, TimeoutCommit, TimeoutFails, WorkerDies, Undelivered, CustomerPays,
                CheckoutEnds, RefundDone
  <2>4. CASE Spend
    BY <2>4 DEF Spend
  <2> QED
    BY <2>1, <2>2, <2>3, <2>4 DEF Next
<1> QED
  BY <1>1, NoneSettled

\* Every step moves the drawer, the shelf and the points by what it writes of one
\* transaction, or leaves all of them alone.
LEMMA StepSettles ==
    ASSUME PosInv, LedgerInv, [Next]_vars
    PROVE  SettlesNone \/ \E t \in Sales : Settles(t)
<1>1. CASE UNCHANGED rows /\ UNCHANGED spent
  BY <1>1, QuietSettles
<1>2. CASE Spend
  <2>1. PICK p, s \in Int : p = points /\ s = spent
    BY DEF PosInv, TypeOK
  <2>2. points' = p - 1 /\ spent' = s + 1 /\ UNCHANGED <<sale, back, stock, drawer, slips>>
    BY <1>2, <2>1 DEF Spend
  <2> QED
    BY <2>1, <2>2 DEF SettlesNone
<1>3. ASSUME NEW t \in Sales, Elsewhere(t)
      PROVE  TimeoutCommit(t) \/ (UNCHANGED rows /\ UNCHANGED spent)
  BY <1>3 DEF Elsewhere, TimeoutRead, TimeoutFails, WorkerDies, Undelivered, CustomerPays, CheckoutEnds, RefundDone
<1>4. ASSUME NEW q \in Requests, Requested(q)
      PROVE  \/ UNCHANGED rows /\ UNCHANGED spent
             \/ \E t \in Sales : New(q, t) \/ PaymentUpdated(q, t)
             \/ PayAtOnce(q) \/ Commit(q) \/ Reopen(q) \/ Undo(q)
             \/ Cancel(q) \/ Drop(q) \/ Complete(q) \/ (Clean(q) /\ request[q].op = "new")
             \/ ReturnCreate(q) \/ ReturnFails(q) \/ GiveBack(q) \/ RefundCommit(q)
  <2>1. CASE Clean(q)
    BY <2>1 DEF Clean, rows
  <2>2. CASE ~Clean(q)
    BY <1>4, <2>2 DEF Requested, ResumeRead, CancelRead, ReturnRead, CheckoutCanceled, LeaveAsDraft,
                      AskTerminal, TakeFails, Watch, Misses, Paid, WaitEnds, Reread, UndoFails, Finish,
                      FinishFails, AskRefund, RefundUpdated, Dies
  <2> QED
    BY <2>1, <2>2
<1>5. ASSUME NEW q \in Requests, Requested(q), ~(UNCHANGED rows /\ UNCHANGED spent)
      PROVE  \E t \in Sales : Settles(t)
  BY <1>4, <1>5, BeginningSettles, UpsertSettles, PayAtOnceSettles, CommitSettles, UndoSettles,
     EndingSettles, LinkSettles, ReturnSettles
<1>6. CASE UNCHANGED vars
  BY <1>1, <1>6 DEF vars, rows
<1> QED
  BY <1>1, <1>2, <1>3, <1>5, <1>6, TimeoutSettles DEF Next

LEMMA LedgerStarts == Init => LedgerInv
<1> SUFFICES ASSUME Init PROVE LedgerInv
  OBVIOUS
<1>1. \A t \in Sales : CashOf(t) = 0 /\ GoodsOf(t) = 0 /\ PointsOf(t) = 0
  <2>1. \A t \in Sales : sale[t].status = "none" /\ sale[t].cash = 0 /\ back[t].cash = 0
    BY DEF Init
  <2>2. ASSUME NEW t \in Sales
        PROVE  CashOf(t) = 0
    <3>1. CashOf(t) = 0 - back[t].cash /\ back[t].cash = 0
      BY <2>1 DEF CashOf
    <3> QED
      BY <3>1
  <2> QED
    BY <2>1, <2>2 DEF GoodsOf, PointsOf, Stands, Returnable
<1> DEFINE Cash == [t \in Sales |-> CashOf(t)]
           Goods == [t \in Sales |-> GoodsOf(t)]
           Given == [t \in Sales |-> PointsOf(t)]
<1>2. /\ Cash \in [Sales -> Int] /\ Goods \in [Sales -> Int] /\ Given \in [Sales -> Int]
      /\ \A t \in Sales : Cash[t] = 0 /\ Goods[t] = 0 /\ Given[t] = 0
  BY <1>1
<1>3. SumFunction(Cash) = 0 /\ SumFunction(Goods) = 0 /\ SumFunction(Given) = 0
  <2> HIDE DEF Cash, Goods, Given
  <2> QED
    BY <1>2, SumOfZeros, PosAssumption
<1>4. drawer = Float /\ stock = Stock /\ points = Points /\ spent = 0
  BY DEF Init
<1>5. LinkedOK
  BY DEF Init, LinkedOK
<1> QED
  BY <1>3, <1>4, <1>5, PosAssumption DEF LedgerInv, DrawerFollowsPayments, GoodsAndPointsFollowSales

LEMMA LedgerKept == Spec => []LedgerInv
<1>1. Init => LedgerInv
  BY LedgerStarts
<1>2. PosInv /\ PosInv' /\ LedgerInv /\ [Next]_vars => LedgerInv'
  BY StepSettles, SettledLedger
<1> QED
  BY <1>1, <1>2, Invariant, PTL DEF Spec

\* Whoever crosses whom, the drawer holds the float and the cash of each payment and each
\* refund on record.
THEOREM DrawerIsAccounted == Spec => []DrawerFollowsPayments
<1>1. LedgerInv => DrawerFollowsPayments
  BY DEF LedgerInv
<1> QED
  BY <1>1, LedgerKept, PTL

\* While no step slips the goods and the points of every transaction have moved exactly
\* once, and are back exactly once when it was given up or returned: what is on the shelf,
\* and what the customer has, is what the transactions that stand say.
THEOREM GoodsAndPointsAreAccounted == Spec => []GoodsAndPointsFollowSales
<1>1. LedgerInv => GoodsAndPointsFollowSales
  BY DEF LedgerInv
<1> QED
  BY <1>1, LedgerKept, PTL

====
