-------------------------- MODULE ExternalEcProofs --------------------------
(***************************************************************************)
(* Proofs about ExternalEc, for any products, orders, workers, chunks and  *)
(* bounds: an order of the shop takes a unit, and one more for each time   *)
(* that its message was handled and not deleted, if no message comes back  *)
(* too early; and once nothing is on its way any more, the shop shows what *)
(* EC lists, unless a message was lost or came back too early, which       *)
(* variables of the module record.                                         *)
(*                                                                         *)
(* A number passes through four places, and the invariant has one part for *)
(* each step between them: the table of rows against what the queue was    *)
(* told (ListedOK, PushedOK), the messages against what was told           *)
(* (LastMessageOK), the shop against the messages (NearOK), and the        *)
(* orders that the product does not know of yet (OpenOK).                  *)
(***************************************************************************)
EXTENDS ExternalEc, TLAPS, SequenceTheorems, WellFoundedInduction

-----------------------------------------------------------------------------
(* Lists of numbers, and what they make of what the shop shows.            *)

\* A set of places in a list has a last one.
LEMMA LastExists ==
    ASSUME NEW n \in Nat, NEW T \in SUBSET (1..n), T # {}
    PROVE  \E i \in T : \A k \in T : k <= i
<1> DEFINE R == {z \in Nat \X Nat : z[1] < z[2]}
           U == {n - i : i \in T}
<1>1. IsWellFoundedOn(R, Nat)
  <2>1. R = OpToRel(<, Nat)
    BY DEF OpToRel
  <2> QED
    BY <2>1, NatLessThanWellFounded
<1>2. U \subseteq Nat /\ U # {}
  <2>1. \A i \in T : i \in 1..n /\ n - i \in Nat
    OBVIOUS
  <2>2. PICK i \in T : TRUE
    OBVIOUS
  <2>3. n - i \in U
    OBVIOUS
  <2> QED
    BY <2>1, <2>3
<1>3. PICK u \in U : \A v \in U : ~(<<v, u>> \in R)
  <2> HIDE DEF R, U
  <2> QED
    BY <1>1, <1>2, WFMin
<1>4. PICK i \in T : u = n - i
  OBVIOUS
<1>5. \A k \in T : k <= i
  <2> SUFFICES ASSUME NEW k \in T PROVE k <= i
    OBVIOUS
  <2>1. n - k \in U /\ n - k \in Nat /\ u \in Nat
    BY <1>2
  <2>2. ~(n - k < u)
    BY <1>3, <2>1
  <2> QED
    BY <1>4, <2>2
<1> QED
  BY <1>5

Mentions(stock, p) == \E i \in DOMAIN stock : stock[i].product = p

\* A list that mentions a product has a last number of it.
LEMMA LastOfOne ==
    ASSUME NEW stock, NEW n \in Nat, DOMAIN stock = 1..n, NEW p
    PROVE  /\ Mentions(stock, p) <=> LastOf(stock, p) # {}
           /\ \A i, k \in LastOf(stock, p) : i = k
<1>1. Mentions(stock, p) => LastOf(stock, p) # {}
  <2> HAVE Mentions(stock, p)
  <2> DEFINE T == {i \in 1..n : stock[i].product = p}
  <2>1. T # {} /\ T \in SUBSET (1..n)
    BY DEF Mentions
  <2>2. PICK i \in T : \A k \in T : k <= i
    <3> HIDE DEF T
    <3> QED
      BY <2>1, LastExists
  <2>3. \A k \in DOMAIN stock : k > i => stock[k].product # p
    BY <2>2
  <2> QED
    BY <2>2, <2>3 DEF LastOf
<1> QED
  BY <1>1 DEF LastOf, Mentions

\* The last number of a product counts, whatever the shop showed; others stay as they were.
LEMMA SetToIs ==
    ASSUME NEW stock, NEW n \in Nat, DOMAIN stock = 1..n, NEW p \in Products, NEW shown
    PROVE  /\ ~Mentions(stock, p) => SetTo(shown, stock)[p] = shown[p]
           /\ \A i \in LastOf(stock, p) : SetTo(shown, stock)[p] = stock[i].result
<1>1. ~Mentions(stock, p) => SetTo(shown, stock)[p] = shown[p]
  BY LastOfOne DEF SetTo
<1>2. ASSUME NEW i \in LastOf(stock, p)
      PROVE  SetTo(shown, stock)[p] = stock[i].result
  <2>1. (CHOOSE k \in LastOf(stock, p) : TRUE) = i
    BY <1>2, LastOfOne
  <2> QED
    BY <1>2, <2>1 DEF SetTo
<1> QED
  BY <1>1, <1>2

LEMMA SetToSame ==
    ASSUME NEW stock, NEW n \in Nat, DOMAIN stock = 1..n, NEW p \in Products, NEW a, NEW b,
           Mentions(stock, p) \/ a[p] = b[p]
    PROVE  SetTo(a, stock)[p] = SetTo(b, stock)[p]
<1>1. CASE Mentions(stock, p)
  <2>1. PICK i \in LastOf(stock, p) : TRUE
    BY <1>1, LastOfOne
  <2> QED
    BY <2>1, SetToIs
<1>2. CASE ~Mentions(stock, p) /\ a[p] = b[p]
  BY <1>2, SetToIs
<1> QED
  BY <1>1, <1>2

\* A list that is cut in two.
LEMMA SetToParts ==
    ASSUME NEW first, NEW m \in Nat, DOMAIN first = 1..m,
           NEW rest, NEW l \in Nat, DOMAIN rest = 1..l,
           NEW stock, DOMAIN stock = 1..(m + l),
           \A i \in 1..m : first[i] = stock[i], \A i \in 1..l : rest[i] = stock[m + i],
           NEW p \in Products, NEW shown
    PROVE  SetTo(shown, stock)[p] = SetTo(SetTo(shown, first), rest)[p]
<1> DEFINE n == m + l
<1>1. n \in Nat /\ n - m = l /\ DOMAIN stock = 1..n
  OBVIOUS
<1> HIDE DEF n
<1>2. CASE Mentions(rest, p)
  <2>1. PICK i \in LastOf(rest, p) : TRUE
    BY <1>1, <1>2, LastOfOne
  <2>2. i \in 1..l /\ rest[i].product = p
        /\ \A k \in 1..l : k > i => rest[k].product # p
    BY <2>1 DEF LastOf
  <2>3. m + i \in LastOf(stock, p)
    <3>1. m + i \in 1..n /\ stock[m + i].product = p
      BY <2>2 DEF n
    <3>2. ASSUME NEW k \in 1..n, k > m + i PROVE stock[k].product # p
      <4>1. k - m \in 1..l /\ k - m > i /\ m + (k - m) = k
        BY <2>2, <3>2 DEF n
      <4> QED
        BY <2>2, <4>1
    <3> QED
      BY <1>1, <3>1, <3>2 DEF LastOf
  <2>4. stock[m + i].result = rest[i].result
    BY <2>2
  <2> QED
    BY <1>1, <2>1, <2>3, <2>4, SetToIs
<1>3. CASE ~Mentions(rest, p)
  <2>1. SetTo(SetTo(shown, first), rest)[p] = SetTo(shown, first)[p]
    BY <1>1, <1>3, SetToIs
  <2>2. \A k \in 1..n : k > m => stock[k].product # p
    <3> SUFFICES ASSUME NEW k \in 1..n, k > m PROVE stock[k].product # p
      OBVIOUS
    <3>1. k - m \in 1..l /\ m + (k - m) = k
      BY DEF n
    <3> QED
      BY <1>3, <3>1 DEF Mentions
  <2>3. CASE Mentions(first, p)
    <3>1. PICK i \in LastOf(first, p) : TRUE
      BY <1>1, <2>3, LastOfOne
    <3>2. /\ i \in 1..m /\ first[i].product = p
          /\ \A k \in 1..m : k > i => first[k].product # p
      BY <3>1 DEF LastOf
    <3>3. \A k \in 1..n : k \in 1..m \/ k > m
      BY DEF n
    <3>4. \A k \in 1..n : k > i => stock[k].product # p
      BY <2>2, <3>2, <3>3
    <3>5. i \in 1..n /\ stock[i] = first[i]
      BY <3>2 DEF n
    <3>6. i \in LastOf(stock, p)
      BY <1>1, <3>2, <3>4, <3>5 DEF LastOf
    <3> QED
      BY <1>1, <2>1, <3>1, <3>5, <3>6, SetToIs
  <2>4. CASE ~Mentions(first, p)
    <3>1. ~Mentions(stock, p)
      <4>1. \A k \in 1..n : k \in 1..m \/ k > m
        BY DEF n
      <4> QED
        BY <1>1, <2>2, <2>4, <4>1 DEF Mentions
    <3> QED
      BY <1>1, <2>1, <2>4, <3>1, SetToIs
  <2> QED
    BY <2>3, <2>4
<1> QED
  BY <1>2, <1>3

-----------------------------------------------------------------------------
(* Types.                                                                  *)

Rows == [id : Nat, product : Products, result : Nat]
Numbers == [product : Products, result : Nat]
Bodies == [chunk : Nat, stock : Seq(Numbers)]
Pollers == [pc : {"stopped", "push"}, batch : Seq(Rows), chunk : Nat, discarded : BOOLEAN]

MessageOK(g, m) ==
    /\ g = "stock" => m \in Bodies
    /\ g = "order" => m \in Orders

WorkerOK(w) ==
    \/ worker[w] = Idle
    \/ /\ worker[w] \in [pc : {"work", "done"}, group : Groups, message : Bodies \cup Orders]
       /\ MessageOK(worker[w].group, worker[w].message)

OrderOK(o) ==
    \/ order[o] = [status |-> "none", taken |-> 0, refused |-> FALSE]
    \/ order[o] \in [status : {"placed", "dropped", "reported"}, product : Products,
                     taken : Nat, refused : BOOLEAN]

TypeOK ==
    /\ listed \in [Products -> Nat] /\ told \in [Products -> Nat] /\ site \in [Products -> Nat]
    /\ changes \in Nat /\ late \in Nat /\ undeleted \in Nat /\ lost \in BOOLEAN
    /\ rows \in Seq(Rows)
    /\ poller \in Pollers /\ (poller.pc = "push" => poller.chunk # 0)
    /\ DOMAIN queue = Groups /\ queue["stock"] \in Seq(Bodies) /\ queue["order"] \in Seq(Orders)
    /\ holder \in [Groups -> Workers \cup {Nobody}]
    /\ DOMAIN worker = Workers /\ \A w \in Workers : WorkerOK(w)
    /\ DOMAIN order = Orders /\ \A o \in Orders : OrderOK(o)
    /\ \A i \in DOMAIN queue["order"] : order[queue["order"][i]].status # "none"
    /\ \A w \in Workers :
          WorksAt(w, "order") => order[worker[w].message].status # "none"

Smaller(m, n) == IF m < n THEN m ELSE n

\* Where the chunk k of what was read begins, and where it ends.
From(k) == (k - 1) * ChunkSize
To(k) == Smaller(k * ChunkSize, Len(poller.batch))

LEMMA ChunkIs ==
    ASSUME TypeOK, NEW k \in Nat \ {0}, ChunkRows(k) # <<>>
    PROVE  /\ From(k) \in Nat /\ To(k) \in Nat /\ From(k) < To(k)
           /\ To(k) <= Len(poller.batch)
           /\ k * ChunkSize = From(k) + ChunkSize
           /\ ChunkRows(k) \in Seq(Rows)
           /\ DOMAIN ChunkRows(k) = 1..(To(k) - From(k))
           /\ \A i \in 1..(To(k) - From(k)) : ChunkRows(k)[i] = poller.batch[From(k) + i]
<1> DEFINE b == poller.batch
           lo == From(k)
           hi == To(k)
<1>1. b \in Seq(Rows) /\ Len(b) \in Nat /\ ChunkSize \in Nat \ {0}
  BY ExternalEcAssumption, LenProperties DEF TypeOK, Pollers
<1>2. lo \in Nat /\ k * ChunkSize = lo + ChunkSize
  BY <1>1 DEF From
<1>3. hi \in Nat /\ hi <= Len(b) /\ hi <= lo + ChunkSize
  BY <1>1, <1>2 DEF To, Smaller
<1>4. ChunkRows(k) = SubSeq(b, lo + 1, hi)
  BY DEF ChunkRows, From, To, Smaller
<1> HIDE DEF lo, hi
<1>5. lo < hi
  BY <1>2, <1>3, <1>4, SubSeqEmpty
<1>6. \A i \in (lo + 1)..hi : b[i] \in Rows
  BY <1>1, <1>2, <1>3, ElementOfSeq
<1>7. /\ SubSeq(b, lo + 1, hi) \in Seq(Rows)
      /\ Len(SubSeq(b, lo + 1, hi)) = hi - lo
      /\ \A i \in 1..(hi - lo) : SubSeq(b, lo + 1, hi)[i] = b[lo + i]
  <2>1. /\ SubSeq(b, lo + 1, hi) \in Seq(Rows)
        /\ Len(SubSeq(b, lo + 1, hi)) = hi - (lo + 1) + 1
        /\ \A i \in 1..(hi - (lo + 1) + 1) : SubSeq(b, lo + 1, hi)[i] = b[(lo + 1) + i - 1]
    BY <1>2, <1>3, <1>5, <1>6, SubSeqProperties
  <2>2. hi - (lo + 1) + 1 = hi - lo
    BY <1>2, <1>3
  <2>3. \A i \in 1..(hi - lo) : (lo + 1) + i - 1 = lo + i
    BY <1>2, <1>3
  <2> DEFINE c == SubSeq(b, lo + 1, hi)
  <2> HIDE DEF c
  <2>4. \A i \in 1..(hi - lo) : c[i] = b[lo + i]
    BY <2>1, <2>2, <2>3 DEF c
  <2> QED
    BY <2>1, <2>2, <2>4 DEF c
<1>8. DOMAIN ChunkRows(k) = 1..(hi - lo)
  BY <1>4, <1>7, LenProperties
<1> QED
  BY <1>2, <1>3, <1>4, <1>5, <1>7, <1>8 DEF lo, hi

LEMMA BodyIs ==
    ASSUME TypeOK, NEW k \in Nat \ {0}, ChunkRows(k) # <<>>
    PROVE  /\ Body(k) \in Bodies
           /\ DOMAIN Body(k).stock = 1..(To(k) - From(k))
           /\ \A i \in 1..(To(k) - From(k)) :
                 /\ Body(k).stock[i].product = poller.batch[From(k) + i].product
                 /\ Body(k).stock[i].result = poller.batch[From(k) + i].result
<1> DEFINE n == To(k) - From(k)
           stock == [i \in DOMAIN ChunkRows(k) |->
                        [product |-> ChunkRows(k)[i].product, result |-> ChunkRows(k)[i].result]]
<1>1. /\ n \in Nat /\ ChunkRows(k) \in Seq(Rows) /\ DOMAIN ChunkRows(k) = 1..n
      /\ \A i \in 1..n : ChunkRows(k)[i] = poller.batch[From(k) + i]
  BY ChunkIs
<1>2. \A i \in 1..n : ChunkRows(k)[i] \in Rows
  BY <1>1, ElementOfSeq, LenProperties
<1>3. DOMAIN stock = 1..n /\ \A i \in 1..n : stock[i] \in Numbers
  BY <1>1, <1>2 DEF Rows, Numbers
<1>4. stock \in Seq(Numbers)
  <2>1. stock = [i \in 1..n |-> stock[i]]
    BY <1>1
  <2> HIDE DEF stock, n
  <2> QED
    BY <1>1, <1>3, <2>1, IsASeq
<1>5. Body(k) = [chunk |-> k, stock |-> stock]
  BY DEF Body
<1> HIDE DEF n
<1> QED
  BY <1>1, <1>3, <1>4, <1>5 DEF Bodies, n

LEMMA SetToType ==
    ASSUME NEW stock \in Seq(Numbers), NEW shown \in [Products -> Nat]
    PROVE  SetTo(shown, stock) \in [Products -> Nat]
<1>1. ASSUME NEW i \in DOMAIN stock PROVE stock[i].result \in Nat
  <2>1. stock[i] \in Numbers
    BY <1>1, ElementOfSeq, LenProperties
  <2> QED
    BY <2>1 DEF Numbers
<1>2. \A p \in Products : SetTo(shown, stock)[p] \in Nat
  <2> SUFFICES ASSUME NEW p \in Products PROVE SetTo(shown, stock)[p] \in Nat
    OBVIOUS
  <2>1. CASE LastOf(stock, p) = {}
    BY <2>1 DEF SetTo
  <2>2. CASE LastOf(stock, p) # {}
    <3>1. PICK i \in LastOf(stock, p) : i = CHOOSE k \in LastOf(stock, p) : TRUE
      BY <2>2
    <3>2. i \in DOMAIN stock
      BY <3>1 DEF LastOf
    <3> QED
      BY <1>1, <2>2, <3>1, <3>2 DEF SetTo
  <2> QED
    BY <2>1, <2>2
<1> QED
  BY <1>2 DEF SetTo

LEMMA WorkerIs ==
    ASSUME TypeOK, NEW w \in Workers, worker[w] # Idle
    PROVE  /\ worker[w].pc \in {"work", "done"} /\ worker[w].group \in Groups
           /\ worker[w].group = "stock" => worker[w].message \in Bodies
           /\ worker[w].group = "order" => worker[w].message \in Orders
BY DEF TypeOK, WorkerOK, MessageOK

\* What the workers' steps make of them.
LEMMA WorkerSteps ==
    ASSUME TypeOK, NEW w \in Workers
    PROVE  /\ worker[w] # Idle /\ Done(w) =>
                 /\ DOMAIN worker' = Workers
                 /\ \A v \in Workers \ {w} : worker'[v] = worker[v]
                 /\ worker'[w] = [worker[w] EXCEPT !.pc = "done"]
                 /\ worker'[w].pc = "done" /\ worker'[w] # Idle
                 /\ worker'[w].group = worker[w].group
                 /\ worker'[w].message = worker[w].message
                 /\ \A v \in Workers : WorkerOK(v)'
           /\ GivesUp(w) =>
                 /\ DOMAIN worker' = Workers
                 /\ \A v \in Workers \ {w} : worker'[v] = worker[v]
                 /\ worker'[w] = Idle
                 /\ \A v \in Workers : WorkerOK(v)'
<1>1. ASSUME worker[w] # Idle, Done(w)
      PROVE  /\ DOMAIN worker' = Workers
             /\ \A v \in Workers \ {w} : worker'[v] = worker[v]
             /\ worker'[w] = [worker[w] EXCEPT !.pc = "done"]
             /\ worker'[w].pc = "done" /\ worker'[w] # Idle
             /\ worker'[w].group = worker[w].group
             /\ worker'[w].message = worker[w].message
             /\ \A v \in Workers : WorkerOK(v)'
  <2>1. /\ DOMAIN worker' = Workers
        /\ \A v \in Workers \ {w} : worker'[v] = worker[v]
        /\ worker'[w] = [worker[w] EXCEPT !.pc = "done"]
    BY <1>1 DEF Done, TypeOK
  <2>2. /\ worker[w] \in [pc : {"work", "done"}, group : Groups, message : Bodies \cup Orders]
        /\ MessageOK(worker[w].group, worker[w].message)
    BY <1>1 DEF TypeOK, WorkerOK
  <2>3. /\ worker'[w] \in [pc : {"work", "done"}, group : Groups, message : Bodies \cup Orders]
        /\ worker'[w].pc = "done" /\ worker'[w].group = worker[w].group
        /\ worker'[w].message = worker[w].message
    BY <2>1, <2>2
  <2>4. worker'[w] # Idle
    BY <2>3 DEF Idle
  <2>5. WorkerOK(w)'
    BY <2>2, <2>3 DEF WorkerOK, MessageOK
  <2>6. \A v \in Workers \ {w} : WorkerOK(v)'
    BY <2>1 DEF WorkerOK, TypeOK
  <2> QED
    BY <2>1, <2>3, <2>4, <2>5, <2>6
<1>2. ASSUME GivesUp(w)
      PROVE  /\ DOMAIN worker' = Workers
             /\ \A v \in Workers \ {w} : worker'[v] = worker[v]
             /\ worker'[w] = Idle
             /\ \A v \in Workers : WorkerOK(v)'
  BY <1>2 DEF GivesUp, TypeOK, WorkerOK
<1> QED
  BY <1>1, <1>2

\* An order's row gets another status, another count or a mark.
LEMMA OrderIs ==
    ASSUME TypeOK, NEW o \in Orders, order[o].status # "none"
    PROVE  /\ order[o] \in [status : {"placed", "dropped", "reported"}, product : Products,
                            taken : Nat, refused : BOOLEAN]
           /\ order[o].taken \in Nat /\ order[o].refused \in BOOLEAN /\ order[o].product \in Products
BY DEF TypeOK, OrderOK

LEMMA InitTypes == Init => TypeOK
<1> SUFFICES ASSUME Init PROVE TypeOK
  OBVIOUS
<1>1. /\ listed \in [Products -> Nat] /\ told \in [Products -> Nat] /\ site \in [Products -> Nat]
      /\ changes \in Nat /\ late \in Nat /\ undeleted \in Nat /\ lost \in BOOLEAN
  BY ExternalEcAssumption DEF Init
<1>2. /\ rows \in Seq(Rows) /\ poller \in Pollers /\ poller.pc = "stopped"
      /\ DOMAIN queue = Groups /\ queue["stock"] = <<>> /\ queue["order"] = <<>>
      /\ queue["stock"] \in Seq(Bodies) /\ queue["order"] \in Seq(Orders)
      /\ holder \in [Groups -> Workers \cup {Nobody}]
  BY DEF Init, Groups, Stopped, Pollers
<1>3. DOMAIN worker = Workers /\ \A w \in Workers : worker[w] = Idle
  BY DEF Init
<1>4. DOMAIN order = Orders /\ \A o \in Orders : OrderOK(o)
  BY DEF Init, OrderOK
<1> QED
  BY <1>1, <1>2, <1>3, <1>4 DEF TypeOK, WorkerOK, WorksAt

\* The parts of the types that an action may change.
ProductTypes ==
    /\ listed \in [Products -> Nat] /\ changes \in Nat /\ rows \in Seq(Rows)
OutboxTypes ==
    /\ told \in [Products -> Nat]
    /\ poller \in Pollers /\ (poller.pc = "push" => poller.chunk # 0)
QueueTypes ==
    /\ DOMAIN queue = Groups /\ queue["stock"] \in Seq(Bodies) /\ queue["order"] \in Seq(Orders)
    /\ holder \in [Groups -> Workers \cup {Nobody}]
WorkerTypes == DOMAIN worker = Workers /\ \A w \in Workers : WorkerOK(w)
OrderTypes == DOMAIN order = Orders /\ \A o \in Orders : OrderOK(o)
Placed ==
    /\ \A i \in DOMAIN queue["order"] : order[queue["order"][i]].status # "none"
    /\ \A w \in Workers :
          WorksAt(w, "order") => order[worker[w].message].status # "none"
OtherTypes ==
    site \in [Products -> Nat] /\ late \in Nat /\ undeleted \in Nat /\ lost \in BOOLEAN

LEMMA TypeParts ==
    ASSUME ProductTypes', OutboxTypes', QueueTypes', WorkerTypes', OrderTypes', Placed', OtherTypes'
    PROVE  TypeOK'
BY DEF TypeOK, ProductTypes, OutboxTypes, QueueTypes, WorkerTypes, OrderTypes, Placed, OtherTypes

\* A part whose variables stay keeps its types.
LEMMA TypesStay ==
    ASSUME TypeOK
    PROVE  /\ UNCHANGED productVars => ProductTypes'
           /\ UNCHANGED outboxVars => OutboxTypes'
           /\ UNCHANGED queueVars => QueueTypes'
           /\ UNCHANGED worker => WorkerTypes'
           /\ UNCHANGED order => OrderTypes'
           /\ UNCHANGED <<queue, worker, order>> => Placed'
           /\ UNCHANGED <<site, late, undeleted, lost>> => OtherTypes'
BY DEF TypeOK, ProductTypes, OutboxTypes, QueueTypes, WorkerTypes, WorkerOK, OrderTypes, OrderOK,
       Placed, WorksAt, OtherTypes, productVars, outboxVars, queueVars

LEMMA RowTypes ==
    ASSUME TypeOK
    PROVE  /\ Len(rows) \in Nat /\ DOMAIN rows = 1..Len(rows)
           /\ \A i \in 1..Len(rows) : rows[i] \in Rows
           /\ poller.batch \in Seq(Rows)
           /\ Len(poller.batch) \in Nat /\ DOMAIN poller.batch = 1..Len(poller.batch)
           /\ \A i \in 1..Len(poller.batch) : poller.batch[i] \in Rows
BY ElementOfSeq, LenProperties DEF TypeOK, Pollers

LEMMA SetListedTypes ==
    ASSUME TypeOK, NEW p \in Products, NEW n \in Nat, SetListed(p, n)
    PROVE  /\ ProductTypes'
           /\ listed' = [listed EXCEPT ![p] = n] /\ changes' = changes + 1
           /\ Len(rows') = Len(rows) + 1 /\ DOMAIN rows' = 1..(Len(rows) + 1)
           /\ \A i \in 1..Len(rows) : rows'[i] = rows[i]
           /\ rows'[Len(rows) + 1].id = changes + 1
           /\ rows'[Len(rows) + 1].product = p
           /\ rows'[Len(rows) + 1].result = n
<1> DEFINE row == [id |-> changes + 1, product |-> p, result |-> n]
<1>1. rows \in Seq(Rows) /\ row \in Rows /\ rows' = Append(rows, row)
  BY DEF SetListed, TypeOK, Rows
<1>2. row.id = changes + 1 /\ row.product = p /\ row.result = n
  OBVIOUS
<1> HIDE DEF row
<1>3. /\ rows' \in Seq(Rows) /\ Len(rows') = Len(rows) + 1
      /\ \A i \in 1..Len(rows) : rows'[i] = rows[i]
      /\ rows'[Len(rows) + 1] = row
  BY <1>1, AppendProperties
<1>4. DOMAIN rows' = 1..(Len(rows) + 1)
  BY <1>3, LenProperties
<1> QED
  BY <1>2, <1>3, <1>4 DEF SetListed, TypeOK, ProductTypes

LEMMA PushIs ==
    ASSUME TypeOK, Push
    PROVE  LET k == poller.chunk IN
           /\ poller.pc = "push" /\ k \in Nat \ {0} /\ ChunkRows(k) # <<>>
           /\ Body(k) \in Bodies
           /\ poller' \in Pollers /\ poller'.pc = "push" /\ poller'.batch = poller.batch
           /\ poller'.chunk = k + 1 /\ poller'.discarded = poller.discarded
           /\ queue' = [queue EXCEPT !["stock"] = Append(@, Body(k))]
           /\ told' = SetTo(told, Body(k).stock) /\ told' \in [Products -> Nat]
           /\ UNCHANGED <<productVars, lost, holder, worker, site, order, late, undeleted>>
<1> DEFINE k == poller.chunk
<1>1. poller.pc = "push" /\ k \in Nat \ {0} /\ ChunkRows(k) # <<>> /\ poller \in Pollers
  BY DEF Push, Pushing, TypeOK, Pollers
<1>2. Body(k) \in Bodies
  BY <1>1, BodyIs
<1>3. poller' = [poller EXCEPT !.chunk = k + 1]
  BY DEF Push
<1>4. /\ poller' \in Pollers /\ poller'.pc = "push" /\ poller'.batch = poller.batch
      /\ poller'.chunk = k + 1 /\ poller'.discarded = poller.discarded
  BY <1>1, <1>3 DEF Pollers
<1>5. Body(k).stock \in Seq(Numbers)
  BY <1>2 DEF Bodies
<1>6. told' = SetTo(told, Body(k).stock) /\ told' \in [Products -> Nat]
  BY <1>5, SetToType DEF Push, TypeOK
<1> QED
  BY <1>1, <1>2, <1>4, <1>6 DEF Push

LEMMA DiscardIs ==
    ASSUME TypeOK, Discard
    PROVE  /\ poller.pc = "push" /\ poller' \in Pollers /\ poller'.pc = "push"
           /\ poller'.batch = poller.batch
           /\ poller'.chunk = poller.chunk + 1 /\ poller'.discarded = TRUE
<1> DEFINE d == [poller EXCEPT !.chunk = @ + 1]
<1>1. poller \in Pollers /\ poller.pc = "push" /\ poller.chunk \in Nat
  BY DEF Discard, Pushing, TypeOK, Pollers
<1>2. d \in Pollers /\ d.pc = "push" /\ d.batch = poller.batch /\ d.chunk = poller.chunk + 1
  BY <1>1 DEF Pollers
<1>3. poller' = [d EXCEPT !.discarded = TRUE]
  BY DEF Discard
<1> HIDE DEF d
<1> QED
  BY <1>1, <1>2, <1>3 DEF Pollers

\* The rows that were written since the read.
LEMMA RemainingIs ==
    ASSUME TypeOK, Len(poller.batch) <= Len(rows)
    PROVE  LET n == Len(rows) - Len(poller.batch) IN
           /\ Remaining \in Seq(Rows) /\ Len(Remaining) = n /\ DOMAIN Remaining = 1..n
           /\ \A i \in 1..n : Remaining[i] = rows[Len(poller.batch) + i]
<1> DEFINE m == Len(poller.batch)
           n == Len(rows)
<1>1. m \in Nat /\ n \in Nat /\ m <= n /\ \A i \in 1..n : rows[i] \in Rows
  BY RowTypes
<1>2. Remaining = SubSeq(rows, m + 1, n)
  BY DEF Remaining
<1> HIDE DEF m, n
<1> DEFINE c == SubSeq(rows, m + 1, n)
<1>3. \A i \in (m + 1)..n : rows[i] \in Rows
  BY <1>1
<1>4. /\ c \in Seq(Rows)
      /\ Len(c) = IF m + 1 <= n THEN n - (m + 1) + 1 ELSE 0
      /\ \A i \in 1..(n - (m + 1) + 1) : c[i] = rows[(m + 1) + i - 1]
  BY <1>1, <1>3, SubSeqProperties
<1> HIDE DEF c
<1>5. Len(c) = n - m /\ n - (m + 1) + 1 = n - m
  BY <1>1, <1>4
<1>6. \A i \in 1..(n - m) : (m + 1) + i - 1 = m + i
  BY <1>1
<1>7. \A i \in 1..(n - m) : c[i] = rows[m + i]
  BY <1>4, <1>5, <1>6
<1>8. DOMAIN c = 1..(n - m)
  BY <1>4, <1>5, LenProperties
<1> QED
  BY <1>2, <1>4, <1>5, <1>7, <1>8 DEF c, m, n

\* The rows that the service has read are the first of the table.
BatchOK ==
    poller.pc = "push" =>
        /\ Len(poller.batch) <= Len(rows)
        /\ \A i \in 1..Len(poller.batch) : poller.batch[i] = rows[i]

LEMMA OutboxTypesStep ==
    ASSUME TypeOK, BatchOK, OutboxNext \/ PollerStops
    PROVE  TypeOK'
<1>1. CASE Poll
  <2>1. poller' \in Pollers /\ poller'.pc = "push" /\ poller'.chunk = 1
    BY <1>1 DEF Poll, TypeOK, Pollers
  <2>2. OutboxTypes'
    BY <1>1, <2>1 DEF Poll, TypeOK, OutboxTypes
  <2>3. UNCHANGED <<productVars, queueVars, worker, order, site, late, undeleted, lost>>
    BY <1>1 DEF Poll
  <2> QED
    BY <2>2, <2>3, TypeParts, TypesStay DEF queueVars
<1>2. CASE Push
  <2> DEFINE b == Body(poller.chunk)
  <2>1. OutboxTypes'
    BY <1>2, PushIs DEF OutboxTypes
  <2>2. /\ queue' = [queue EXCEPT !["stock"] = Append(@, b)] /\ b \in Bodies
        /\ UNCHANGED <<productVars, lost, holder, worker, site, order, late, undeleted>>
    BY <1>2, PushIs
  <2> HIDE DEF b
  <2>3. Append(queue["stock"], b) \in Seq(Bodies)
    BY <2>2, AppendProperties DEF TypeOK
  <2>4. /\ DOMAIN queue' = Groups /\ queue'["stock"] = Append(queue["stock"], b)
        /\ queue'["order"] = queue["order"]
    BY <2>2 DEF TypeOK, Groups
  <2>5. QueueTypes'
    BY <2>2, <2>3, <2>4 DEF QueueTypes, TypeOK
  <2>6. Placed'
    BY <2>2, <2>4 DEF Placed, TypeOK, WorksAt
  <2> QED
    BY <2>1, <2>2, <2>5, <2>6, TypeParts, TypesStay
<1>3. CASE Discard
  <2>1. OutboxTypes'
    BY <1>3, DiscardIs DEF OutboxTypes, Discard, TypeOK, Pollers
  <2>2. UNCHANGED <<productVars, queueVars, worker, order, site, late, undeleted, lost>>
    BY <1>3 DEF Discard
  <2> QED
    BY <2>1, <2>2, TypeParts, TypesStay DEF queueVars
<1>4. CASE DeleteRows
  <2>1. OutboxTypes'
    BY <1>4 DEF DeleteRows, OutboxTypes, TypeOK, Stopped, Pollers
  <2>2. rows' = Remaining /\ Remaining \in Seq(Rows)
    BY <1>4, RemainingIs DEF DeleteRows, BatchOK
  <2>3. ProductTypes'
    BY <1>4, <2>2 DEF DeleteRows, ProductTypes, TypeOK
  <2>4. /\ UNCHANGED <<queueVars, worker, order, site, late, undeleted>>
        /\ lost' \in BOOLEAN
    BY <1>4 DEF DeleteRows, TypeOK
  <2>5. OtherTypes'
    BY <2>4 DEF OtherTypes, TypeOK
  <2> QED
    BY <2>1, <2>3, <2>4, <2>5, TypeParts, TypesStay DEF queueVars
<1>5. CASE PollerStops
  <2>1. OutboxTypes'
    BY <1>5 DEF PollerStops, OutboxTypes, TypeOK, Stopped, Pollers
  <2>2. UNCHANGED <<productVars, queueVars, worker, order, site, late, undeleted, lost>>
    BY <1>5 DEF PollerStops
  <2> QED
    BY <2>1, <2>2, TypeParts, TypesStay DEF queueVars
<1> QED
  BY <1>1, <1>2, <1>3, <1>4, <1>5 DEF OutboxNext

\* A group's first message is taken off its queue.
LEMMA TailTypes ==
    ASSUME TypeOK, NEW g \in Groups, queue[g] # <<>>, queue' = [queue EXCEPT ![g] = Tail(@)]
    PROVE  /\ DOMAIN queue' = Groups
           /\ queue'["stock"] \in Seq(Bodies) /\ queue'["order"] \in Seq(Orders)
           /\ queue'[g] = Tail(queue[g])
           /\ \A h \in Groups \ {g} : queue'[h] = queue[h]
           /\ \A i \in DOMAIN queue'[g] : i + 1 \in DOMAIN queue[g] /\ queue'[g][i] = queue[g][i + 1]
           /\ \A i \in DOMAIN queue[g] : i = 1 \/ (i - 1) \in DOMAIN queue'[g]
<1>1. /\ DOMAIN queue' = Groups /\ queue'[g] = Tail(queue[g])
      /\ \A h \in Groups \ {g} : queue'[h] = queue[h]
  BY DEF TypeOK
<1>2. queue[g] \in Seq(Bodies \cup Orders) /\ g \in {"stock", "order"}
  BY DEF TypeOK, Groups
<1>3. /\ Len(Tail(queue[g])) = Len(queue[g]) - 1 /\ Len(queue[g]) \in Nat
      /\ Tail(queue[g]) \in Seq(Bodies \cup Orders)
      /\ \A i \in 1..Len(Tail(queue[g])) : Tail(queue[g])[i] = queue[g][i + 1]
  BY <1>2, HeadTailProperties, LenProperties
<1>4. DOMAIN queue[g] = 1..Len(queue[g]) /\ DOMAIN queue'[g] = 1..(Len(queue[g]) - 1)
  BY <1>1, <1>2, <1>3, LenProperties
<1>5. g = "stock" => Tail(queue[g]) \in Seq(Bodies)
  BY HeadTailProperties DEF TypeOK
<1>6. g = "order" => Tail(queue[g]) \in Seq(Orders)
  BY HeadTailProperties DEF TypeOK
<1>7. queue'["stock"] \in Seq(Bodies) /\ queue'["order"] \in Seq(Orders)
  BY <1>1, <1>2, <1>5, <1>6 DEF TypeOK, Groups
<1>8. \A i \in DOMAIN queue'[g] : i + 1 \in DOMAIN queue[g] /\ queue'[g][i] = queue[g][i + 1]
  BY <1>1, <1>3, <1>4
<1>9. \A i \in DOMAIN queue[g] : i = 1 \/ (i - 1) \in DOMAIN queue'[g]
  BY <1>3, <1>4
<1> QED
  BY <1>1, <1>7, <1>8, <1>9

LEMMA HeadIs ==
    ASSUME TypeOK, NEW g \in Groups, queue[g] # <<>>
    PROVE  /\ 1 \in DOMAIN queue[g] /\ Head(queue[g]) = queue[g][1]
           /\ MessageOK(g, Head(queue[g]))
<1>1. CASE g = "stock"
  <2>1. queue[g] \in Seq(Bodies)
    BY <1>1 DEF TypeOK
  <2> QED
    BY <1>1, <2>1, HeadTailProperties, LenProperties, EmptySeq DEF MessageOK
<1>2. CASE g = "order"
  <2>1. queue[g] \in Seq(Orders)
    BY <1>2 DEF TypeOK
  <2> QED
    BY <1>2, <2>1, HeadTailProperties, LenProperties, EmptySeq DEF MessageOK
<1> QED
  BY <1>1, <1>2 DEF Groups

LEMMA DropIs ==
    ASSUME TypeOK, NEW g \in Groups, Drop(g)
    PROVE  /\ queue[g] # <<>> /\ queue' = [queue EXCEPT ![g] = Tail(@)] /\ holder[g] = Nobody
           /\ DOMAIN order' = Orders
           /\ g = "stock" => order' = order /\ lost' = TRUE
           /\ g = "order" =>
                 \E o \in Orders :
                 /\ o = Head(queue[g]) /\ \A u \in Orders \ {o} : order'[u] = order[u]
                 /\ order[o].status # "none"
                 /\ order'[o].status = "dropped" /\ order'[o].product = order[o].product
                 /\ order'[o].taken = order[o].taken /\ order'[o].refused = order[o].refused
                 /\ OrderOK(o)'
                 /\ lost' = (lost \/ (order[o].taken = 0 /\ ~order[o].refused))
           /\ UNCHANGED <<productVars, outboxVars, holder, worker, site, late, undeleted>>
<1>1. /\ queue[g] # <<>> /\ queue' = [queue EXCEPT ![g] = Tail(@)] /\ holder[g] = Nobody
      /\ UNCHANGED <<productVars, outboxVars, holder, worker, site, late, undeleted>>
  BY DEF Drop
<1>2. CASE g = "stock"
  BY <1>1, <1>2 DEF Drop, TypeOK
<1>3. CASE g = "order"
  <2>0. PICK o \in Orders : o = Head(queue[g])
    BY <1>1, <1>3, HeadIs DEF MessageOK
  <2>1. 1 \in DOMAIN queue["order"] /\ o = queue["order"][1]
    BY <1>1, <1>3, <2>0, HeadIs
  <2>2. order[o].status # "none"
    BY <2>1 DEF TypeOK
  <2>3. /\ order' = [order EXCEPT ![o].status = "dropped"]
        /\ lost' = (lost \/ (order[o].taken = 0 /\ ~order[o].refused))
    BY <1>3, <2>0 DEF Drop
  <2>4. order[o] \in [status : {"placed", "dropped", "reported"}, product : Products,
                      taken : Nat, refused : BOOLEAN]
    BY <2>1, <2>2, OrderIs
  <2>5. /\ DOMAIN order' = Orders /\ \A u \in Orders \ {o} : order'[u] = order[u]
        /\ order'[o] = [order[o] EXCEPT !.status = "dropped"]
    BY <2>1, <2>3 DEF TypeOK
  <2>6. /\ order'[o].status = "dropped" /\ order'[o].product = order[o].product
        /\ order'[o].taken = order[o].taken /\ order'[o].refused = order[o].refused
        /\ order'[o] \in [status : {"placed", "dropped", "reported"}, product : Products,
                          taken : Nat, refused : BOOLEAN]
    BY <2>4, <2>5
  <2>7. OrderOK(o)'
    BY <2>6 DEF OrderOK
  <2> QED
    BY <1>1, <1>3, <2>0, <2>2, <2>3, <2>5, <2>6, <2>7
<1> QED
  BY <1>2, <1>3 DEF Groups

LEMMA QueueTypesStep ==
    ASSUME TypeOK, NEW g \in Groups, Expire(g) \/ Drop(g)
    PROVE  TypeOK'
<1>1. CASE Expire(g)
  <2>1. UNCHANGED <<productVars, outboxVars, queue, worker, order, site, undeleted, lost>>
    BY <1>1 DEF Expire
  <2>2. QueueTypes'
    BY <1>1 DEF Expire, QueueTypes, TypeOK
  <2>3. late' \in Nat
    BY <1>1 DEF Expire, TypeOK
  <2>4. OtherTypes'
    BY <2>1, <2>3 DEF OtherTypes, TypeOK
  <2> QED
    BY <2>1, <2>2, <2>4, TypeParts, TypesStay
<1>2. CASE Drop(g)
  <2>1. /\ queue[g] # <<>> /\ queue' = [queue EXCEPT ![g] = Tail(@)]
        /\ UNCHANGED <<productVars, outboxVars, holder, worker, site, late, undeleted>>
    BY <1>2, DropIs
  <2>2. QueueTypes'
    BY <2>1, TailTypes DEF QueueTypes, TypeOK
  <2>3. lost' \in BOOLEAN
    BY <1>2 DEF Drop, TypeOK
  <2>4. OtherTypes'
    BY <2>1, <2>3 DEF OtherTypes, TypeOK
  <2>5. OrderTypes' /\ \A o \in Orders : order[o].status # "none" => order'[o].status # "none"
    <3>1. CASE g = "stock"
      BY <1>2, <3>1, DropIs, TypesStay
    <3>2. CASE g = "order"
      <4>1. PICK o \in Orders : /\ \A u \in Orders \ {o} : order'[u] = order[u]
                                /\ order'[o].status = "dropped" /\ OrderOK(o)'
                                /\ DOMAIN order' = Orders
        BY <1>2, <3>2, DropIs
      <4>2. \A u \in Orders \ {o} : OrderOK(u)'
        BY <4>1 DEF TypeOK, OrderOK
      <4> QED
        BY <4>1, <4>2 DEF OrderTypes
    <3> QED
      BY <3>1, <3>2 DEF Groups
  <2>6. Placed'
    <3>1. ASSUME NEW i \in DOMAIN queue'["order"]
          PROVE  \E k \in DOMAIN queue["order"] : queue'["order"][i] = queue["order"][k]
      <4>1. CASE g = "order"
        BY <2>1, <3>1, <4>1, TailTypes
      <4>2. CASE g # "order"
        BY <2>1, <3>1, <4>2, TailTypes DEF Groups
      <4> QED
        BY <4>1, <4>2
    <3>2. \A i \in DOMAIN queue["order"] : queue["order"][i] \in Orders
      BY ElementOfSeq, LenProperties DEF TypeOK
    <3>3. \A i \in DOMAIN queue'["order"] : order'[queue'["order"][i]].status # "none"
      BY <2>5, <3>1, <3>2 DEF TypeOK
    <3>4. \A w \in Workers : WorksAt(w, "order")' => order'[worker'[w].message].status # "none"
      BY <2>1, <2>5, WorkerIs DEF TypeOK, WorksAt
    <3> QED
      BY <3>3, <3>4 DEF Placed
  <2> QED
    BY <2>1, <2>2, <2>4, <2>5, <2>6, TypeParts, TypesStay
<1> QED
  BY <1>1, <1>2

LEMMA ReceiveIs ==
    ASSUME TypeOK, NEW w \in Workers, NEW g \in Groups, Receive(w, g)
    PROVE  /\ worker[w] = Idle /\ queue[g] # <<>> /\ holder[g] = Nobody
           /\ holder' = [holder EXCEPT ![g] = w] /\ holder' \in [Groups -> Workers \cup {Nobody}]
           /\ DOMAIN worker' = Workers /\ \A v \in Workers \ {w} : worker'[v] = worker[v]
           /\ worker'[w] = [pc |-> "work", group |-> g, message |-> Head(queue[g])]
           /\ worker'[w] # Idle
           /\ WorkerTypes'
           /\ UNCHANGED <<productVars, outboxVars, lost, queue, site, order, late, undeleted>>
<1> DEFINE new == [pc |-> "work", group |-> g, message |-> Head(queue[g])]
<1>1. /\ worker[w] = Idle /\ queue[g] # <<>> /\ holder[g] = Nobody
      /\ holder' = [holder EXCEPT ![g] = w] /\ worker' = [worker EXCEPT ![w] = new]
      /\ UNCHANGED <<productVars, outboxVars, lost, queue, site, order, late, undeleted>>
  BY DEF Receive
<1>2. holder' \in [Groups -> Workers \cup {Nobody}]
  BY <1>1 DEF TypeOK
<1>3. /\ DOMAIN worker' = Workers /\ \A v \in Workers \ {w} : worker'[v] = worker[v]
      /\ worker'[w] = new
  BY <1>1 DEF TypeOK
<1>4. MessageOK(g, Head(queue[g])) /\ new # Idle
  BY <1>1, HeadIs DEF Idle
<1>5. WorkerOK(w)'
  <2>1. Head(queue[g]) \in Bodies \cup Orders
    BY <1>4 DEF MessageOK, Groups
  <2> QED
    BY <1>3, <1>4, <2>1 DEF WorkerOK, MessageOK
<1>6. \A v \in Workers \ {w} : WorkerOK(v)'
  BY <1>3 DEF TypeOK, WorkerOK
<1> QED
  BY <1>1, <1>2, <1>3, <1>4, <1>5, <1>6 DEF WorkerTypes

LEMMA TakeIs ==
    ASSUME TypeOK, NEW w \in Workers, NEW p \in Products, TakeOrder(w, p)
    PROVE  /\ At(w, "work", "order") /\ worker[w] # Idle /\ Done(w) /\ WorkerTypes'
           /\ listed[p] \in Nat \ {0} /\ SetListed(p, listed[p] - 1)
           /\ \E o \in Orders :
                 /\ o = worker[w].message /\ DOMAIN order' = Orders
                 /\ \A u \in Orders \ {o} : order'[u] = order[u]
                 /\ order[o].status # "none" /\ order[o].product = p
                 /\ order'[o].status = order[o].status /\ order'[o].product = p
                 /\ order[o].taken \in Nat /\ order'[o].taken = order[o].taken + 1
                 /\ order'[o].refused = order[o].refused
                 /\ OrderOK(o)'
           /\ UNCHANGED <<outboxVars, lost, queueVars, site, late, undeleted>>
<1>1. /\ At(w, "work", "order") /\ listed[p] > 0 /\ SetListed(p, listed[p] - 1) /\ Done(w)
      /\ p = order[worker[w].message].product
      /\ order' = [order EXCEPT ![worker[w].message].taken = @ + 1]
      /\ UNCHANGED <<outboxVars, lost, queueVars, site, late, undeleted>>
  BY DEF TakeOrder
<1>2. worker[w] # Idle /\ worker[w].group = "order"
  BY <1>1 DEF At, WorksAt
<1>3. PICK o \in Orders : o = worker[w].message
  BY <1>2, WorkerIs
<1>4. order[o].status # "none"
  BY <1>1, <1>3 DEF TypeOK, At
<1>5. order[o] \in [status : {"placed", "dropped", "reported"}, product : Products,
                    taken : Nat, refused : BOOLEAN]
  BY <1>4, OrderIs
<1>6. /\ DOMAIN order' = Orders /\ \A u \in Orders \ {o} : order'[u] = order[u]
      /\ order'[o] = [order[o] EXCEPT !.taken = @ + 1]
  BY <1>1, <1>3 DEF TypeOK
<1>7. /\ order'[o].status = order[o].status /\ order'[o].product = order[o].product
      /\ order[o].taken \in Nat /\ order'[o].taken = order[o].taken + 1
      /\ order'[o].refused = order[o].refused
      /\ order'[o] \in [status : {"placed", "dropped", "reported"}, product : Products,
                        taken : Nat, refused : BOOLEAN]
  BY <1>5, <1>6
<1>8. OrderOK(o)'
  BY <1>7 DEF OrderOK
<1>9. listed[p] \in Nat \ {0}
  BY <1>1 DEF TypeOK
<1>10. WorkerTypes'
  BY <1>1, <1>2, WorkerSteps DEF WorkerTypes
<1> QED
  BY <1>1, <1>2, <1>3, <1>4, <1>6, <1>7, <1>8, <1>9, <1>10

LEMMA RefuseIs ==
    ASSUME TypeOK, NEW w \in Workers, NEW p \in Products, RefuseOrder(w, p)
    PROVE  /\ At(w, "work", "order") /\ worker[w] # Idle /\ GivesUp(w) /\ WorkerTypes'
           /\ listed[p] = 0
           /\ \E o \in Orders :
                 /\ o = worker[w].message /\ DOMAIN order' = Orders
                 /\ \A u \in Orders \ {o} : order'[u] = order[u]
                 /\ order[o].status # "none" /\ order[o].product = p
                 /\ order'[o].status = order[o].status /\ order'[o].product = p
                 /\ order'[o].taken = order[o].taken /\ order'[o].refused
                 /\ OrderOK(o)'
           /\ UNCHANGED <<productVars, outboxVars, lost, queueVars, site, late, undeleted>>
<1>1. /\ At(w, "work", "order") /\ listed[p] = 0 /\ GivesUp(w)
      /\ p = order[worker[w].message].product
      /\ order' = [order EXCEPT ![worker[w].message].refused = TRUE]
      /\ UNCHANGED <<productVars, outboxVars, lost, queueVars, site, late, undeleted>>
  BY DEF RefuseOrder, RefusalCode, IsMailed
<1>2. worker[w] # Idle /\ worker[w].group = "order"
  BY <1>1 DEF At, WorksAt
<1>3. PICK o \in Orders : o = worker[w].message
  BY <1>2, WorkerIs
<1>4. order[o].status # "none"
  BY <1>1, <1>3 DEF TypeOK, At
<1>5. order[o] \in [status : {"placed", "dropped", "reported"}, product : Products,
                    taken : Nat, refused : BOOLEAN]
  BY <1>4, OrderIs
<1>6. /\ DOMAIN order' = Orders /\ \A u \in Orders \ {o} : order'[u] = order[u]
      /\ order'[o] = [order[o] EXCEPT !.refused = TRUE]
  BY <1>1, <1>3 DEF TypeOK
<1>7. /\ order'[o].status = order[o].status /\ order'[o].product = order[o].product
      /\ order'[o].taken = order[o].taken /\ order'[o].refused = TRUE
      /\ order'[o] \in [status : {"placed", "dropped", "reported"}, product : Products,
                        taken : Nat, refused : BOOLEAN]
  BY <1>5, <1>6
<1>8. OrderOK(o)'
  BY <1>7 DEF OrderOK
<1>9. WorkerTypes'
  BY <1>1, WorkerSteps DEF WorkerTypes
<1> QED
  BY <1>1, <1>2, <1>3, <1>4, <1>6, <1>7, <1>8, <1>9

LEMMA BuyIs ==
    ASSUME TypeOK, NEW o \in Orders, NEW p \in Products, Buy(o, p)
    PROVE  /\ order[o].status = "none" /\ site[p] \in Nat \ {0}
           /\ site' = [site EXCEPT ![p] = @ - 1] /\ site' \in [Products -> Nat]
           /\ OrderTypes' /\ \A u \in Orders \ {o} : order'[u] = order[u]
           /\ order'[o] = [status |-> "placed", product |-> p, taken |-> 0, refused |-> FALSE]
           /\ DOMAIN queue' = Groups /\ queue'["stock"] = queue["stock"]
           /\ queue'["order"] = Append(queue["order"], o)
           /\ Append(queue["order"], o) \in Seq(Orders)
           /\ UNCHANGED <<productVars, outboxVars, lost, received, holder, worker, late, undeleted>>
<1>1. /\ order[o].status = "none" /\ site[p] > 0
      /\ site' = [site EXCEPT ![p] = @ - 1]
      /\ order' = [order EXCEPT ![o] =
              [status |-> "placed", product |-> p, taken |-> 0, refused |-> FALSE]]
      /\ queue' = [queue EXCEPT !["order"] = Append(@, o)]
      /\ UNCHANGED <<productVars, outboxVars, lost, received, holder, worker, late, undeleted>>
  BY DEF Buy
<1>2. site[p] \in Nat \ {0} /\ site' \in [Products -> Nat]
  BY <1>1 DEF TypeOK
<1>3. /\ DOMAIN queue' = Groups /\ queue'["stock"] = queue["stock"]
      /\ queue'["order"] = Append(queue["order"], o)
  BY <1>1 DEF TypeOK, Groups
<1>4. Append(queue["order"], o) \in Seq(Orders)
  BY AppendProperties DEF TypeOK
<1>5. /\ DOMAIN order' = Orders /\ \A u \in Orders \ {o} : order'[u] = order[u]
      /\ order'[o] = [status |-> "placed", product |-> p, taken |-> 0, refused |-> FALSE]
  BY <1>1 DEF TypeOK
<1>6. OrderOK(o)'
  BY <1>5 DEF OrderOK
<1>7. \A u \in Orders \ {o} : OrderOK(u)'
  BY <1>5 DEF OrderOK, TypeOK
<1> QED
  BY <1>1, <1>2, <1>3, <1>4, <1>5, <1>6, <1>7 DEF OrderTypes

\* The message is taken off the queue if it is still the worker's.
LEMMA DeleteIs ==
    ASSUME TypeOK, NEW w \in Workers, Delete(w)
    PROVE  /\ worker[w] # Idle /\ worker[w].pc = "done" /\ GivesUp(w) /\ WorkerTypes'
           /\ IF holder[worker[w].group] = w
              THEN /\ queue' = [queue EXCEPT ![worker[w].group] = Tail(@)]
                   /\ holder' = [holder EXCEPT ![worker[w].group] = Nobody]
              ELSE UNCHANGED queueVars
           /\ UNCHANGED <<productVars, outboxVars, lost, site, order, late, undeleted>>
<1>1. worker[w].pc = "done" /\ GivesUp(w)
  BY DEF Delete
<1>2. worker[w] # Idle
  BY <1>1 DEF Idle
<1> QED
  BY <1>1, <1>2, WorkerSteps DEF Delete, WorkerTypes

\* A message that somebody holds is there.
HolderOK == \A g \in Groups : holder[g] # Nobody => queue[g] # <<>>

LEMMA ProductTypesStep ==
    ASSUME TypeOK, NEW p \in Products, NEW n \in 0..MaxListed, Change(p, n)
    PROVE  TypeOK'
<1>1. /\ SetListed(p, n)
      /\ UNCHANGED <<outboxVars, lost, queueVars, worker, site, order, late, undeleted>>
  BY DEF Change
<1>2. n \in Nat
  BY ExternalEcAssumption
<1>3. ProductTypes'
  BY <1>1, <1>2, SetListedTypes
<1> QED
  BY <1>1, <1>3, TypeParts, TypesStay DEF queueVars

LEMMA BuyTypesStep ==
    ASSUME TypeOK, NEW o \in Orders, NEW p \in Products, Buy(o, p)
    PROVE  TypeOK'
<1>1. /\ site' \in [Products -> Nat] /\ OrderTypes' /\ \A u \in Orders \ {o} : order'[u] = order[u]
      /\ order'[o] = [status |-> "placed", product |-> p, taken |-> 0, refused |-> FALSE]
      /\ DOMAIN queue' = Groups /\ queue'["stock"] = queue["stock"]
      /\ queue'["order"] = Append(queue["order"], o)
      /\ Append(queue["order"], o) \in Seq(Orders)
      /\ UNCHANGED <<productVars, outboxVars, lost, received, holder, worker, late, undeleted>>
  BY BuyIs
<1>2. QueueTypes'
  BY <1>1 DEF QueueTypes, TypeOK
<1>3. OtherTypes'
  BY <1>1 DEF OtherTypes, TypeOK
<1>4. \A u \in Orders : order[u].status # "none" => order'[u].status # "none"
  BY <1>1
<1>5. \A i \in DOMAIN queue'["order"] : order'[queue'["order"][i]].status # "none"
  <2>1. queue["order"] \in Seq(Orders)
    BY DEF TypeOK
  <2>2. \A i \in DOMAIN Append(queue["order"], o) :
           \/ Append(queue["order"], o)[i] = o
           \/ /\ i \in DOMAIN queue["order"] /\ queue["order"][i] \in Orders
              /\ Append(queue["order"], o)[i] = queue["order"][i]
    BY <2>1, AppendProperties, LenProperties, ElementOfSeq
  <2>3. order'[o].status # "none"
    BY <1>1
  <2>4. \A i \in DOMAIN queue["order"] : order[queue["order"][i]].status # "none"
    BY DEF TypeOK
  <2>5. \A i \in DOMAIN queue'["order"] :
           \/ queue'["order"][i] = o
           \/ i \in DOMAIN queue["order"] /\ queue["order"][i] \in Orders
              /\ queue'["order"][i] = queue["order"][i]
    BY <1>1, <2>2
  <2> QED
    BY <1>4, <2>3, <2>4, <2>5
<1>6. \A w \in Workers : WorksAt(w, "order")' => order'[worker'[w].message].status # "none"
  BY <1>1, <1>4, WorkerIs DEF TypeOK, WorksAt
<1>7. Placed'
  BY <1>5, <1>6 DEF Placed
<1> QED
  BY <1>1, <1>2, <1>3, <1>7, TypeParts, TypesStay

LEMMA WorkerTypesStep ==
    ASSUME TypeOK, HolderOK, NEW w \in Workers, Handles(w) \/ WorkFails(w) \/ NotDeleted(w)
    PROVE  TypeOK'
<1>1. ASSUME NEW g \in Groups, Receive(w, g) PROVE TypeOK'
  <2>1. /\ worker[w] = Idle /\ queue[g] # <<>> /\ holder' \in [Groups -> Workers \cup {Nobody}]
        /\ \A v \in Workers \ {w} : worker'[v] = worker[v]
        /\ worker'[w] = [pc |-> "work", group |-> g, message |-> Head(queue[g])]
        /\ WorkerTypes'
        /\ UNCHANGED <<productVars, outboxVars, lost, queue, site, order, late, undeleted>>
    BY <1>1, ReceiveIs
  <2>2. QueueTypes'
    BY <2>1 DEF QueueTypes, TypeOK
  <2>3. g = "order" => order[Head(queue[g])].status # "none"
    BY <2>1, HeadIs DEF TypeOK
  <2>4. \A v \in Workers : WorksAt(v, "order")' => order'[worker'[v].message].status # "none"
    <3>1. WorksAt(w, "order")' => order'[worker'[w].message].status # "none"
      BY <2>1, <2>3 DEF WorksAt
    <3>2. \A v \in Workers \ {w} :
              WorksAt(v, "order")' => order'[worker'[v].message].status # "none"
      BY <2>1 DEF WorksAt, TypeOK
    <3> QED
      BY <3>1, <3>2
  <2>5. Placed'
    BY <2>1, <2>4 DEF Placed, TypeOK
  <2> QED
    BY <2>1, <2>2, <2>5, TypeParts, TypesStay
<1>2. CASE UpdateSite(w)
  <2>1. /\ worker[w] # Idle /\ worker[w].group = "stock" /\ Done(w)
        /\ site' = SetTo(site, worker[w].message.stock)
        /\ UNCHANGED <<productVars, outboxVars, lost, queueVars, order, late, undeleted>>
    BY <1>2 DEF UpdateSite, At, WorksAt
  <2>2. worker[w].message.stock \in Seq(Numbers)
    BY <2>1, WorkerIs DEF Bodies
  <2>3. OtherTypes'
    BY <2>1, <2>2, SetToType DEF OtherTypes, TypeOK
  <2>4. /\ WorkerTypes' /\ worker'[w].group = "stock"
        /\ \A v \in Workers \ {w} : worker'[v] = worker[v]
    BY <2>1, WorkerSteps DEF WorkerTypes
  <2>5. \A v \in Workers : WorksAt(v, "order")' =>
            WorksAt(v, "order") /\ worker'[v].message = worker[v].message
    <3>1. ~WorksAt(w, "order")'
      BY <2>4 DEF WorksAt
    <3>2. \A v \in Workers \ {w} : WorksAt(v, "order")' =>
              WorksAt(v, "order") /\ worker'[v].message = worker[v].message
      BY <2>4 DEF WorksAt, Idle
    <3> QED
      BY <3>1, <3>2
  <2>6. queue' = queue /\ order' = order
    BY <2>1 DEF queueVars
  <2>7. \A v \in Workers : WorksAt(v, "order")' => order'[worker'[v].message].status # "none"
    BY <2>5, <2>6 DEF TypeOK
  <2>8. Placed'
    BY <2>6, <2>7 DEF Placed, TypeOK
  <2> QED
    BY <2>1, <2>3, <2>4, <2>8, TypeParts, TypesStay
<1>3. ASSUME NEW p \in Products, TakeOrder(w, p) PROVE TypeOK'
  <2>1. /\ worker[w] # Idle /\ Done(w) /\ WorkerTypes'
        /\ listed[p] \in Nat \ {0} /\ SetListed(p, listed[p] - 1)
        /\ UNCHANGED <<outboxVars, lost, queueVars, site, late, undeleted>>
    BY <1>3, TakeIs
  <2>2. PICK o \in Orders :
            /\ DOMAIN order' = Orders /\ \A u \in Orders \ {o} : order'[u] = order[u]
            /\ order[o].status # "none" /\ order'[o].status = order[o].status /\ OrderOK(o)'
    BY <1>3, TakeIs
  <2>3. ProductTypes'
    BY <2>1, SetListedTypes
  <2>4. OrderTypes'
    BY <2>2 DEF OrderTypes, TypeOK, OrderOK
  <2>5. \A u \in Orders : order[u].status # "none" => order'[u].status # "none"
    BY <2>2
  <2>6. \A v \in Workers : (WorksAt(v, "order"))' =>
            WorksAt(v, "order") /\ worker'[v].message = worker[v].message
    BY <2>1, WorkerSteps DEF WorksAt
  <2>7. Placed'
    <3>1. \A i \in DOMAIN queue["order"] : queue["order"][i] \in Orders
      BY ElementOfSeq, LenProperties DEF TypeOK
    <3>2. \A v \in Workers : WorksAt(v, "order")' => order'[worker'[v].message].status # "none"
      BY <2>5, <2>6, WorkerIs DEF TypeOK, WorksAt
    <3> QED
      BY <2>1, <2>5, <3>1, <3>2 DEF Placed, TypeOK, queueVars
  <2> QED
    BY <2>1, <2>3, <2>4, <2>7, TypeParts, TypesStay
<1>4. ASSUME NEW p \in Products, RefuseOrder(w, p) PROVE TypeOK'
  <2>1. /\ worker[w] # Idle /\ GivesUp(w) /\ WorkerTypes'
        /\ UNCHANGED <<productVars, outboxVars, lost, queueVars, site, late, undeleted>>
    BY <1>4, RefuseIs
  <2>2. PICK o \in Orders :
            /\ DOMAIN order' = Orders /\ \A u \in Orders \ {o} : order'[u] = order[u]
            /\ order[o].status # "none" /\ order'[o].status = order[o].status /\ OrderOK(o)'
    BY <1>4, RefuseIs
  <2>4. OrderTypes'
    BY <2>2 DEF OrderTypes, TypeOK, OrderOK
  <2>5. \A u \in Orders : order[u].status # "none" => order'[u].status # "none"
    BY <2>2
  <2>6. \A v \in Workers : (WorksAt(v, "order"))' =>
            WorksAt(v, "order") /\ worker'[v].message = worker[v].message
    BY <2>1, WorkerSteps DEF WorksAt
  <2>7. Placed'
    <3>1. \A i \in DOMAIN queue["order"] : queue["order"][i] \in Orders
      BY ElementOfSeq, LenProperties DEF TypeOK
    <3>2. \A v \in Workers : WorksAt(v, "order")' => order'[worker'[v].message].status # "none"
      BY <2>5, <2>6, WorkerIs DEF TypeOK, WorksAt
    <3> QED
      BY <2>1, <2>5, <3>1, <3>2 DEF Placed, TypeOK, queueVars
  <2> QED
    BY <2>1, <2>4, <2>7, TypeParts, TypesStay
<1>5. CASE WorkFails(w) \/ NotDeleted(w)
  <2>1. /\ GivesUp(w) /\ undeleted' \in Nat
        /\ UNCHANGED <<productVars, outboxVars, lost, queueVars, site, order, late>>
    BY <1>5 DEF WorkFails, NotDeleted, TypeOK
  <2>2. WorkerTypes' /\ worker'[w] = Idle /\ \A v \in Workers \ {w} : worker'[v] = worker[v]
    BY <2>1, WorkerSteps DEF WorkerTypes
  <2>3. Placed' /\ OtherTypes'
    BY <2>1, <2>2 DEF Placed, OtherTypes, TypeOK, WorksAt, queueVars
  <2> QED
    BY <2>1, <2>2, <2>3, TypeParts, TypesStay
<1>6. CASE Delete(w)
  <2> DEFINE g == worker[w].group
  <2>1. /\ worker[w] # Idle /\ GivesUp(w) /\ WorkerTypes'
        /\ IF holder[g] = w
           THEN queue' = [queue EXCEPT ![g] = Tail(@)] /\ holder' = [holder EXCEPT ![g] = Nobody]
           ELSE UNCHANGED queueVars
        /\ UNCHANGED <<productVars, outboxVars, lost, site, order, late, undeleted>>
    BY <1>6, DeleteIs
  <2>2. g \in Groups
    BY <2>1, WorkerIs
  <2> HIDE DEF g
  <2>3. worker'[w] = Idle /\ \A v \in Workers \ {w} : worker'[v] = worker[v]
    BY <2>1, WorkerSteps
  <2>4. QueueTypes' /\ \A i \in DOMAIN queue'["order"] :
            \E k \in DOMAIN queue["order"] : queue'["order"][i] = queue["order"][k]
    <3>1. CASE holder[g] = w
      <4>1. queue[g] # <<>>
        BY <2>2, <3>1, ExternalEcAssumption DEF HolderOK
      <4>2. QueueTypes'
        BY <2>1, <2>2, <3>1, <4>1, TailTypes DEF QueueTypes, TypeOK
      <4>3. g = "order" \/ (g # "order" /\ "order" \in Groups \ {g})
        BY DEF Groups
      <4> QED
        BY <2>1, <2>2, <3>1, <4>1, <4>2, <4>3, TailTypes
    <3>2. CASE holder[g] # w
      BY <2>1, <3>2, TypesStay DEF queueVars
    <3> QED
      BY <3>1, <3>2
  <2>5. Placed'
    BY <2>1, <2>3, <2>4 DEF Placed, TypeOK, WorksAt
  <2> QED
    BY <2>1, <2>4, <2>5, TypeParts, TypesStay
<1> QED
  BY <1>1, <1>2, <1>3, <1>4, <1>5, <1>6 DEF Handles

LEMMA TypeStep ==
    ASSUME TypeOK, BatchOK, HolderOK, [Next]_vars
    PROVE  TypeOK'
<1>1. CASE UNCHANGED vars
  <2>1. UNCHANGED <<productVars, outboxVars, queueVars, worker, order, site, late, undeleted, lost>>
    BY <1>1 DEF vars, productVars, outboxVars, queueVars
  <2> QED
    BY <2>1, TypeParts, TypesStay DEF queueVars
<1>2. CASE Next
  BY <1>2, ProductTypesStep, BuyTypesStep, OutboxTypesStep, QueueTypesStep, WorkerTypesStep DEF Next
<1> QED
  BY <1>1, <1>2

-----------------------------------------------------------------------------
(* The table of rows.                                                      *)

\* Rows have different ids, those of the changes that wrote them.
TableOK ==
    /\ BatchOK
    /\ \A i \in DOMAIN rows : rows[i].id \in 1..changes
    /\ \A i, k \in DOMAIN rows : rows[i].id = rows[k].id => i = k
    /\ accepted \subseteq 1..changes

\* The rows that a push adds to those that the queue has accepted.
LEMMA PushAccepts ==
    ASSUME TypeOK, Push
    PROVE  LET lo == From(poller.chunk)
               hi == To(poller.chunk) IN
           /\ lo \in Nat /\ hi \in Nat /\ lo < hi /\ hi <= Len(poller.batch)
           /\ hi = Smaller(lo + ChunkSize, Len(poller.batch))
           /\ accepted' = accepted \cup {poller.batch[i].id : i \in (lo + 1)..hi}
<1> DEFINE k == poller.chunk
           lo == From(k)
           hi == To(k)
<1>1. k \in Nat \ {0} /\ ChunkRows(k) # <<>>
  BY PushIs
<1>2. /\ lo \in Nat /\ hi \in Nat /\ lo < hi /\ hi <= Len(poller.batch)
      /\ k * ChunkSize = lo + ChunkSize
      /\ DOMAIN ChunkRows(k) = 1..(hi - lo)
      /\ \A i \in 1..(hi - lo) : ChunkRows(k)[i] = poller.batch[lo + i]
  BY <1>1, ChunkIs
<1>3. hi = Smaller(lo + ChunkSize, Len(poller.batch))
  BY <1>2 DEF To
<1>4. accepted' = accepted \cup {ChunkRows(k)[i].id : i \in DOMAIN ChunkRows(k)}
  BY DEF Push
<1> HIDE DEF lo, hi, k
<1>5. {ChunkRows(k)[i].id : i \in DOMAIN ChunkRows(k)} = {poller.batch[i].id : i \in (lo + 1)..hi}
  <2>1. ASSUME NEW i \in 1..(hi - lo)
        PROVE  lo + i \in (lo + 1)..hi /\ ChunkRows(k)[i] = poller.batch[lo + i]
    BY <1>2
  <2>2. ASSUME NEW i \in (lo + 1)..hi
        PROVE  i - lo \in 1..(hi - lo) /\ ChunkRows(k)[i - lo] = poller.batch[i]
    <3>1. i - lo \in 1..(hi - lo) /\ lo + (i - lo) = i
      BY <1>2
    <3> QED
      BY <1>2, <3>1
  <2>3. ASSUME NEW a
        PROVE  a \in {ChunkRows(k)[i].id : i \in DOMAIN ChunkRows(k)} <=>
               a \in {poller.batch[i].id : i \in (lo + 1)..hi}
    <3>1. ASSUME a \in {ChunkRows(k)[i].id : i \in DOMAIN ChunkRows(k)}
          PROVE  a \in {poller.batch[i].id : i \in (lo + 1)..hi}
      <4>1. PICK i \in 1..(hi - lo) : a = ChunkRows(k)[i].id
        BY <1>2, <3>1
      <4> QED
        BY <2>1, <4>1
    <3>2. ASSUME a \in {poller.batch[i].id : i \in (lo + 1)..hi}
          PROVE  a \in {ChunkRows(k)[i].id : i \in DOMAIN ChunkRows(k)}
      <4>1. PICK i \in (lo + 1)..hi : a = poller.batch[i].id
        BY <3>2
      <4> QED
        BY <1>2, <2>2, <4>1
    <3> QED
      BY <3>1, <3>2
  <2> QED
    BY <2>3
<1> QED
  BY <1>2, <1>3, <1>4, <1>5 DEF lo, hi, k

LEMMA SetListedTable ==
    ASSUME TypeOK, TableOK, NEW p \in Products, NEW n \in Nat, SetListed(p, n),
           UNCHANGED outboxVars
    PROVE  TableOK'
<1>1. /\ changes \in Nat /\ changes' = changes + 1 /\ DOMAIN rows' = 1..(Len(rows) + 1)
      /\ \A i \in 1..Len(rows) : rows'[i] = rows[i]
      /\ rows'[Len(rows) + 1].id = changes + 1 /\ Len(rows') = Len(rows) + 1
  BY SetListedTypes DEF TypeOK
<1>2. /\ Len(rows) \in Nat /\ DOMAIN rows = 1..Len(rows)
      /\ \A i \in 1..Len(rows) : rows[i].id \in Nat
      /\ Len(poller.batch) \in Nat
  BY RowTypes DEF Rows
<1>3. UNCHANGED <<poller, accepted>>
  BY DEF outboxVars
<1>4. \A i \in 1..Len(rows) : rows[i].id \in 1..changes
  BY <1>2 DEF TableOK
<1>5. BatchOK'
  BY <1>1, <1>2, <1>3 DEF TableOK, BatchOK
<1>6. \A i \in DOMAIN rows' : rows'[i].id \in 1..changes'
  BY <1>1, <1>2, <1>4
<1>7. \A i, k \in DOMAIN rows' : rows'[i].id = rows'[k].id => i = k
  <2>1. \A i, k \in 1..Len(rows) : rows'[i].id = rows'[k].id => i = k
    BY <1>1, <1>2 DEF TableOK
  <2>2. \A i \in 1..Len(rows) : rows'[i].id # rows'[Len(rows) + 1].id
    BY <1>1, <1>2, <1>4
  <2>3. \A i \in DOMAIN rows' : i \in 1..Len(rows) \/ i = Len(rows) + 1
    BY <1>1, <1>2
  <2> QED
    BY <2>1, <2>2, <2>3
<1>8. accepted' \subseteq 1..changes'
  BY <1>1, <1>3 DEF TableOK
<1> QED
  BY <1>5, <1>6, <1>7, <1>8 DEF TableOK

LEMMA OutboxTable ==
    ASSUME TypeOK, TableOK, OutboxNext \/ PollerStops
    PROVE  TableOK'
<1>1. /\ Len(rows) \in Nat /\ DOMAIN rows = 1..Len(rows)
      /\ \A i \in 1..Len(rows) : rows[i].id \in 1..changes
      /\ Len(poller.batch) \in Nat
  BY RowTypes DEF TableOK
<1>2. poller.pc = "push" =>
          /\ Len(poller.batch) <= Len(rows)
          /\ \A i \in 1..Len(poller.batch) : poller.batch[i] = rows[i]
  BY DEF TableOK, BatchOK
<1>3. CASE Poll \/ PollerStops
  <2>1. UNCHANGED <<rows, changes, accepted>> /\ (poller' = Stopped \/ poller'.batch = rows)
    BY <1>3 DEF Poll, PollerStops, productVars
  <2>2. BatchOK'
    BY <1>1, <2>1 DEF BatchOK, Stopped
  <2> QED
    BY <2>1, <2>2 DEF TableOK
<1>4. CASE Push
  <2>1. /\ UNCHANGED <<rows, changes>> /\ poller.pc = "push" /\ poller'.batch = poller.batch
        /\ Len(poller.batch) <= Len(rows)
    BY <1>2, <1>4, PushIs DEF productVars
  <2>2. \A a \in accepted' : a \in accepted \/ \E i \in 1..Len(poller.batch) : a = poller.batch[i].id
    <3> DEFINE lo == From(poller.chunk)
               hi == To(poller.chunk)
    <3>1. /\ lo \in Nat /\ hi \in Nat /\ hi <= Len(poller.batch)
          /\ accepted' = accepted \cup {poller.batch[i].id : i \in (lo + 1)..hi}
      BY <1>4, PushAccepts
    <3> HIDE DEF lo, hi
    <3>2. \A i \in (lo + 1)..hi : i \in 1..Len(poller.batch)
      BY <1>1, <3>1
    <3> QED
      BY <3>1, <3>2
  <2>3. \A i \in 1..Len(poller.batch) : i \in 1..Len(rows) /\ poller.batch[i].id \in 1..changes
    BY <1>1, <1>2, <2>1
  <2>4. accepted' \subseteq 1..changes'
    BY <2>1, <2>2, <2>3 DEF TableOK
  <2>5. BatchOK'
    BY <1>2, <2>1 DEF BatchOK
  <2> QED
    BY <2>1, <2>4, <2>5 DEF TableOK
<1>5. CASE Discard
  <2>1. UNCHANGED <<rows, changes, accepted>> /\ poller.pc = "push" /\ poller'.batch = poller.batch
    BY <1>5, DiscardIs DEF Discard, productVars
  <2>2. BatchOK'
    BY <1>2, <2>1 DEF BatchOK
  <2> QED
    BY <2>1, <2>2 DEF TableOK
<1>6. CASE DeleteRows
  <2> DEFINE m == Len(poller.batch)
             n == Len(rows) - m
  <2>1. /\ changes' = changes /\ accepted' = {} /\ poller' = Stopped /\ rows' = Remaining
        /\ m <= Len(rows)
    BY <1>2, <1>6 DEF DeleteRows
  <2>2. DOMAIN rows' = 1..n /\ \A i \in 1..n : rows'[i] = rows[m + i]
    BY <2>1, RemainingIs
  <2>3. m \in Nat /\ n \in Nat /\ \A i \in 1..n : m + i \in 1..Len(rows)
    BY <1>1, <2>1
  <2> HIDE DEF m, n
  <2>4. \A i \in DOMAIN rows' : rows'[i].id \in 1..changes'
    BY <1>1, <2>1, <2>2, <2>3
  <2>5. \A i, k \in DOMAIN rows' : rows'[i].id = rows'[k].id => i = k
    <3> SUFFICES ASSUME NEW i \in 1..n, NEW k \in 1..n, rows'[i].id = rows'[k].id PROVE i = k
      BY <2>2
    <3>1. rows[m + i].id = rows[m + k].id
      BY <2>2
    <3>2. m + i = m + k
      BY <1>1, <2>3, <3>1 DEF TableOK
    <3> QED
      BY <2>3, <3>2
  <2>6. BatchOK'
    BY <2>1 DEF BatchOK, Stopped
  <2> QED
    BY <2>1, <2>4, <2>5, <2>6 DEF TableOK
<1> QED
  BY <1>3, <1>4, <1>5, <1>6 DEF OutboxNext

LEMMA TableStep ==
    ASSUME TypeOK, TableOK, [Next]_vars
    PROVE  TableOK'
<1>1. CASE UNCHANGED <<productVars, outboxVars>>
  BY <1>1 DEF TableOK, BatchOK, productVars, outboxVars
<1>2. ASSUME NEW p \in Products, NEW n \in 0..MaxListed, Change(p, n) PROVE TableOK'
  BY <1>2, ExternalEcAssumption, SetListedTable DEF Change
<1>3. ASSUME NEW w \in Workers, NEW p \in Products, TakeOrder(w, p) PROVE TableOK'
  BY <1>3, TakeIs, SetListedTable
<1>4. CASE UNCHANGED vars
  BY <1>1, <1>4 DEF vars, productVars, outboxVars
<1>5. ASSUME NEW o \in Orders, NEW p \in Products, Buy(o, p) PROVE TableOK'
  BY <1>1, <1>5 DEF Buy
<1>6. ASSUME NEW g \in Groups, Expire(g) \/ Drop(g) PROVE TableOK'
  BY <1>1, <1>6 DEF Expire, Drop
<1>7. ASSUME NEW w \in Workers,
             \/ \E g \in Groups : Receive(w, g)
             \/ UpdateSite(w) \/ Delete(w) \/ WorkFails(w) \/ NotDeleted(w)
             \/ \E p \in Products : RefuseOrder(w, p)
      PROVE  TableOK'
  BY <1>1, <1>7 DEF Receive, UpdateSite, Delete, WorkFails, NotDeleted, RefuseOrder
<1>8. CASE OutboxNext \/ PollerStops
  BY <1>8, OutboxTable
<1> QED
  BY <1>2, <1>3, <1>4, <1>5, <1>6, <1>7, <1>8 DEF Next, Handles

-----------------------------------------------------------------------------
(* Who has which message.                                                  *)

\* Unless a message came back too early, a worker has the first message of its group, and
\* nobody else has it.
Custody ==
    late = 0 => \A w \in Workers :
        worker[w] # Idle => /\ holder[worker[w].group] = w
                            /\ 1 \in DOMAIN queue[worker[w].group]
                            /\ worker[w].message = queue[worker[w].group][1]

LEMMA QueueIs ==
    ASSUME TypeOK, NEW g \in Groups
    PROVE  /\ Len(queue[g]) \in Nat /\ DOMAIN queue[g] = 1..Len(queue[g])
           /\ queue[g] # <<>> <=> 1 \in DOMAIN queue[g]
           /\ queue[g] \in Seq(Bodies \cup Orders)
<1>1. queue[g] \in Seq(Bodies \cup Orders)
  BY DEF TypeOK, Groups
<1> QED
  BY <1>1, LenProperties, EmptySeq

\* A message comes last.
LEMMA AppendIs ==
    ASSUME TypeOK, NEW g \in Groups, NEW m \in Bodies \cup Orders,
           queue' = [queue EXCEPT ![g] = Append(@, m)]
    PROVE  /\ \A h \in Groups \ {g} : queue'[h] = queue[h]
           /\ DOMAIN queue'[g] = 1..(Len(queue[g]) + 1)
           /\ \A i \in 1..Len(queue[g]) : queue'[g][i] = queue[g][i]
           /\ queue'[g][Len(queue[g]) + 1] = m
           /\ queue'[g] # <<>>
<1>1. queue[g] \in Seq(Bodies \cup Orders) /\ Len(queue[g]) \in Nat
  BY QueueIs
<1>2. queue'[g] = Append(queue[g], m) /\ \A h \in Groups \ {g} : queue'[h] = queue[h]
  BY DEF TypeOK
<1>3. /\ Append(queue[g], m) \in Seq(Bodies \cup Orders) /\ Append(queue[g], m) # <<>>
      /\ Len(Append(queue[g], m)) = Len(queue[g]) + 1
      /\ \A i \in 1..Len(queue[g]) : Append(queue[g], m)[i] = queue[g][i]
      /\ Append(queue[g], m)[Len(queue[g]) + 1] = m
  BY <1>1, AppendProperties, EmptySeq
<1> QED
  BY <1>2, <1>3, LenProperties

LEMMA PushAppends ==
    ASSUME TypeOK, Push
    PROVE  /\ Body(poller.chunk) \in Bodies
           /\ queue' = [queue EXCEPT !["stock"] = Append(@, Body(poller.chunk))]
BY PushIs

LEMMA HolderStep ==
    ASSUME TypeOK, HolderOK, [Next]_vars
    PROVE  HolderOK'
<1>1. CASE UNCHANGED <<queue, holder>>
  BY <1>1 DEF HolderOK
<1>2. CASE Push
  <2>1. "stock" \in Groups /\ holder' = holder
    BY <1>2, PushIs DEF Groups
  <2>2. queue'["stock"] # <<>> /\ \A h \in Groups \ {"stock"} : queue'[h] = queue[h]
    <3> DEFINE b == Body(poller.chunk)
    <3>1. b \in Bodies /\ queue' = [queue EXCEPT !["stock"] = Append(@, b)]
      BY <1>2, PushAppends
    <3> HIDE DEF b
    <3> QED
      BY <2>1, <3>1, AppendIs
  <2> QED
    BY <2>1, <2>2 DEF HolderOK
<1>3. ASSUME NEW o \in Orders, NEW p \in Products, Buy(o, p) PROVE HolderOK'
  <2>1. /\ "order" \in Groups /\ holder' = holder
        /\ queue' = [queue EXCEPT !["order"] = Append(@, o)]
    BY <1>3 DEF Buy, Groups
  <2> QED
    BY <2>1, AppendIs DEF HolderOK
<1>4. ASSUME NEW g \in Groups, Expire(g) \/ Drop(g) PROVE HolderOK'
  <2>1. CASE Expire(g)
    <3>1. queue' = queue /\ holder' = [holder EXCEPT ![g] = Nobody]
      BY <2>1 DEF Expire
    <3> QED
      BY <3>1 DEF HolderOK, TypeOK
  <2>2. CASE Drop(g)
    <3>1. /\ queue[g] # <<>> /\ queue' = [queue EXCEPT ![g] = Tail(@)] /\ holder[g] = Nobody
          /\ holder' = holder
      BY <2>2, DropIs
    <3> QED
      BY <3>1, TailTypes DEF HolderOK
  <2> QED
    BY <1>4, <2>1, <2>2
<1>5. ASSUME NEW w \in Workers, NEW g \in Groups, Receive(w, g) PROVE HolderOK'
  <2>1. queue[g] # <<>> /\ queue' = queue /\ holder' = [holder EXCEPT ![g] = w]
    BY <1>5, ReceiveIs
  <2> QED
    BY <2>1 DEF HolderOK, TypeOK
<1>6. ASSUME NEW w \in Workers, Delete(w) PROVE HolderOK'
  <2> DEFINE g == worker[w].group
  <2>1. /\ worker[w] # Idle
        /\ IF holder[g] = w
           THEN queue' = [queue EXCEPT ![g] = Tail(@)] /\ holder' = [holder EXCEPT ![g] = Nobody]
           ELSE UNCHANGED queueVars
    BY <1>6, DeleteIs
  <2>2. g \in Groups
    BY <2>1, WorkerIs
  <2> HIDE DEF g
  <2>3. CASE holder[g] = w
    <3>1. queue[g] # <<>>
      BY <2>2, <2>3, ExternalEcAssumption DEF HolderOK
    <3>2. \A h \in Groups \ {g} : queue'[h] = queue[h] /\ holder'[h] = holder[h]
      BY <2>1, <2>2, <2>3, <3>1, TailTypes DEF TypeOK
    <3>3. holder'[g] = Nobody
      BY <2>1, <2>2, <2>3 DEF TypeOK
    <3> QED
      BY <3>2, <3>3 DEF HolderOK
  <2>4. CASE holder[g] # w
    BY <1>1, <2>1, <2>4 DEF queueVars
  <2> QED
    BY <2>3, <2>4
<1>7. ASSUME NEW w \in Workers,
             \/ UpdateSite(w) \/ WorkFails(w) \/ NotDeleted(w)
             \/ \E p \in Products : TakeOrder(w, p) \/ RefuseOrder(w, p)
      PROVE  HolderOK'
  BY <1>1, <1>7 DEF UpdateSite, WorkFails, NotDeleted, TakeOrder, RefuseOrder, queueVars
<1>8. ASSUME NEW p \in Products, NEW n \in 0..MaxListed, Change(p, n) PROVE HolderOK'
  BY <1>1, <1>8 DEF Change, queueVars
<1>9. CASE Poll \/ Discard \/ DeleteRows \/ PollerStops \/ UNCHANGED vars
  BY <1>1, <1>9 DEF Poll, Discard, DeleteRows, PollerStops, vars, queueVars
<1> QED
  BY <1>2, <1>3, <1>4, <1>5, <1>6, <1>7, <1>8, <1>9 DEF Next, Handles, OutboxNext

\* Workers stay at their messages, or leave them.
SameWork ==
    \A v \in Workers : worker'[v] # Idle =>
        /\ worker[v] # Idle
        /\ worker'[v].group = worker[v].group /\ worker'[v].message = worker[v].message

LEMMA WorkStays ==
    ASSUME TypeOK, NEW w \in Workers, (worker[w] # Idle /\ Done(w)) \/ GivesUp(w)
    PROVE  SameWork
BY WorkerSteps DEF SameWork

\* What went wrong is not forgotten.
LEMMA CountsStay ==
    ASSUME TypeOK, [Next]_vars
    PROVE  /\ late' = 0 => late = 0
           /\ undeleted' = 0 => undeleted = 0
           /\ ~lost' => ~lost
<1>1. late \in Nat /\ undeleted \in Nat /\ lost \in BOOLEAN
  BY DEF TypeOK
<1>2. ASSUME NEW g \in Groups, Expire(g)
      PROVE  (late' = late \/ late' = late + 1) /\ UNCHANGED <<undeleted, lost>>
  BY <1>2 DEF Expire
<1>3. ASSUME NEW g \in Groups, Drop(g)
      PROVE  UNCHANGED <<undeleted, late>> /\ (lost => lost')
  BY <1>3 DEF Drop
<1>4. ASSUME NEW w \in Workers, NotDeleted(w)
      PROVE  undeleted' = undeleted + 1 /\ UNCHANGED <<late, lost>>
  BY <1>4 DEF NotDeleted
<1>5. CASE DeleteRows
  BY <1>5 DEF DeleteRows
<1>6. ASSUME NEW w \in Workers, Handles(w) \/ WorkFails(w)
      PROVE  UNCHANGED <<late, undeleted, lost>>
  BY <1>6 DEF Handles, WorkFails, Receive, UpdateSite, Delete, TakeOrder, RefuseOrder
<1>7. CASE Poll \/ Push \/ Discard \/ PollerStops \/ UNCHANGED vars
  BY <1>7 DEF Poll, Push, Discard, PollerStops, vars
<1>8. ASSUME NEW p \in Products, \/ \E n \in 0..MaxListed : Change(p, n)
                                \/ \E o \in Orders : Buy(o, p)
      PROVE  UNCHANGED <<late, undeleted, lost>>
  BY <1>8 DEF Change, Buy
<1> QED
  BY <1>1, <1>2, <1>3, <1>4, <1>5, <1>6, <1>7, <1>8 DEF Next, OutboxNext

LEMMA CustodyStep ==
    ASSUME TypeOK, HolderOK, Custody, [Next]_vars
    PROVE  Custody'
<1>1. late' = 0 => late = 0
  BY CountsStay
<1> SUFFICES ASSUME late' = 0 PROVE Custody'
  BY DEF Custody
<1>2. \A w \in Workers : worker[w] # Idle =>
          /\ worker[w].group \in Groups /\ holder[worker[w].group] = w
          /\ 1 \in DOMAIN queue[worker[w].group]
          /\ worker[w].message = queue[worker[w].group][1]
  BY <1>1, WorkerIs DEF Custody
<1>3. ASSUME SameWork, UNCHANGED <<queue, holder>> PROVE Custody'
  BY <1>2, <1>3 DEF Custody, SameWork
<1>4. CASE UNCHANGED <<queue, holder, worker>>
  BY <1>2, <1>4 DEF Custody
<1>5. CASE Push
  <2>1. "stock" \in Groups /\ holder' = holder /\ worker' = worker
    BY <1>5, PushIs DEF Groups
  <2>2. \A h \in Groups : 1 \in DOMAIN queue[h] =>
            1 \in DOMAIN queue'[h] /\ queue'[h][1] = queue[h][1]
    <3> DEFINE b == Body(poller.chunk)
    <3>1. b \in Bodies /\ queue' = [queue EXCEPT !["stock"] = Append(@, b)]
      BY <1>5, PushAppends
    <3> HIDE DEF b
    <3> QED
      BY <2>1, <3>1, AppendIs, QueueIs
  <2> QED
    BY <1>2, <2>1, <2>2 DEF Custody
<1>6. ASSUME NEW o \in Orders, NEW p \in Products, Buy(o, p) PROVE Custody'
  <2>1. /\ "order" \in Groups /\ holder' = holder /\ worker' = worker
        /\ queue' = [queue EXCEPT !["order"] = Append(@, o)]
    BY <1>6 DEF Buy, Groups
  <2>2. \A h \in Groups : 1 \in DOMAIN queue[h] =>
            1 \in DOMAIN queue'[h] /\ queue'[h][1] = queue[h][1]
    BY <2>1, AppendIs, QueueIs
  <2> QED
    BY <1>2, <2>1, <2>2 DEF Custody
<1>7. ASSUME NEW g \in Groups, Expire(g) PROVE Custody'
  <2>1. UNCHANGED <<queue, worker>> /\ holder' = [holder EXCEPT ![g] = Nobody]
    BY <1>7 DEF Expire
  <2>2. ~WorksAt(holder[g], g)
    BY <1>1, <1>7 DEF Expire, TypeOK
  <2>3. \A w \in Workers : worker[w] # Idle => worker[w].group # g
    BY <1>2, <2>2 DEF WorksAt
  <2> QED
    BY <1>2, <2>1, <2>3 DEF Custody, TypeOK
<1>8. ASSUME NEW g \in Groups, Drop(g) PROVE Custody'
  <2>1. /\ queue[g] # <<>> /\ queue' = [queue EXCEPT ![g] = Tail(@)] /\ holder[g] = Nobody
        /\ UNCHANGED <<holder, worker>>
    BY <1>8, DropIs
  <2>2. \A h \in Groups \ {g} : queue'[h] = queue[h]
    BY <2>1, TailTypes
  <2>3. \A w \in Workers : worker[w] # Idle => worker[w].group \in Groups \ {g}
    BY <1>2, <2>1, ExternalEcAssumption
  <2> QED
    BY <1>2, <2>1, <2>2, <2>3 DEF Custody
<1>9. ASSUME NEW w \in Workers, NEW g \in Groups, Receive(w, g) PROVE Custody'
  <2>1. /\ worker[w] = Idle /\ queue[g] # <<>> /\ holder[g] = Nobody
        /\ holder' = [holder EXCEPT ![g] = w]
        /\ \A v \in Workers \ {w} : worker'[v] = worker[v]
        /\ worker'[w] = [pc |-> "work", group |-> g, message |-> Head(queue[g])]
        /\ queue' = queue
    BY <1>9, ReceiveIs
  <2>2. 1 \in DOMAIN queue[g] /\ Head(queue[g]) = queue[g][1]
    BY <2>1, HeadIs
  <2>3. worker'[w].group = g /\ worker'[w].message = queue[g][1]
    BY <2>1, <2>2
  <2>4. \A v \in Workers \ {w} : worker[v] # Idle => worker[v].group \in Groups \ {g}
    BY <1>2, <2>1, ExternalEcAssumption
  <2>5. holder'[g] = w /\ \A h \in Groups \ {g} : holder'[h] = holder[h]
    BY <2>1 DEF TypeOK
  <2> QED
    BY <1>2, <2>1, <2>2, <2>3, <2>4, <2>5 DEF Custody
<1>10. ASSUME NEW w \in Workers, Delete(w) PROVE Custody'
  <2> DEFINE g == worker[w].group
  <2>1. /\ worker[w] # Idle /\ GivesUp(w)
        /\ IF holder[g] = w
           THEN queue' = [queue EXCEPT ![g] = Tail(@)] /\ holder' = [holder EXCEPT ![g] = Nobody]
           ELSE UNCHANGED queueVars
    BY <1>10, DeleteIs
  <2>2. g \in Groups /\ holder[g] = w
    BY <1>2, <2>1
  <2> HIDE DEF g
  <2>3. queue[g] # <<>>
    BY <2>2, ExternalEcAssumption DEF HolderOK
  <2>4. \A h \in Groups \ {g} : queue'[h] = queue[h] /\ holder'[h] = holder[h]
    BY <2>1, <2>2, <2>3, TailTypes DEF TypeOK
  <2>5. worker'[w] = Idle /\ \A v \in Workers \ {w} : worker'[v] = worker[v]
    BY <2>1, WorkerSteps
  <2>6. \A v \in Workers \ {w} : worker[v] # Idle => worker[v].group \in Groups \ {g}
    BY <1>2, <2>2
  <2> QED
    BY <1>2, <2>4, <2>5, <2>6 DEF Custody
<1>11. ASSUME NEW w \in Workers,
              \/ UpdateSite(w) \/ WorkFails(w) \/ NotDeleted(w)
              \/ \E p \in Products : TakeOrder(w, p) \/ RefuseOrder(w, p)
       PROVE  Custody'
  <2>1. (worker[w] # Idle /\ Done(w)) \/ GivesUp(w)
    BY <1>11, TakeIs, RefuseIs DEF UpdateSite, WorkFails, NotDeleted, At, WorksAt
  <2>2. UNCHANGED <<queue, holder>>
    BY <1>11 DEF UpdateSite, WorkFails, NotDeleted, TakeOrder, RefuseOrder, queueVars
  <2> QED
    BY <1>3, <2>1, <2>2, WorkStays
<1>12. ASSUME NEW p \in Products, NEW n \in 0..MaxListed, Change(p, n) PROVE Custody'
  BY <1>4, <1>12 DEF Change, queueVars
<1>13. CASE Poll \/ Discard \/ DeleteRows \/ PollerStops \/ UNCHANGED vars
  BY <1>4, <1>13 DEF Poll, Discard, DeleteRows, PollerStops, vars, queueVars
<1> QED
  BY <1>5, <1>6, <1>7, <1>8, <1>9, <1>10, <1>11, <1>12, <1>13 DEF Next, Handles, OutboxNext

-----------------------------------------------------------------------------
(* The shop's orders.                                                      *)

\* An order has one message, and a worker that is done with it has taken its unit.
OrdersOnce ==
    /\ \A i, k \in DOMAIN queue["order"] : queue["order"][i] = queue["order"][k] => i = k
    /\ \A w \in Workers : At(w, "done", "order") => order[worker[w].message].taken # 0

\* If no message comes back early, an order that has a unit more than its message failed to be
\* deleted is the first of the queue, at a worker that is done with it, or is none of the
\* queue's any more.
TakenOnce ==
    late = 0 =>
        /\ \A o \in Orders : order[o].taken <= 1 + undeleted
        /\ \A i \in DOMAIN queue["order"] :
              \/ order[queue["order"][i]].taken <= undeleted
              \/ i = 1 /\ \E w \in Workers : At(w, "done", "order")

Open(o) == order[o].status = "placed" /\ order[o].taken = 0 /\ ~order[o].refused

\* Unless a message was lost or came back early, an order that the product does not know of
\* is on its way.
OpenOK ==
    ~lost /\ late = 0 =>
        \A o \in Orders : Open(o) => \E i \in DOMAIN queue["order"] : queue["order"][i] = o

\* Nothing happens to the shop's orders.
QuietForOrders ==
    /\ order' = order /\ queue'["order"] = queue["order"]
    /\ \A w \in Workers :
          /\ At(w, "done", "order")' <=> At(w, "done", "order")
          /\ At(w, "done", "order") => worker'[w].message = worker[w].message

QuietStep ==
    \/ \E p \in Products, n \in 0..MaxListed : Change(p, n)
    \/ OutboxNext \/ PollerStops \/ UNCHANGED vars
    \/ \E g \in Groups : Expire(g)
    \/ Drop("stock")
    \/ \E w \in Workers : (\E g \in Groups : Receive(w, g)) \/ UpdateSite(w) \/ WorkFails(w)

LEMMA QuietSteps ==
    ASSUME TypeOK, QuietStep
    PROVE  QuietForOrders
<1>1. CASE UNCHANGED <<order, queue, worker>>
  BY <1>1 DEF QuietForOrders, At, WorksAt
<1>2. CASE Push
  <2>1. UNCHANGED <<order, worker>> /\ "stock" \in Groups /\ "order" \in Groups \ {"stock"}
    BY <1>2, PushIs DEF Groups
  <2>2. queue'["order"] = queue["order"]
    <3> DEFINE b == Body(poller.chunk)
    <3>1. b \in Bodies /\ queue' = [queue EXCEPT !["stock"] = Append(@, b)]
      BY <1>2, PushAppends
    <3> HIDE DEF b
    <3> QED
      BY <2>1, <3>1, AppendIs
  <2> QED
    BY <2>1, <2>2 DEF QuietForOrders, At, WorksAt
<1>3. CASE Drop("stock")
  <2>1. "stock" \in Groups /\ "order" \in Groups \ {"stock"}
    BY DEF Groups
  <2>2. /\ queue["stock"] # <<>> /\ queue' = [queue EXCEPT !["stock"] = Tail(@)]
        /\ UNCHANGED <<order, worker>>
    BY <1>3, <2>1, DropIs
  <2>3. queue'["order"] = queue["order"]
    BY <2>1, <2>2, TailTypes
  <2> QED
    BY <2>2, <2>3 DEF QuietForOrders, At, WorksAt
<1>4. ASSUME NEW w \in Workers, NEW g \in Groups, Receive(w, g) PROVE QuietForOrders
  <2>1. /\ worker[w] = Idle /\ \A v \in Workers \ {w} : worker'[v] = worker[v]
        /\ worker'[w] = [pc |-> "work", group |-> g, message |-> Head(queue[g])]
        /\ UNCHANGED <<queue, order>>
    BY <1>4, ReceiveIs
  <2>2. ~At(w, "done", "order") /\ ~At(w, "done", "order")'
    BY <2>1 DEF At, WorksAt
  <2>3. \A v \in Workers \ {w} : At(v, "done", "order")' <=> At(v, "done", "order")
    BY <2>1 DEF At, WorksAt
  <2> QED
    BY <2>1, <2>2, <2>3 DEF QuietForOrders
<1>5. ASSUME NEW w \in Workers, UpdateSite(w) \/ WorkFails(w) PROVE QuietForOrders
  <2>1. /\ (worker[w] # Idle /\ Done(w)) \/ GivesUp(w)
        /\ \A v \in Workers \ {w} : worker'[v] = worker[v]
        /\ UNCHANGED <<queue, order>>
    BY <1>5, WorkerSteps DEF UpdateSite, WorkFails, At, WorksAt, queueVars
  <2>2. ~At(w, "done", "order")
    BY <1>5 DEF At, WorksAt, UpdateSite, WorkFails
  <2>3. ~At(w, "done", "order")'
    <3>1. CASE UpdateSite(w)
      <4>1. worker[w] # Idle /\ worker[w].group = "stock" /\ Done(w)
        BY <3>1 DEF UpdateSite, At, WorksAt
      <4>2. worker'[w].group = "stock"
        BY <4>1, WorkerSteps
      <4> QED
        BY <4>2 DEF At, WorksAt
    <3>2. CASE WorkFails(w)
      <4>1. worker'[w] = Idle
        BY <3>2, WorkerSteps DEF WorkFails
      <4> QED
        BY <4>1 DEF At, WorksAt
    <3> QED
      BY <1>5, <3>1, <3>2
  <2>4. \A v \in Workers \ {w} : At(v, "done", "order")' <=> At(v, "done", "order")
    BY <2>1 DEF At, WorksAt
  <2> QED
    BY <2>1, <2>2, <2>3, <2>4 DEF QuietForOrders
<1>6. ASSUME NEW p \in Products, NEW n \in 0..MaxListed, Change(p, n) PROVE QuietForOrders
  BY <1>1, <1>6 DEF Change, queueVars
<1>7. ASSUME NEW g \in Groups, Expire(g) PROVE QuietForOrders
  BY <1>1, <1>7 DEF Expire
<1>8. CASE Poll \/ Discard \/ DeleteRows \/ PollerStops \/ UNCHANGED vars
  BY <1>1, <1>8 DEF Poll, Discard, DeleteRows, PollerStops, vars, queueVars
<1> QED
  BY <1>2, <1>3, <1>4, <1>5, <1>6, <1>7, <1>8 DEF QuietStep, OutboxNext

LEMMA QuietCounts ==
    ASSUME QuietStep
    PROVE  undeleted' = undeleted
BY DEF QuietStep, Change, OutboxNext, Poll, Push, Discard, DeleteRows, PollerStops, Expire, Drop,
   Receive, UpdateSite, WorkFails, vars

\* All other steps.
LEMMA LoudSteps ==
    ASSUME TypeOK, [Next]_vars, ~QuietStep
    PROVE  \/ \E o \in Orders, p \in Products : Buy(o, p)
           \/ Drop("order")
           \/ \E w \in Workers :
                 \/ Delete(w) \/ NotDeleted(w)
                 \/ \E p \in Products : TakeOrder(w, p) \/ RefuseOrder(w, p)
<1>1. Groups = {"stock", "order"}
  BY DEF Groups
<1> QED
  BY <1>1 DEF Next, QuietStep, Handles

\* What a deletion does: the worker's message leaves the queue if it is still the worker's.
LEMMA DeleteSteps ==
    ASSUME TypeOK, HolderOK, NEW w \in Workers, Delete(w)
    PROVE  \E g \in Groups :
           /\ g = worker[w].group /\ worker[w] # Idle /\ At(w, "done", g)
           /\ worker'[w] = Idle /\ \A v \in Workers \ {w} : worker'[v] = worker[v]
           /\ \A h \in Groups \ {g} : queue'[h] = queue[h]
           /\ holder[g] = w =>
                 /\ queue[g] # <<>>
                 /\ \A i \in DOMAIN queue'[g] :
                       i + 1 \in DOMAIN queue[g] /\ queue'[g][i] = queue[g][i + 1]
                 /\ \A i \in DOMAIN queue[g] : i = 1 \/ (i - 1) \in DOMAIN queue'[g]
           /\ holder[g] # w => queue' = queue
           /\ UNCHANGED <<productVars, outboxVars, lost, site, order, late, undeleted>>
<1> DEFINE g == worker[w].group
<1>1. /\ worker[w] # Idle /\ worker[w].pc = "done" /\ GivesUp(w)
      /\ IF holder[g] = w
         THEN queue' = [queue EXCEPT ![g] = Tail(@)]
         ELSE queue' = queue
      /\ UNCHANGED <<productVars, outboxVars, lost, site, order, late, undeleted>>
  BY DeleteIs DEF queueVars
<1>2. g \in Groups /\ At(w, "done", g)
  BY <1>1, WorkerIs DEF At, WorksAt
<1>3. worker'[w] = Idle /\ \A v \in Workers \ {w} : worker'[v] = worker[v]
  BY <1>1, WorkerSteps
<1>4. PICK h \in Groups : h = g
  BY <1>2
<1> HIDE DEF g
<1>5. holder[h] = w =>
          /\ queue[h] # <<>>
          /\ \A i \in DOMAIN queue'[h] : i + 1 \in DOMAIN queue[h] /\ queue'[h][i] = queue[h][i + 1]
          /\ \A i \in DOMAIN queue[h] : i = 1 \/ (i - 1) \in DOMAIN queue'[h]
          /\ \A k \in Groups \ {h} : queue'[k] = queue[k]
  <2> SUFFICES ASSUME holder[h] = w
               PROVE  /\ queue[h] # <<>>
                      /\ \A i \in DOMAIN queue'[h] :
                            i + 1 \in DOMAIN queue[h] /\ queue'[h][i] = queue[h][i + 1]
                      /\ \A i \in DOMAIN queue[h] : i = 1 \/ (i - 1) \in DOMAIN queue'[h]
                      /\ \A k \in Groups \ {h} : queue'[k] = queue[k]
    OBVIOUS
  <2>1. queue[h] # <<>>
    BY ExternalEcAssumption DEF HolderOK
  <2>2. queue' = [queue EXCEPT ![h] = Tail(@)]
    BY <1>1, <1>4
  <2> QED
    BY <2>1, <2>2, TailTypes
<1>6. holder[h] # w => queue' = queue
  BY <1>1, <1>4
<1> QED
  BY <1>1, <1>2, <1>3, <1>4, <1>5, <1>6 DEF g

LEMMA OrderQueueIs ==
    ASSUME TypeOK
    PROVE  /\ "order" \in Groups /\ "stock" \in Groups
           /\ Len(queue["order"]) \in Nat /\ DOMAIN queue["order"] = 1..Len(queue["order"])
           /\ \A i \in DOMAIN queue["order"] :
                 queue["order"][i] \in Orders /\ order[queue["order"][i]].status # "none"
BY ElementOfSeq, LenProperties DEF TypeOK, Groups

\* A customer's order comes last.
LEMMA BuyAppends ==
    ASSUME TypeOK, NEW o \in Orders, NEW p \in Products, Buy(o, p)
    PROVE  /\ DOMAIN queue'["order"] = 1..(Len(queue["order"]) + 1)
           /\ \A i \in 1..Len(queue["order"]) :
                 queue'["order"][i] = queue["order"][i] /\ queue["order"][i] # o
           /\ queue'["order"][Len(queue["order"]) + 1] = o
           /\ queue'["stock"] = queue["stock"]
<1>1. /\ queue' = [queue EXCEPT !["order"] = Append(@, o)] /\ order[o].status = "none"
      /\ "order" \in Groups /\ "stock" \in Groups \ {"order"} /\ o \in Bodies \cup Orders
  BY DEF Buy, Groups
<1>2. \A i \in 1..Len(queue["order"]) : queue["order"][i] # o
  BY <1>1, OrderQueueIs
<1> QED
  BY <1>1, <1>2, AppendIs

LEMMA OrdersOnceStep ==
    ASSUME TypeOK, HolderOK, OrdersOnce, [Next]_vars
    PROVE  OrdersOnce'
<1>1. CASE QuietStep
  <2>1. QuietForOrders
    BY <1>1, QuietSteps
  <2> QED
    BY <2>1 DEF QuietForOrders, OrdersOnce
<1>2. ASSUME NEW o \in Orders, NEW p \in Products, Buy(o, p) PROVE OrdersOnce'
  <2>1. /\ worker' = worker /\ order[o].status = "none"
        /\ \A u \in Orders \ {o} : order'[u] = order[u]
    BY <1>2, BuyIs
  <2>2. \A i, k \in DOMAIN queue'["order"] : queue'["order"][i] = queue'["order"][k] => i = k
    <3>1. PICK n \in Nat : n = Len(queue["order"]) /\ DOMAIN queue["order"] = 1..n
      BY OrderQueueIs
    <3>2. /\ DOMAIN queue'["order"] = 1..(n + 1) /\ queue'["order"][n + 1] = o
          /\ \A i \in 1..n : queue'["order"][i] = queue["order"][i] /\ queue["order"][i] # o
      BY <1>2, <3>1, BuyAppends
    <3>3. \A i \in DOMAIN queue'["order"] : i \in 1..n \/ i = n + 1
      BY <3>1, <3>2
    <3>4. \A i, k \in 1..n : queue["order"][i] = queue["order"][k] => i = k
      BY <3>1 DEF OrdersOnce
    <3> QED
      BY <3>2, <3>3, <3>4
  <2>3. \A w \in Workers : At(w, "done", "order") =>
            worker[w].message \in Orders \ {o}
    BY <2>1, WorkerIs DEF TypeOK, At, WorksAt
  <2>4. \A w \in Workers : At(w, "done", "order")' => order'[worker'[w].message].taken # 0
    BY <2>1, <2>3 DEF OrdersOnce, At, WorksAt
  <2> QED
    BY <2>2, <2>4 DEF OrdersOnce
<1>3. CASE Drop("order")
  <2>1. /\ "order" \in Groups /\ queue["order"] # <<>> /\ worker' = worker
        /\ queue' = [queue EXCEPT !["order"] = Tail(@)]
    BY <1>3, DropIs, OrderQueueIs
  <2>2. PICK o \in Orders : /\ \A u \in Orders \ {o} : order'[u] = order[u]
                            /\ order'[o].taken = order[o].taken
    BY <1>3, <2>1, DropIs
  <2>3. \A i \in DOMAIN queue'["order"] :
            i + 1 \in DOMAIN queue["order"] /\ queue'["order"][i] = queue["order"][i + 1] /\ i \in Int
    <3>1. queue'["order"] \in Seq(Orders)
      BY <2>1, TailTypes
    <3>2. \A i \in DOMAIN queue'["order"] : i \in Int
      BY <3>1, LenProperties
    <3>3. \A i \in DOMAIN queue'["order"] :
              i + 1 \in DOMAIN queue["order"] /\ queue'["order"][i] = queue["order"][i + 1]
      BY <2>1, TailTypes
    <3> QED
      BY <3>2, <3>3
  <2>4. \A i, k \in DOMAIN queue'["order"] : queue'["order"][i] = queue'["order"][k] => i = k
    <3> SUFFICES ASSUME NEW i \in DOMAIN queue'["order"], NEW k \in DOMAIN queue'["order"],
                        queue'["order"][i] = queue'["order"][k]
                 PROVE  i = k
      OBVIOUS
    <3>1. i + 1 = k + 1
      BY <2>3 DEF OrdersOnce
    <3> QED
      BY <2>3, <3>1
  <2>5. \A w \in Workers : At(w, "done", "order")' => order'[worker'[w].message].taken # 0
    <3>1. \A u \in Orders : order'[u].taken = order[u].taken
      BY <2>2
    <3>2. \A w \in Workers : At(w, "done", "order") => worker[w].message \in Orders
      BY WorkerIs DEF At, WorksAt
    <3> QED
      BY <2>1, <3>1, <3>2 DEF OrdersOnce, At, WorksAt
  <2> QED
    BY <2>4, <2>5 DEF OrdersOnce
<1>4. ASSUME NEW w \in Workers, Delete(w) PROVE OrdersOnce'
  <2>1. PICK g \in Groups :
           /\ worker'[w] = Idle /\ \A v \in Workers \ {w} : worker'[v] = worker[v]
           /\ \A h \in Groups \ {g} : queue'[h] = queue[h]
           /\ holder[g] = w =>
                 \A i \in DOMAIN queue'[g] :
                       i + 1 \in DOMAIN queue[g] /\ queue'[g][i] = queue[g][i + 1]
           /\ holder[g] # w => queue' = queue
           /\ order' = order
    BY <1>4, DeleteSteps
  <2>2. \A i, k \in DOMAIN queue'["order"] : queue'["order"][i] = queue'["order"][k] => i = k
    <3>1. CASE g = "order" /\ holder[g] = w
      <4> SUFFICES ASSUME NEW i \in DOMAIN queue'["order"], NEW k \in DOMAIN queue'["order"],
                          queue'["order"][i] = queue'["order"][k]
                   PROVE  i = k
        OBVIOUS
      <4>1. i + 1 = k + 1
        BY <2>1, <3>1 DEF OrdersOnce
      <4>2. queue'["order"] \in Seq(Orders)
        <5>1. TypeOK'
          BY <1>4, WorkerTypesStep DEF Handles
        <5> QED
          BY <5>1 DEF TypeOK
      <4>3. i \in Int /\ k \in Int
        BY <4>2, LenProperties
      <4> QED
        BY <4>1, <4>3
    <3>2. CASE g # "order" \/ holder[g] # w
      BY <2>1, <3>2, OrderQueueIs DEF OrdersOnce
    <3> QED
      BY <3>1, <3>2
  <2>3. \A v \in Workers : At(v, "done", "order")' => order'[worker'[v].message].taken # 0
    <3>1. ~At(w, "done", "order")'
      BY <2>1 DEF At, WorksAt
    <3>2. \A v \in Workers \ {w} :
              At(v, "done", "order")' => At(v, "done", "order") /\ worker'[v] = worker[v]
      BY <2>1 DEF At, WorksAt
    <3> QED
      BY <2>1, <3>1, <3>2 DEF OrdersOnce
  <2> QED
    BY <2>2, <2>3 DEF OrdersOnce
<1>5. ASSUME NEW w \in Workers, NotDeleted(w) PROVE OrdersOnce'
  <2>1. /\ worker'[w] = Idle /\ \A v \in Workers \ {w} : worker'[v] = worker[v]
        /\ UNCHANGED <<queue, order>>
    BY <1>5, WorkerSteps DEF NotDeleted, queueVars
  <2>2. ~At(w, "done", "order")'
    BY <2>1 DEF At, WorksAt
  <2>3. \A v \in Workers \ {w} :
            At(v, "done", "order")' => At(v, "done", "order") /\ worker'[v] = worker[v]
    BY <2>1 DEF At, WorksAt
  <2> QED
    BY <2>1, <2>2, <2>3 DEF OrdersOnce
<1>6. ASSUME NEW w \in Workers, NEW p \in Products, TakeOrder(w, p) PROVE OrdersOnce'
  <2>1. worker[w] # Idle /\ Done(w) /\ queue' = queue
    BY <1>6, TakeIs DEF queueVars
  <2>2. PICK o \in Orders :
            /\ o = worker[w].message /\ \A u \in Orders \ {o} : order'[u] = order[u]
            /\ order[o].taken \in Nat /\ order'[o].taken = order[o].taken + 1
    BY <1>6, TakeIs
  <2>3. worker'[w].message = o /\ \A v \in Workers \ {w} : worker'[v] = worker[v]
    BY <2>1, <2>2, WorkerSteps
  <2>4. \A v \in Workers \ {w} : At(v, "done", "order")' =>
            order'[worker'[v].message].taken # 0
    <3> SUFFICES ASSUME NEW v \in Workers \ {w}, At(v, "done", "order")'
                 PROVE  order'[worker[v].message].taken # 0
      BY <2>3
    <3>1. At(v, "done", "order")
      BY <2>3 DEF At, WorksAt
    <3>2. worker[v].message \in Orders /\ order[worker[v].message].taken # 0
      BY <3>1, WorkerIs DEF At, WorksAt, OrdersOnce
    <3> QED
      BY <2>2, <3>2
  <2>5. order'[worker'[w].message].taken # 0
    BY <2>2, <2>3
  <2> QED
    BY <2>1, <2>4, <2>5 DEF OrdersOnce
<1>7. ASSUME NEW w \in Workers, NEW p \in Products, RefuseOrder(w, p) PROVE OrdersOnce'
  <2>1. GivesUp(w) /\ queue' = queue
    BY <1>7, RefuseIs DEF queueVars
  <2>2. \A u \in Orders : order'[u].taken = order[u].taken
    BY <1>7, RefuseIs
  <2>3. worker'[w] = Idle /\ \A v \in Workers \ {w} : worker'[v] = worker[v]
    BY <2>1, WorkerSteps
  <2>4. ~At(w, "done", "order")'
    BY <2>3 DEF At, WorksAt
  <2>5. \A v \in Workers \ {w} : At(v, "done", "order")' =>
            /\ At(v, "done", "order") /\ worker'[v] = worker[v]
            /\ worker[v].message \in Orders
    BY <2>3, WorkerIs DEF At, WorksAt
  <2> QED
    BY <2>1, <2>2, <2>4, <2>5 DEF OrdersOnce
<1> QED
  BY <1>1, <1>2, <1>3, <1>4, <1>5, <1>6, <1>7, LoudSteps

LEMMA TakenOnceStep ==
    ASSUME TypeOK, HolderOK, Custody, OrdersOnce, TakenOnce, [Next]_vars
    PROVE  TakenOnce'
<1> DEFINE Bounded == \A o \in Orders : order[o].taken <= 1 + undeleted
           Waiting == \A i \in DOMAIN queue["order"] :
                         \/ order[queue["order"][i]].taken <= undeleted
                         \/ i = 1 /\ \E w \in Workers : At(w, "done", "order")
<1> SUFFICES ASSUME late' = 0 PROVE Bounded' /\ Waiting'
  BY DEF TakenOnce
<1>1. late = 0
  BY CountsStay
<1>2. Bounded /\ Waiting
  BY <1>1 DEF TakenOnce
<1>3. undeleted \in Nat /\ \A o \in Orders : order[o].taken \in Nat
  BY DEF TypeOK, OrderOK
<1>4. ASSUME NEW w \in Workers, WorksAt(w, "order")
      PROVE  /\ holder["order"] = w /\ 1 \in DOMAIN queue["order"]
             /\ worker[w].message = queue["order"][1]
  BY <1>1, <1>4 DEF Custody, WorksAt
<1>5. ASSUME NEW w \in Workers, At(w, "done", "order"), NEW v \in Workers, WorksAt(v, "order")
      PROVE  v = w
  BY <1>4, <1>5 DEF At
<1>6. CASE QuietStep
  <2>1. QuietForOrders
    BY <1>6, QuietSteps
  <2>2. undeleted' = undeleted
    BY <1>6, QuietCounts
  <2> QED
    BY <1>2, <2>1, <2>2 DEF QuietForOrders
<1>7. ASSUME NEW u \in Orders, NEW p \in Products, Buy(u, p)
      PROVE  Bounded' /\ Waiting'
  <2>0. order'[u] = [status |-> "placed", product |-> p, taken |-> 0, refused |-> FALSE]
    BY <1>7, BuyIs
  <2>1. /\ \A o \in Orders \ {u} : order'[o] = order[o]
        /\ order'[u].taken = 0 /\ worker' = worker
    BY <1>7, <2>0, BuyIs
  <2>2. \A i \in DOMAIN queue'["order"] :
            \/ queue'["order"][i] = u
            \/ /\ i \in DOMAIN queue["order"] /\ queue'["order"][i] = queue["order"][i]
               /\ queue["order"][i] \in Orders \ {u}
    BY <1>7, BuyAppends, OrderQueueIs
  <2>3. \A w \in Workers : At(w, "done", "order") => At(w, "done", "order")'
    BY <2>1 DEF At, WorksAt
  <2>4. undeleted' = undeleted
    BY <1>7 DEF Buy
  <2>5. Bounded'
    BY <1>2, <1>3, <2>1, <2>4
  <2>6. Waiting'
    <3> SUFFICES ASSUME NEW i \in DOMAIN queue'["order"]
                 PROVE  \/ order'[queue'["order"][i]].taken <= undeleted'
                        \/ i = 1 /\ \E w \in Workers : At(w, "done", "order")'
      OBVIOUS
    <3>1. CASE queue'["order"][i] = u
      BY <1>3, <2>1, <2>4, <3>1
    <3>2. CASE queue'["order"][i] # u
      BY <1>2, <2>1, <2>2, <2>3, <2>4, <3>2
    <3> QED
      BY <3>1, <3>2
  <2> QED
    BY <2>5, <2>6
<1>8. CASE Drop("order")
  <2>1. /\ "order" \in Groups /\ queue["order"] # <<>> /\ worker' = worker
        /\ queue' = [queue EXCEPT !["order"] = Tail(@)] /\ holder["order"] = Nobody
    BY <1>8, DropIs, OrderQueueIs
  <2>2. \A u \in Orders : order'[u].taken = order[u].taken
    BY <1>8, <2>1, DropIs
  <2>3. ASSUME NEW w \in Workers, At(w, "done", "order") PROVE FALSE
    BY <1>4, <2>1, <2>3, ExternalEcAssumption DEF At
  <2>4. \A i \in DOMAIN queue'["order"] :
            /\ i + 1 \in DOMAIN queue["order"] /\ queue'["order"][i] = queue["order"][i + 1]
    BY <2>1, TailTypes
  <2>5. \A i \in DOMAIN queue["order"] :
            queue["order"][i] \in Orders /\ order[queue["order"][i]].taken <= undeleted
    BY <1>2, <2>3, OrderQueueIs
  <2>6. undeleted' = undeleted
    BY <1>8 DEF Drop
  <2> QED
    BY <1>2, <2>2, <2>4, <2>5, <2>6
<1>9. ASSUME NEW w \in Workers, Delete(w)
      PROVE  Bounded' /\ Waiting'
  <2>1. PICK g \in Groups :
           /\ At(w, "done", g)
           /\ worker'[w] = Idle /\ \A v \in Workers \ {w} : worker'[v] = worker[v]
           /\ \A h \in Groups \ {g} : queue'[h] = queue[h]
           /\ holder[g] = w =>
                 \A i \in DOMAIN queue'[g] :
                       i + 1 \in DOMAIN queue[g] /\ queue'[g][i] = queue[g][i + 1]
           /\ order' = order /\ undeleted' = undeleted
    BY <1>9, DeleteSteps
  <2>2. CASE g = "order"
    <3>1. holder["order"] = w
      BY <1>4, <2>1, <2>2 DEF At
    <3>2. ASSUME NEW i \in DOMAIN queue'["order"]
          PROVE  order[queue'["order"][i]].taken <= undeleted
      <4>1. i + 1 \in DOMAIN queue["order"] /\ queue'["order"][i] = queue["order"][i + 1]
        BY <2>1, <2>2, <3>1, <3>2
      <4>2. queue'["order"] \in Seq(Orders)
        <5>1. TypeOK'
          BY <1>9, WorkerTypesStep DEF Handles
        <5> QED
          BY <5>1 DEF TypeOK
      <4>3. i \in Nat \ {0}
        BY <4>2, LenProperties
      <4>4. i + 1 # 1
        BY <4>3
      <4> QED
        BY <1>2, <4>1, <4>4
    <3> QED
      BY <1>2, <2>1, <3>2
  <2>3. CASE g # "order"
    <3>1. queue'["order"] = queue["order"]
      BY <2>1, <2>3, OrderQueueIs
    <3>2. \A v \in Workers : At(v, "done", "order") => At(v, "done", "order")'
      <4>1. ~At(w, "done", "order")
        BY <2>1, <2>3 DEF At, WorksAt
      <4>2. \A v \in Workers \ {w} : At(v, "done", "order") => At(v, "done", "order")'
        BY <2>1 DEF At, WorksAt
      <4> QED
        BY <4>1, <4>2
    <3> QED
      BY <1>2, <2>1, <3>1, <3>2
  <2> QED
    BY <2>2, <2>3
<1>10. ASSUME NEW w \in Workers, NotDeleted(w) PROVE Bounded' /\ Waiting'
  <2>1. undeleted' = undeleted + 1 /\ UNCHANGED <<order, queue>>
    BY <1>10 DEF NotDeleted, queueVars
  <2>2. \A o \in Orders : order[o].taken <= undeleted'
    BY <1>2, <1>3, <2>1
  <2>3. \A i \in DOMAIN queue["order"] : queue["order"][i] \in Orders
    BY OrderQueueIs
  <2> QED
    BY <1>3, <2>1, <2>2, <2>3
<1>11. ASSUME NEW w \in Workers, NEW p \in Products, TakeOrder(w, p)
       PROVE  Bounded' /\ Waiting'
  <2>1. At(w, "work", "order") /\ worker[w] # Idle /\ Done(w) /\ queue' = queue
    BY <1>11, TakeIs DEF queueVars
  <2>2. PICK o \in Orders :
            /\ o = worker[w].message /\ \A u \in Orders \ {o} : order'[u] = order[u]
            /\ order[o].taken \in Nat /\ order'[o].taken = order[o].taken + 1
    BY <1>11, TakeIs
  <2>3. 1 \in DOMAIN queue["order"] /\ queue["order"][1] = o
    BY <1>4, <2>1, <2>2 DEF At
  <2>4. ASSUME NEW v \in Workers, At(v, "done", "order") PROVE FALSE
    <3>1. v = w
      BY <1>5, <2>1, <2>4 DEF At
    <3> QED
      BY <2>1, <2>4, <3>1 DEF At
  <2>5. \A i \in DOMAIN queue["order"] : order[queue["order"][i]].taken <= undeleted
    BY <1>2, <2>4
  <2>6. order'[o].taken <= 1 + undeleted /\ undeleted' = undeleted
    <3>1. undeleted' = undeleted
      BY <1>11 DEF TakeOrder
    <3>2. order[o].taken <= undeleted
      BY <2>3, <2>5
    <3> QED
      BY <1>3, <2>2, <3>1, <3>2
  <2>7. At(w, "done", "order")'
    <3>1. worker'[w].pc = "done" /\ worker'[w] # Idle /\ worker'[w].group = "order"
      BY <2>1, WorkerSteps DEF At, WorksAt
    <3> QED
      BY <3>1 DEF At, WorksAt
  <2>8. ASSUME NEW i \in DOMAIN queue["order"], i # 1
        PROVE  order'[queue["order"][i]].taken <= undeleted
    <3>1. queue["order"][i] \in Orders
      BY OrderQueueIs
    <3>2. queue["order"][i] # o
      BY <2>3, <2>8 DEF OrdersOnce
    <3> QED
      BY <2>2, <2>5, <3>1, <3>2
  <2>9. Bounded'
    BY <1>2, <2>2, <2>6
  <2> QED
    BY <2>1, <2>6, <2>7, <2>8, <2>9
<1>12. ASSUME NEW w \in Workers, NEW p \in Products, RefuseOrder(w, p)
       PROVE  Bounded' /\ Waiting'
  <2>1. At(w, "work", "order") /\ GivesUp(w) /\ queue' = queue
    BY <1>12, RefuseIs DEF queueVars
  <2>2. (\A u \in Orders : order'[u].taken = order[u].taken) /\ undeleted' = undeleted
    BY <1>12, RefuseIs DEF RefuseOrder
  <2>3. \A v \in Workers : At(v, "done", "order") => At(v, "done", "order")'
    <3>1. \A v \in Workers \ {w} : worker'[v] = worker[v]
      BY <2>1, WorkerSteps
    <3>2. ~At(w, "done", "order")
      BY <2>1 DEF At
    <3> QED
      BY <3>1, <3>2 DEF At, WorksAt
  <2> QED
    BY <1>2, <2>1, <2>2, <2>3, OrderQueueIs
<1> QED
  BY <1>6, <1>7, <1>8, <1>9, <1>10, <1>11, <1>12, LoudSteps

LEMMA OpenStep ==
    ASSUME TypeOK, HolderOK, Custody, OrdersOnce, OpenOK, [Next]_vars
    PROVE  OpenOK'
<1> SUFFICES ASSUME ~lost', late' = 0, NEW o \in Orders, Open(o)'
             PROVE  \E i \in DOMAIN queue'["order"] : queue'["order"][i] = o
  BY DEF OpenOK
<1>1. ~lost /\ late = 0
  BY CountsStay
<1>2. ASSUME Open(o) PROVE \E i \in DOMAIN queue["order"] : queue["order"][i] = o
  BY <1>1, <1>2 DEF OpenOK
<1>3. CASE QuietStep
  <2>1. QuietForOrders
    BY <1>3, QuietSteps
  <2>2. Open(o)
    BY <2>1 DEF QuietForOrders, Open
  <2> QED
    BY <1>2, <2>1, <2>2 DEF QuietForOrders
<1>4. ASSUME NEW u \in Orders, NEW p \in Products, Buy(u, p)
      PROVE  \E i \in DOMAIN queue'["order"] : queue'["order"][i] = o
  <2>1. CASE o = u
    <3>1. Len(queue["order"]) + 1 \in DOMAIN queue'["order"]
      BY <1>4, BuyAppends, OrderQueueIs
    <3> QED
      BY <1>4, <2>1, <3>1, BuyAppends
  <2>2. CASE o # u
    <3>0. order'[o] = order[o]
      BY <1>4, <2>2, BuyIs
    <3>1. Open(o)
      BY <3>0 DEF Open
    <3>2. PICK i \in DOMAIN queue["order"] : queue["order"][i] = o
      BY <1>2, <3>1
    <3>3. i \in DOMAIN queue'["order"] /\ queue'["order"][i] = o
      BY <1>4, <3>2, BuyAppends, OrderQueueIs
    <3> QED
      BY <3>3
  <2> QED
    BY <2>1, <2>2
<1>5. CASE Drop("order")
  <2>1. /\ "order" \in Groups /\ queue["order"] # <<>>
        /\ queue' = [queue EXCEPT !["order"] = Tail(@)]
    BY <1>5, DropIs, OrderQueueIs
  <2>2. PICK u \in Orders :
            /\ u = Head(queue["order"]) /\ \A v \in Orders \ {u} : order'[v] = order[v]
            /\ order'[u].status = "dropped"
    BY <1>5, <2>1, DropIs
  <2>3. o # u /\ Open(o)
    BY <2>2 DEF Open
  <2>4. PICK i \in DOMAIN queue["order"] : queue["order"][i] = o
    BY <1>2, <2>3
  <2>5. i # 1
    BY <2>1, <2>2, <2>3, <2>4, HeadIs
  <2>6. i - 1 \in DOMAIN queue'["order"] /\ queue'["order"][i - 1] = queue["order"][(i - 1) + 1]
    BY <2>1, <2>4, <2>5, TailTypes
  <2>7. (i - 1) + 1 = i
    BY <2>4, OrderQueueIs
  <2> QED
    BY <2>4, <2>6, <2>7
<1>6. ASSUME NEW w \in Workers, Delete(w)
      PROVE  \E i \in DOMAIN queue'["order"] : queue'["order"][i] = o
  <2>1. PICK g \in Groups :
           /\ At(w, "done", g) /\ g = worker[w].group /\ worker[w] # Idle
           /\ \A h \in Groups \ {g} : queue'[h] = queue[h]
           /\ holder[g] = w =>
                 /\ \A i \in DOMAIN queue'[g] :
                       i + 1 \in DOMAIN queue[g] /\ queue'[g][i] = queue[g][i + 1]
                 /\ \A i \in DOMAIN queue[g] : i = 1 \/ (i - 1) \in DOMAIN queue'[g]
           /\ order' = order
    BY <1>6, DeleteSteps
  <2>2. Open(o)
    BY <2>1 DEF Open
  <2>3. PICK i \in DOMAIN queue["order"] : queue["order"][i] = o
    BY <1>2, <2>2
  <2>4. CASE g = "order"
    <3>0. worker[w] # Idle /\ worker[w].group = "order"
      BY <2>1, <2>4
    <3>1. holder["order"] = w /\ worker[w].message = queue["order"][1]
      BY <1>1, <3>0 DEF Custody
    <3>2. i # 1
      BY <2>1, <2>2, <2>3, <2>4, <3>1 DEF OrdersOnce, Open
    <3>3. i - 1 \in DOMAIN queue'["order"] /\ queue'["order"][i - 1] = queue["order"][(i - 1) + 1]
      BY <2>1, <2>3, <2>4, <3>1, <3>2
    <3>4. (i - 1) + 1 = i
      BY <2>3, OrderQueueIs
    <3> QED
      BY <2>3, <3>3, <3>4
  <2>5. CASE g # "order"
    BY <2>1, <2>3, <2>5, OrderQueueIs
  <2> QED
    BY <2>4, <2>5
<1>7. ASSUME NEW w \in Workers, NotDeleted(w)
      PROVE  \E i \in DOMAIN queue'["order"] : queue'["order"][i] = o
  <2>1. UNCHANGED <<queue, order>>
    BY <1>7 DEF NotDeleted, queueVars
  <2> QED
    BY <1>2, <2>1 DEF Open
<1>8. ASSUME NEW w \in Workers, NEW p \in Products, TakeOrder(w, p) \/ RefuseOrder(w, p)
      PROVE  \E i \in DOMAIN queue'["order"] : queue'["order"][i] = o
  <2>1. queue' = queue
    BY <1>8, TakeIs, RefuseIs DEF queueVars
  <2>2. PICK u \in Orders :
            /\ \A v \in Orders \ {u} : order'[v] = order[v]
            /\ order'[u].refused \/ (order[u].taken \in Nat /\ order'[u].taken = order[u].taken + 1)
    <3>1. CASE TakeOrder(w, p)
      BY <3>1, TakeIs
    <3>2. CASE RefuseOrder(w, p)
      BY <3>2, RefuseIs
    <3> QED
      BY <1>8, <3>1, <3>2
  <2>3. o # u
    BY <2>2 DEF Open
  <2> QED
    BY <1>2, <2>1, <2>2, <2>3 DEF Open
<1> QED
  BY <1>3, <1>4, <1>5, <1>6, <1>7, <1>8, LoudSteps

-----------------------------------------------------------------------------
(* What the queue was told.                                                *)

\* Unless a message was lost, the rows that are left make of what the queue was told what EC
\* lists.
ListedOK == ~lost => \A p \in Products : SetTo(told, rows)[p] = listed[p]

PushedSoFar == Smaller(From(poller.chunk), Len(poller.batch))

\* The last of the first n rows of what was read that is about p.
LastRead(i, n, p) ==
    /\ i \in 1..n /\ poller.batch[i].product = p
    /\ \A k \in 1..n : k > i => poller.batch[k].product # p

\* As long as no chunk was discarded, what was pushed of what was read has been accepted, and
\* of each product the last number of it is the last that was accepted.
PushedOK ==
    poller.pc = "push" /\ ~poller.discarded =>
        /\ \A i \in 1..PushedSoFar : poller.batch[i].id \in accepted
        /\ \A p \in Products, i \in 1..PushedSoFar :
              LastRead(i, PushedSoFar, p) => told[p] = poller.batch[i].result

LEMMA PushedType ==
    ASSUME TypeOK, poller.pc = "push"
    PROVE  /\ From(poller.chunk) \in Nat /\ PushedSoFar \in 0..Len(poller.batch)
           /\ Len(poller.batch) \in Nat
<1>1. poller.chunk \in Nat \ {0} /\ ChunkSize \in Nat \ {0} /\ Len(poller.batch) \in Nat
  BY RowTypes, ExternalEcAssumption DEF TypeOK, Pollers
<1>2. From(poller.chunk) \in Nat
  BY <1>1 DEF From
<1> QED
  BY <1>1, <1>2 DEF PushedSoFar, Smaller

LEMMA PushedStep ==
    ASSUME TypeOK, PushedOK, [Next]_vars
    PROVE  PushedOK'
<1>1. CASE UNCHANGED outboxVars
  BY <1>1 DEF PushedOK, PushedSoFar, LastRead, From, Smaller, outboxVars
<1>2. CASE Poll
  <2>1. poller'.chunk = 1 /\ Len(poller'.batch) \in Nat
    BY <1>2, RowTypes DEF Poll
  <2>2. From(poller'.chunk) = 0
    BY <2>1, ExternalEcAssumption DEF From
  <2>3. PushedSoFar' = 0
    BY <2>1, <2>2 DEF PushedSoFar, Smaller, From
  <2> QED
    BY <2>3 DEF PushedOK
<1>3. CASE DeleteRows \/ PollerStops
  BY <1>3 DEF DeleteRows, PollerStops, Stopped, PushedOK
<1>4. CASE Discard
  BY <1>4, DiscardIs DEF PushedOK
<1>5. CASE Push
  <2> DEFINE lo == From(poller.chunk)
             hi == To(poller.chunk)
             b == poller.batch
             stock == Body(poller.chunk).stock
  <2>1. /\ lo \in Nat /\ hi \in Nat /\ lo < hi /\ hi <= Len(b)
        /\ hi = Smaller(lo + ChunkSize, Len(b))
        /\ accepted' = accepted \cup {b[i].id : i \in (lo + 1)..hi}
    BY <1>5, PushAccepts
  <2>2. /\ poller.pc = "push" /\ poller.chunk \in Nat \ {0} /\ ChunkRows(poller.chunk) # <<>>
        /\ poller'.batch = b /\ poller'.chunk = poller.chunk + 1
        /\ poller'.discarded = poller.discarded /\ poller'.pc = "push"
        /\ told' = SetTo(told, stock)
    BY <1>5, PushIs
  <2>3. /\ DOMAIN stock = 1..(hi - lo)
        /\ \A i \in 1..(hi - lo) : /\ stock[i].product = b[lo + i].product
                                   /\ stock[i].result = b[lo + i].result
    BY <2>2, BodyIs
  <2>4. PushedSoFar = lo /\ PushedSoFar' = hi
    <3>1. Len(b) \in Nat
      BY RowTypes
    <3>2. PushedSoFar = lo
      BY <2>1, <3>1 DEF PushedSoFar, Smaller
    <3>3. From(poller.chunk + 1) = lo + ChunkSize
      BY <2>2, ExternalEcAssumption DEF From
    <3>4. PushedSoFar' = Smaller(From(poller.chunk + 1), Len(b))
      BY <2>2 DEF PushedSoFar, From, Smaller
    <3> QED
      BY <2>1, <3>2, <3>3, <3>4
  <2> HIDE DEF lo, hi, b, stock
  <2> SUFFICES ASSUME ~poller.discarded
               PROVE  /\ \A i \in 1..hi : b[i].id \in accepted'
                      /\ \A p \in Products, i \in 1..hi :
                            LastRead(i, hi, p) => told'[p] = b[i].result
    <3>2. \A i, n, p : LastRead(i, n, p)' <=> LastRead(i, n, p)
      BY <2>2 DEF LastRead, b
    <3> QED
      BY <2>2, <2>4, <3>2 DEF PushedOK, b
  <2>5. /\ \A i \in 1..lo : b[i].id \in accepted
        /\ \A p \in Products, i \in 1..lo : LastRead(i, lo, p) => told[p] = b[i].result
    BY <2>2, <2>4 DEF PushedOK, b
  <2>6. \A i \in 1..hi : b[i].id \in accepted'
    <3>1. \A i \in 1..hi : i \in 1..lo \/ i \in (lo + 1)..hi
      BY <2>1
    <3> QED
      BY <2>1, <2>5, <3>1
  <2>7. ASSUME NEW p \in Products, NEW i \in 1..hi, LastRead(i, hi, p)
        PROVE  told'[p] = b[i].result
    <3>1. hi - lo \in Nat
      BY <2>1
    <3>2. CASE i \in 1..lo
      <4>1. LastRead(i, lo, p)
        BY <2>1, <2>7, <3>2 DEF LastRead
      <4>2. ~Mentions(stock, p)
        <5> SUFFICES ASSUME NEW k \in 1..(hi - lo) PROVE b[lo + k].product # p
          BY <2>3 DEF Mentions
        <5>1. lo + k \in 1..hi /\ lo + k > i
          BY <2>1, <3>2
        <5> QED
          BY <2>7, <5>1 DEF LastRead, b
      <4> QED
        BY <2>2, <2>3, <2>5, <3>1, <3>2, <4>1, <4>2, SetToIs
    <3>3. CASE i \in (lo + 1)..hi
      <4>1. i - lo \in 1..(hi - lo) /\ lo + (i - lo) = i
        BY <2>1, <3>3
      <4>2. stock[i - lo].product = p /\ stock[i - lo].result = b[i].result
        BY <2>3, <2>7, <4>1 DEF LastRead, b
      <4>3. ASSUME NEW k \in 1..(hi - lo), k > i - lo PROVE stock[k].product # p
        <5>1. lo + k \in 1..hi /\ lo + k > i
          BY <2>1, <3>3, <4>3
        <5> QED
          BY <2>3, <2>7, <5>1 DEF LastRead, b
      <4>4. i - lo \in LastOf(stock, p)
        BY <2>3, <4>1, <4>2, <4>3 DEF LastOf
      <4> QED
        BY <2>2, <2>3, <3>1, <4>2, <4>4, SetToIs
    <3>4. i \in 1..lo \/ i \in (lo + 1)..hi
      BY <2>1
    <3> QED
      BY <3>2, <3>3, <3>4
  <2> QED
    BY <2>6, <2>7
<1>6. ASSUME NEW p \in Products, NEW n \in 0..MaxListed, Change(p, n) PROVE PushedOK'
  BY <1>1, <1>6 DEF Change
<1>7. ASSUME NEW o \in Orders, NEW p \in Products, Buy(o, p) PROVE PushedOK'
  BY <1>1, <1>7 DEF Buy
<1>8. ASSUME NEW g \in Groups, Expire(g) \/ Drop(g) PROVE PushedOK'
  BY <1>1, <1>8 DEF Expire, Drop
<1>9. ASSUME NEW w \in Workers, Handles(w) \/ WorkFails(w) \/ NotDeleted(w) PROVE PushedOK'
  BY <1>1, <1>9 DEF Handles, Receive, UpdateSite, Delete, WorkFails, NotDeleted, TakeOrder, RefuseOrder
<1>10. CASE UNCHANGED vars
  BY <1>1, <1>10 DEF vars, outboxVars
<1> QED
  BY <1>2, <1>3, <1>4, <1>5, <1>6, <1>7, <1>8, <1>9, <1>10 DEF Next, OutboxNext

\* What a push tells the queue of a product.
LEMMA PushTells ==
    ASSUME TypeOK, TableOK, Push, NEW p \in Products
    PROVE  LET stock == Body(poller.chunk).stock IN
           /\ DOMAIN stock = 1..(To(poller.chunk) - From(poller.chunk))
           /\ To(poller.chunk) - From(poller.chunk) \in Nat
           /\ ~Mentions(stock, p) => told'[p] = told[p]
           /\ \A l \in LastOf(stock, p) : stock[l].result = told'[p]
           /\ Mentions(stock, p) => Mentions(rows, p)
           /\ ~Mentions(stock, p) =>
                 \A i \in DOMAIN rows :
                    rows[i].product = p /\ rows[i].id \notin accepted => rows[i].id \notin accepted'
<1> DEFINE lo == From(poller.chunk)
           hi == To(poller.chunk)
           b == poller.batch
           stock == Body(poller.chunk).stock
<1>1. /\ lo \in Nat /\ hi \in Nat /\ lo < hi /\ hi <= Len(b)
      /\ accepted' = accepted \cup {b[i].id : i \in (lo + 1)..hi}
  BY PushAccepts
<1>2. /\ poller.pc = "push" /\ poller.chunk \in Nat \ {0} /\ ChunkRows(poller.chunk) # <<>>
      /\ told' = SetTo(told, stock)
  BY PushIs
<1>3. /\ DOMAIN stock = 1..(hi - lo)
      /\ \A i \in 1..(hi - lo) : stock[i].product = b[lo + i].product
  BY <1>2, BodyIs
<1>4. hi - lo \in Nat /\ Len(b) \in Nat
  BY <1>1, RowTypes
<1>5. Len(rows) \in Nat /\ DOMAIN rows = 1..Len(rows)
  BY RowTypes
<1>6. Len(b) <= Len(rows) /\ \A i \in 1..Len(b) : b[i] = rows[i]
  BY <1>2 DEF TableOK, BatchOK
<1> HIDE DEF lo, hi, b, stock
<1>7. ~Mentions(stock, p) => told'[p] = told[p]
  BY <1>2, <1>3, <1>4, SetToIs
<1>8. \A l \in LastOf(stock, p) : stock[l].result = told'[p]
  BY <1>2, <1>3, <1>4, SetToIs
<1>9. Mentions(stock, p) => Mentions(rows, p)
  <2> SUFFICES ASSUME NEW i \in 1..(hi - lo), stock[i].product = p PROVE Mentions(rows, p)
    BY <1>3 DEF Mentions
  <2>1. lo + i \in 1..Len(b) /\ lo + i \in 1..Len(rows)
    BY <1>1, <1>4, <1>5, <1>6
  <2> QED
    BY <1>3, <1>5, <1>6, <2>1 DEF Mentions
<1>10. ASSUME ~Mentions(stock, p), NEW k \in DOMAIN rows, rows[k].product = p,
              rows[k].id \notin accepted, rows[k].id \in accepted'
       PROVE  FALSE
  <2>1. PICK i \in (lo + 1)..hi : rows[k].id = b[i].id
    BY <1>1, <1>10
  <2>2. i \in 1..Len(b) /\ i \in DOMAIN rows
    BY <1>1, <1>4, <1>5, <1>6
  <2>3. i = k
    BY <1>6, <1>10, <2>1, <2>2 DEF TableOK
  <2>4. i - lo \in 1..(hi - lo) /\ lo + (i - lo) = i
    BY <1>1
  <2>5. stock[i - lo].product = p
    BY <1>3, <1>6, <1>10, <2>2, <2>3, <2>4
  <2> QED
    BY <1>3, <1>10, <2>4, <2>5 DEF Mentions
<1> QED
  BY <1>3, <1>4, <1>7, <1>8, <1>9, <1>10 DEF lo, hi, b, stock

\* A deletion that loses nothing: the queue has accepted what is deleted, and the last numbers
\* last.
LEMMA DeleteRowsIs ==
    ASSUME TypeOK, PushedOK, DeleteRows, ~lost'
    PROVE  /\ \A i \in 1..Len(poller.batch) : poller.batch[i].id \in accepted
           /\ \A p \in Products : SetTo(told, poller.batch)[p] = told[p]
<1>1. poller.pc = "push" /\ ~Pushing /\ (~poller.discarded \/ IsTold)
  BY DEF DeleteRows, Pollers, TypeOK
<1>2. Len(poller.batch) \in Nat /\ DOMAIN poller.batch = 1..Len(poller.batch)
  BY RowTypes
<1>3. CASE IsTold
  BY <1>2, <1>3 DEF IsTold
<1>4. CASE ~poller.discarded
  <2> DEFINE lo == From(poller.chunk)
             hi == To(poller.chunk)
             n == Len(poller.batch)
  <2>1. poller.chunk \in Nat \ {0} /\ ChunkSize \in Nat \ {0} /\ lo \in Nat
    BY <1>1, PushedType, ExternalEcAssumption DEF TypeOK, Pollers
  <2>2. poller.chunk * ChunkSize = lo + ChunkSize /\ poller.chunk * ChunkSize \in Nat
    BY <2>1 DEF From
  <2>3. SubSeq(poller.batch, lo + 1, hi) = <<>>
    BY <1>1 DEF Pushing, ChunkRows, From, To, Smaller
  <2>4. hi \in Nat /\ hi <= n /\ (hi = lo + ChunkSize \/ hi = n)
    BY <1>2, <2>1, <2>2 DEF To, Smaller
  <2>5. hi < lo + 1
    <3> SUFFICES ASSUME ~(hi < lo + 1) PROVE FALSE
      OBVIOUS
    <3>1. \A i \in (lo + 1)..hi : poller.batch[i] \in Rows
      BY <2>1, <2>4, RowTypes
    <3> HIDE DEF lo, hi
    <3>2. Len(SubSeq(poller.batch, lo + 1, hi)) = hi - (lo + 1) + 1
      BY <2>1, <2>4, <3>1, SubSeqProperties
    <3>3. Len(SubSeq(poller.batch, lo + 1, hi)) = 0
      BY <2>3, EmptySeq
    <3> QED
      BY <2>1, <2>4, <3>2, <3>3
  <2>6. PushedSoFar = n
    <3>1. n <= lo
      BY <2>1, <2>4, <2>5
    <3> QED
      BY <1>2, <2>1, <3>1 DEF PushedSoFar, Smaller
  <2>7. /\ \A i \in 1..n : poller.batch[i].id \in accepted
        /\ \A p \in Products, i \in 1..n : LastRead(i, n, p) => told[p] = poller.batch[i].result
    BY <1>1, <1>4, <2>6 DEF PushedOK
  <2>8. ASSUME NEW p \in Products PROVE SetTo(told, poller.batch)[p] = told[p]
    <3>1. CASE Mentions(poller.batch, p)
      <4>1. PICK i \in LastOf(poller.batch, p) : TRUE
        BY <1>2, <3>1, LastOfOne
      <4>2. i \in 1..n /\ LastRead(i, n, p)
        BY <1>2, <4>1 DEF LastOf, LastRead
      <4> QED
        BY <1>2, <2>7, <4>1, <4>2, SetToIs
    <3>2. CASE ~Mentions(poller.batch, p)
      BY <1>2, <3>2, SetToIs
    <3> QED
      BY <3>1, <3>2
  <2> QED
    BY <2>7, <2>8
<1> QED
  BY <1>1, <1>3, <1>4

\* A list that is one number longer.
LEMMA SetToLonger ==
    ASSUME NEW stock, NEW n \in Nat, DOMAIN stock = 1..(n + 1),
           NEW first, DOMAIN first = 1..n, \A i \in 1..n : first[i] = stock[i],
           NEW p \in Products, NEW shown
    PROVE  SetTo(shown, stock)[p] =
               IF stock[n + 1].product = p THEN stock[n + 1].result ELSE SetTo(shown, first)[p]
<1>1. n + 1 \in Nat
  OBVIOUS
<1>2. CASE stock[n + 1].product = p
  <2>1. n + 1 \in LastOf(stock, p)
    BY <1>2 DEF LastOf
  <2> QED
    BY <1>1, <1>2, <2>1, SetToIs
<1>3. CASE stock[n + 1].product # p
  <2>1. LastOf(stock, p) = LastOf(first, p)
    <3>1. \A i \in 1..(n + 1) : i \in 1..n \/ i = n + 1
      OBVIOUS
    <3>2. \A i : i \in LastOf(stock, p) => i \in LastOf(first, p)
      BY <1>3, <3>1 DEF LastOf
    <3>3. \A i : i \in LastOf(first, p) => i \in LastOf(stock, p)
      BY <1>3, <3>1 DEF LastOf
    <3> QED
      BY <3>2, <3>3
  <2>2. CASE Mentions(first, p)
    <3>1. PICK i \in LastOf(first, p) : TRUE
      BY <2>2, LastOfOne
    <3>2. stock[i] = first[i]
      BY <3>1 DEF LastOf
    <3>3. SetTo(shown, stock)[p] = stock[i].result
      BY <1>1, <2>1, <3>1, SetToIs
    <3>4. SetTo(shown, first)[p] = first[i].result
      BY <3>1, SetToIs
    <3> QED
      BY <1>3, <3>2, <3>3, <3>4
  <2>3. CASE ~Mentions(first, p)
    <3>1. ~Mentions(stock, p)
      BY <1>1, <2>1, <2>3, LastOfOne
    <3> QED
      BY <1>1, <1>3, <2>3, <3>1, SetToIs
  <2> QED
    BY <2>2, <2>3
<1> QED
  BY <1>2, <1>3

LEMMA ListedBySetListed ==
    ASSUME TypeOK, ListedOK, NEW p \in Products, NEW n \in Nat, SetListed(p, n),
           UNCHANGED <<outboxVars, lost>>
    PROVE  ListedOK'
<1> SUFFICES ASSUME ~lost, NEW q \in Products PROVE SetTo(told, rows')[q] = listed'[q]
  BY DEF ListedOK, outboxVars, SetTo
<1>1. SetTo(told, rows)[q] = listed[q]
  BY DEF ListedOK
<1>2. /\ listed' = [listed EXCEPT ![p] = n]
      /\ DOMAIN rows' = 1..(Len(rows) + 1) /\ \A i \in 1..Len(rows) : rows'[i] = rows[i]
      /\ rows'[Len(rows) + 1].product = p /\ rows'[Len(rows) + 1].result = n
  BY SetListedTypes
<1>3. Len(rows) \in Nat /\ DOMAIN rows = 1..Len(rows)
  BY RowTypes
<1>4. PICK r : r = rows'
  OBVIOUS
<1>5. /\ DOMAIN r = 1..(Len(rows) + 1) /\ \A i \in 1..Len(rows) : rows[i] = r[i]
      /\ r[Len(rows) + 1].product = p /\ r[Len(rows) + 1].result = n
  BY <1>2, <1>4
<1>6. SetTo(told, r)[q] =
          IF r[Len(rows) + 1].product = q THEN r[Len(rows) + 1].result ELSE SetTo(told, rows)[q]
  BY <1>3, <1>5, SetToLonger
<1>7. listed'[q] = IF p = q THEN n ELSE listed[q]
  BY <1>2 DEF TypeOK
<1> QED
  BY <1>1, <1>4, <1>5, <1>6, <1>7

LEMMA ListedStep ==
    ASSUME TypeOK, TableOK, PushedOK, ListedOK, [Next]_vars
    PROVE  ListedOK'
<1>1. ~lost' => ~lost
  BY CountsStay
<1>2. CASE UNCHANGED <<listed, rows, told>>
  BY <1>1, <1>2 DEF ListedOK
<1>3. CASE Push
  <2> SUFFICES ASSUME ~lost, NEW p \in Products PROVE SetTo(told', rows)[p] = listed[p]
    <3>1. UNCHANGED <<lost, rows, listed>>
      BY <1>3, PushIs DEF productVars
    <3> QED
      BY <3>1 DEF ListedOK
  <2>1. SetTo(told, rows)[p] = listed[p]
    BY DEF ListedOK
  <2>2. Mentions(rows, p) \/ told'[p] = told[p]
    BY <1>3, PushTells
  <2>3. Len(rows) \in Nat /\ DOMAIN rows = 1..Len(rows)
    BY RowTypes
  <2>4. PICK t : t = told'
    OBVIOUS
  <2>5. SetTo(t, rows)[p] = SetTo(told, rows)[p]
    BY <2>2, <2>3, <2>4, SetToSame
  <2> QED
    BY <2>1, <2>4, <2>5
<1>4. CASE DeleteRows
  <2> SUFFICES ASSUME ~lost', NEW p \in Products PROVE SetTo(told, Remaining)[p] = listed[p]
    BY <1>4 DEF ListedOK, DeleteRows
  <2> DEFINE b == poller.batch
             n == Len(rows)
             m == Len(b)
  <2>1. SetTo(told, rows)[p] = listed[p]
    BY <1>1 DEF ListedOK
  <2>2. SetTo(told, b)[p] = told[p]
    BY <1>4, DeleteRowsIs
  <2>3. /\ n \in Nat /\ DOMAIN rows = 1..n /\ m \in Nat /\ DOMAIN b = 1..m
        /\ m <= n /\ \A i \in 1..m : b[i] = rows[i]
    BY <1>4, RowTypes DEF TableOK, BatchOK, DeleteRows
  <2>4. DOMAIN Remaining = 1..(n - m) /\ \A i \in 1..(n - m) : Remaining[i] = rows[m + i]
    BY <2>3, RemainingIs
  <2>5. m \in 0..n /\ n - m \in Nat
    BY <2>3
  <2> HIDE DEF b, n, m
  <2>6. PICK r : r = Remaining
    OBVIOUS
  <2>7. SetTo(told, rows)[p] = SetTo(SetTo(told, b), r)[p]
    <3>1. PICK l \in Nat : l = n - m
      BY <2>5
    <3>2. DOMAIN r = 1..l /\ \A i \in 1..l : r[i] = rows[m + i]
      BY <2>4, <2>6, <3>1
    <3>3. m \in Nat /\ DOMAIN rows = 1..(m + l) /\ DOMAIN b = 1..m
      BY <2>3, <3>1
    <3>4. \A i \in 1..m : b[i] = rows[i]
      BY <2>3
    <3> QED
      BY <3>2, <3>3, <3>4, SetToParts
  <2>8. SetTo(SetTo(told, b), r)[p] = SetTo(told, r)[p]
    BY <2>2, <2>4, <2>5, <2>6, SetToSame
  <2> QED
    BY <2>1, <2>6, <2>7, <2>8
<1>5. ASSUME NEW p \in Products, NEW n \in 0..MaxListed, Change(p, n) PROVE ListedOK'
  BY <1>5, ExternalEcAssumption, ListedBySetListed DEF Change
<1>6. ASSUME NEW w \in Workers, NEW p \in Products, TakeOrder(w, p) PROVE ListedOK'
  <2>1. listed[p] - 1 \in Nat /\ SetListed(p, listed[p] - 1) /\ UNCHANGED <<outboxVars, lost>>
    BY <1>6, TakeIs
  <2> QED
    BY <2>1, ListedBySetListed
<1>7. CASE Poll \/ Discard \/ PollerStops \/ UNCHANGED vars
  BY <1>2, <1>7 DEF Poll, Discard, PollerStops, vars, productVars
<1>8. ASSUME NEW g \in Groups, Expire(g) \/ Drop(g) PROVE ListedOK'
  BY <1>2, <1>8 DEF Expire, Drop, productVars, outboxVars
<1>9. ASSUME NEW o \in Orders, NEW p \in Products, Buy(o, p) PROVE ListedOK'
  BY <1>2, <1>9 DEF Buy, productVars, outboxVars
<1>10. ASSUME NEW w \in Workers,
              \/ \E g \in Groups : Receive(w, g)
              \/ UpdateSite(w) \/ Delete(w) \/ WorkFails(w) \/ NotDeleted(w)
              \/ \E p \in Products : RefuseOrder(w, p)
       PROVE  ListedOK'
  BY <1>2, <1>10 DEF Receive, UpdateSite, Delete, WorkFails, NotDeleted, RefuseOrder, productVars, outboxVars
<1> QED
  BY <1>3, <1>4, <1>5, <1>6, <1>7, <1>8, <1>9, <1>10 DEF Next, Handles, OutboxNext

-----------------------------------------------------------------------------
(* What is on its way to the shop.                                         *)

InMessage(i, p) == i \in DOMAIN queue["stock"] /\ Mentions(queue["stock"][i].stock, p)

\* The last message about a product says what the queue was told last.
LastMessageOK ==
    \A p \in Products, i \in DOMAIN queue["stock"] :
        InMessage(i, p) /\ (\A k \in DOMAIN queue["stock"] : k > i => ~InMessage(k, p)) =>
            \A l \in LastOf(queue["stock"][i].stock, p) :
                queue["stock"][i].stock[l].result = told[p]

LEMMA StockQueueIs ==
    ASSUME TypeOK
    PROVE  /\ "stock" \in Groups /\ "order" \in Groups \ {"stock"}
           /\ Len(queue["stock"]) \in Nat /\ DOMAIN queue["stock"] = 1..Len(queue["stock"])
           /\ \A i \in DOMAIN queue["stock"] :
                 /\ queue["stock"][i] \in Bodies
                 /\ Len(queue["stock"][i].stock) \in Nat
                 /\ DOMAIN queue["stock"][i].stock = 1..Len(queue["stock"][i].stock)
<1>1. /\ "stock" \in Groups /\ "order" \in Groups \ {"stock"}
      /\ Len(queue["stock"]) \in Nat /\ DOMAIN queue["stock"] = 1..Len(queue["stock"])
      /\ \A i \in DOMAIN queue["stock"] : queue["stock"][i] \in Bodies
  BY ElementOfSeq, LenProperties DEF TypeOK, Groups
<1>2. \A m \in Bodies : Len(m.stock) \in Nat /\ DOMAIN m.stock = 1..Len(m.stock)
  BY LenProperties DEF Bodies
<1> QED
  BY <1>1, <1>2

\* What a push does to the messages.
LEMMA StockPush ==
    ASSUME TypeOK, Push
    PROVE  LET n == Len(queue["stock"]) IN
           /\ DOMAIN queue'["stock"] = 1..(n + 1)
           /\ \A i \in 1..n : queue'["stock"][i] = queue["stock"][i]
           /\ queue'["stock"][n + 1] = Body(poller.chunk)
           /\ queue'["order"] = queue["order"]
           /\ UNCHANGED <<productVars, lost, holder, worker, site, order, late, undeleted>>
<1> DEFINE b == Body(poller.chunk)
<1>1. /\ b \in Bodies /\ queue' = [queue EXCEPT !["stock"] = Append(@, b)]
      /\ UNCHANGED <<productVars, lost, holder, worker, site, order, late, undeleted>>
  BY PushIs
<1> HIDE DEF b
<1>2. "stock" \in Groups /\ "order" \in Groups \ {"stock"}
  BY StockQueueIs
<1>3. /\ DOMAIN queue'["stock"] = 1..(Len(queue["stock"]) + 1)
      /\ \A i \in 1..Len(queue["stock"]) : queue'["stock"][i] = queue["stock"][i]
      /\ queue'["stock"][Len(queue["stock"]) + 1] = b
      /\ queue'["order"] = queue["order"]
  BY <1>1, <1>2, AppendIs
<1> QED
  BY <1>1, <1>3 DEF b

\* Only the queue's own steps, pushes and deletions change the messages.
LEMMA StockStays ==
    ASSUME TypeOK, HolderOK, [Next]_vars, ~Push, ~Drop("stock"),
           \A w \in Workers : ~(Delete(w) /\ At(w, "done", "stock") /\ holder["stock"] = w)
    PROVE  queue'["stock"] = queue["stock"] /\ told' = told
<1>1. CASE UNCHANGED <<queue, told>>
  BY <1>1
<1>2. ASSUME NEW o \in Orders, NEW p \in Products, Buy(o, p)
      PROVE  queue'["stock"] = queue["stock"] /\ told' = told
  BY <1>2, BuyIs DEF outboxVars
<1>3. CASE Drop("order")
  <2>1. "order" \in Groups /\ "stock" \in Groups \ {"order"}
    BY DEF Groups
  <2>2. /\ queue["order"] # <<>> /\ queue' = [queue EXCEPT !["order"] = Tail(@)]
        /\ told' = told
    BY <1>3, <2>1, DropIs DEF outboxVars
  <2> QED
    BY <2>1, <2>2, TailTypes
<1>4. ASSUME NEW w \in Workers, Delete(w)
      PROVE  queue'["stock"] = queue["stock"] /\ told' = told
  <2>1. PICK g \in Groups :
           /\ At(w, "done", g) /\ \A h \in Groups \ {g} : queue'[h] = queue[h]
           /\ holder[g] # w => queue' = queue
           /\ UNCHANGED outboxVars
    BY <1>4, DeleteSteps
  <2>2. g = "stock" => holder[g] # w
    BY <1>4, <2>1
  <2> QED
    BY <2>1, <2>2, StockQueueIs DEF outboxVars
<1>5. ASSUME NEW w \in Workers, Handles(w) \/ WorkFails(w) \/ NotDeleted(w), ~Delete(w)
      PROVE  UNCHANGED <<queue, told>>
  BY <1>5 DEF Handles, Receive, UpdateSite, WorkFails, NotDeleted, TakeOrder, RefuseOrder, queueVars,
              outboxVars
<1>6. CASE Poll \/ Discard \/ DeleteRows \/ PollerStops \/ UNCHANGED vars
  BY <1>6 DEF Poll, Discard, DeleteRows, PollerStops, vars, queueVars
<1>7. ASSUME NEW g \in Groups, Expire(g) PROVE UNCHANGED <<queue, told>>
  BY <1>7 DEF Expire, outboxVars
<1>8. ASSUME NEW p \in Products, NEW n \in 0..MaxListed, Change(p, n)
      PROVE  UNCHANGED <<queue, told>>
  BY <1>8 DEF Change, queueVars, outboxVars
<1>9. Groups = {"stock", "order"}
  BY DEF Groups
<1> QED
  BY <1>1, <1>2, <1>3, <1>4, <1>5, <1>6, <1>7, <1>8, <1>9 DEF Next, OutboxNext

\* The first message goes.
FirstGoes ==
    /\ queue["stock"] # <<>> /\ told' = told
    /\ \A i \in DOMAIN queue'["stock"] :
          i + 1 \in DOMAIN queue["stock"] /\ queue'["stock"][i] = queue["stock"][i + 1]
    /\ \A i \in DOMAIN queue["stock"] : i = 1 \/ (i - 1) \in DOMAIN queue'["stock"]

LEMMA FirstGoesSteps ==
    ASSUME TypeOK, HolderOK,
           \/ Drop("stock")
           \/ \E w \in Workers : Delete(w) /\ At(w, "done", "stock") /\ holder["stock"] = w
    PROVE  FirstGoes
<1>1. "stock" \in Groups
  BY DEF Groups
<1>2. CASE Drop("stock")
  <2>1. /\ queue["stock"] # <<>> /\ queue' = [queue EXCEPT !["stock"] = Tail(@)]
        /\ told' = told
    BY <1>1, <1>2, DropIs DEF outboxVars
  <2> QED
    BY <1>1, <2>1, TailTypes DEF FirstGoes
<1>3. ASSUME NEW w \in Workers, Delete(w), At(w, "done", "stock"), holder["stock"] = w
      PROVE  FirstGoes
  <2>1. PICK g \in Groups :
           /\ g = worker[w].group
           /\ holder[g] = w =>
                 /\ queue[g] # <<>>
                 /\ \A i \in DOMAIN queue'[g] :
                       i + 1 \in DOMAIN queue[g] /\ queue'[g][i] = queue[g][i + 1]
                 /\ \A i \in DOMAIN queue[g] : i = 1 \/ (i - 1) \in DOMAIN queue'[g]
           /\ UNCHANGED outboxVars
    BY <1>3, DeleteSteps
  <2>2. g = "stock"
    BY <1>3, <2>1 DEF At, WorksAt
  <2> QED
    BY <1>3, <2>1, <2>2 DEF FirstGoes, outboxVars
<1> QED
  BY <1>2, <1>3

LEMMA LastMessageStep ==
    ASSUME TypeOK, HolderOK, TableOK, LastMessageOK, [Next]_vars
    PROVE  LastMessageOK'
<1>1. CASE queue'["stock"] = queue["stock"] /\ told' = told
  BY <1>1 DEF LastMessageOK, InMessage
<1>2. CASE Push
  <2>0. PICK n \in Nat : n = Len(queue["stock"])
    BY StockQueueIs
  <2>1. /\ DOMAIN queue'["stock"] = 1..(n + 1)
        /\ \A i \in 1..n : queue'["stock"][i] = queue["stock"][i]
        /\ queue'["stock"][n + 1] = Body(poller.chunk)
    BY <1>2, <2>0, StockPush
  <2>2. n \in Nat /\ DOMAIN queue["stock"] = 1..n
    BY <2>0, StockQueueIs
  <2> SUFFICES ASSUME NEW p \in Products, NEW i \in DOMAIN queue'["stock"], InMessage(i, p)',
                      \A k \in DOMAIN queue'["stock"] : k > i => ~InMessage(k, p)',
                      NEW l \in LastOf(queue'["stock"][i].stock, p)
               PROVE  queue'["stock"][i].stock[l].result = told'[p]
    BY DEF LastMessageOK
  <2>3. i \in 1..n \/ i = n + 1
    BY <2>1, <2>2
  <2>4. CASE i = n + 1
    BY <1>2, <2>1, <2>4, PushTells
  <2>5. CASE i \in 1..n
    <3>0. PICK k \in DOMAIN queue'["stock"] : k = n + 1
      BY <2>1, <2>2
    <3>1. ~InMessage(k, p)'
      BY <2>2, <2>5, <3>0
    <3>2. ~Mentions(Body(poller.chunk).stock, p)
      BY <2>1, <3>0, <3>1 DEF InMessage
    <3>3. told'[p] = told[p]
      BY <1>2, <3>2, PushTells
    <3>4. InMessage(i, p)
      BY <2>1, <2>2, <2>5 DEF InMessage
    <3>5. \A m \in 1..n : m > i => ~InMessage(m, p)
      <4>1. \A m \in 1..n : m \in DOMAIN queue'["stock"]
        BY <2>1, <2>2
      <4> QED
        BY <2>1, <4>1 DEF InMessage
    <3> QED
      BY <2>1, <2>2, <2>5, <3>3, <3>4, <3>5 DEF LastMessageOK
  <2> QED
    BY <2>3, <2>4, <2>5
<1>3. CASE FirstGoes
  <2> SUFFICES ASSUME NEW p \in Products, NEW i \in DOMAIN queue'["stock"], InMessage(i, p)',
                      \A k \in DOMAIN queue'["stock"] : k > i => ~InMessage(k, p)',
                      NEW l \in LastOf(queue'["stock"][i].stock, p)
               PROVE  queue'["stock"][i].stock[l].result = told'[p]
    BY DEF LastMessageOK
  <2>1. i + 1 \in DOMAIN queue["stock"] /\ queue'["stock"][i] = queue["stock"][i + 1]
        /\ told' = told
    BY <1>3 DEF FirstGoes
  <2>2. InMessage(i + 1, p)
    BY <2>1 DEF InMessage
  <2>3. i \in Int
    <3>1. TypeOK'
      BY TypeStep DEF TableOK
    <3>2. queue'["stock"] \in Seq(Bodies)
      BY <3>1 DEF TypeOK
    <3> QED
      BY <3>2, LenProperties
  <2>4. ASSUME NEW k \in DOMAIN queue["stock"], k > i + 1 PROVE ~InMessage(k, p)
    <3>1. k \in Nat
      BY StockQueueIs
    <3>2. k - 1 \in DOMAIN queue'["stock"]
      BY <1>3, <2>3, <2>1, <2>4, <3>1, StockQueueIs DEF FirstGoes
    <3>3. k - 1 > i /\ (k - 1) + 1 = k
      BY <2>3, <2>4, <3>1
    <3>4. ~InMessage(k - 1, p)'
      BY <3>2, <3>3
    <3>5. queue'["stock"][k - 1] = queue["stock"][k]
      BY <1>3, <3>2, <3>3 DEF FirstGoes
    <3> QED
      BY <3>2, <3>4, <3>5 DEF InMessage
  <2> QED
    BY <2>1, <2>2, <2>4 DEF LastMessageOK
<1> QED
  BY <1>1, <1>2, <1>3, StockStays, FirstGoesSteps

-----------------------------------------------------------------------------
(* What the shop shows.                                                    *)

\* The shop shows what the queue was told last, or less if something about the product is
\* still to come: an order of the shop, or a row that the queue has not accepted.
Near(p) ==
    /\ site[p] <= told[p]
    /\ \/ site[p] = told[p]
       \/ told[p] # listed[p]
       \/ \E o \in Orders : Open(o) /\ order[o].product = p
       \/ \E i \in DOMAIN rows : rows[i].product = p /\ rows[i].id \notin accepted

SiteIsSet == \E w \in Workers : At(w, "done", "stock")

\* A message will still set the shop's number of the product.
Pending(p) == \E i \in DOMAIN queue["stock"] : InMessage(i, p) /\ ~(i = 1 /\ SiteIsSet)

NearOK == ~lost /\ late = 0 => \A p \in Products : ~Pending(p) => Near(p)

\* A change of the product writes a row that the queue has not accepted.
LEMMA NearBySetListed ==
    ASSUME TypeOK, TableOK, NEW q \in Products, NEW n \in Nat, SetListed(q, n),
           UNCHANGED <<outboxVars, site>>, NEW p \in Products, Near(p),
           q # p => \A o \in Orders : Open(o) /\ order[o].product = p =>
                                          Open(o)' /\ order'[o].product = p
    PROVE  Near(p)'
<1>1. /\ listed' = [listed EXCEPT ![q] = n]
      /\ DOMAIN rows' = 1..(Len(rows) + 1) /\ \A i \in 1..Len(rows) : rows'[i] = rows[i]
      /\ rows'[Len(rows) + 1].product = q /\ rows'[Len(rows) + 1].id = changes + 1
  BY SetListedTypes
<1>2. Len(rows) \in Nat /\ DOMAIN rows = 1..Len(rows)
  BY RowTypes
<1>3. told' = told /\ accepted' = accepted
  BY DEF outboxVars
<1>4. CASE q = p
  <2>1. changes + 1 \notin accepted
    BY DEF TableOK, TypeOK
  <2>2. Len(rows) + 1 \in DOMAIN rows'
    BY <1>1, <1>2
  <2>3. \E i \in DOMAIN rows' : rows'[i].product = p /\ rows'[i].id \notin accepted'
    BY <1>1, <1>3, <1>4, <2>1, <2>2
  <2> QED
    BY <1>3, <2>3 DEF Near
<1>5. CASE q # p
  <2>1. listed'[p] = listed[p]
    BY <1>1, <1>5 DEF TypeOK
  <2>2. (\E i \in DOMAIN rows : rows[i].product = p /\ rows[i].id \notin accepted) =>
            \E i \in DOMAIN rows' : rows'[i].product = p /\ rows'[i].id \notin accepted'
    <3> SUFFICES ASSUME NEW i \in 1..Len(rows), rows[i].product = p, rows[i].id \notin accepted
                 PROVE  \E k \in DOMAIN rows' : rows'[k].product = p /\ rows'[k].id \notin accepted'
      BY <1>2
    <3>1. i \in DOMAIN rows' /\ rows'[i] = rows[i]
      BY <1>1, <1>2
    <3> QED
      BY <1>3, <3>1
  <2>3. (\E o \in Orders : Open(o) /\ order[o].product = p) =>
            \E o \in Orders : Open(o)' /\ order'[o].product = p
    BY <1>5
  <2> QED
    BY <1>3, <2>1, <2>2, <2>3 DEF Near
<1> QED
  BY <1>4, <1>5

\* Nothing changes but what the service has read, who has which message, and the queue.
LEMMA NearStays ==
    ASSUME NEW p \in Products, Near(p), UNCHANGED <<site, told, listed, rows, accepted, order>>
    PROVE  Near(p)'
BY DEF Near, Open

LEMMA NearByPush ==
    ASSUME TypeOK, TableOK, Push, NEW p \in Products, Near(p),
           ~Mentions(Body(poller.chunk).stock, p)
    PROVE  Near(p)'
<1>1. UNCHANGED <<listed, rows, site, order>>
  BY PushIs DEF productVars
<1>2. /\ told'[p] = told[p]
      /\ \A i \in DOMAIN rows :
            rows[i].product = p /\ rows[i].id \notin accepted => rows[i].id \notin accepted'
  BY PushTells
<1> QED
  BY <1>1, <1>2 DEF Near, Open

LEMMA NearByDeleteRows ==
    ASSUME TypeOK, TableOK, PushedOK, DeleteRows, ~lost', NEW p \in Products, Near(p)
    PROVE  Near(p)'
<1>1. UNCHANGED <<listed, site, order, told>> /\ rows' = Remaining /\ accepted' = {}
  BY DEF DeleteRows
<1>2. \A i \in 1..Len(poller.batch) : poller.batch[i].id \in accepted
  BY DeleteRowsIs
<1>3. /\ Len(rows) \in Nat /\ DOMAIN rows = 1..Len(rows) /\ Len(poller.batch) \in Nat
      /\ Len(poller.batch) <= Len(rows)
      /\ \A i \in 1..Len(poller.batch) : poller.batch[i] = rows[i]
  BY RowTypes DEF TableOK, BatchOK, DeleteRows
<1>4. ASSUME NEW i \in DOMAIN rows, rows[i].product = p, rows[i].id \notin accepted
      PROVE  \E k \in DOMAIN rows' : rows'[k].product = p /\ rows'[k].id \notin accepted'
  <2> DEFINE m == Len(poller.batch)
             k == i - m
  <2>1. i \notin 1..m
    BY <1>2, <1>3, <1>4
  <2>2. k \in 1..(Len(rows) - m) /\ m + k = i
    <3>1. i \in 1..Len(rows) /\ m \in Nat /\ Len(rows) \in Nat
      BY <1>3
    <3> HIDE DEF m
    <3> QED
      BY <2>1, <3>1
  <2>3. k \in DOMAIN rows' /\ rows'[k] = rows[m + k]
    <3> HIDE DEF k
    <3> QED
      BY <1>1, <1>3, <2>2, RemainingIs
  <2> QED
    BY <1>1, <1>4, <2>2, <2>3
<1> QED
  BY <1>1, <1>4 DEF Near, Open

LEMMA NearByBuy ==
    ASSUME TypeOK, NEW o \in Orders, NEW q \in Products, Buy(o, q), NEW p \in Products, Near(p)
    PROVE  Near(p)'
<1>1. /\ order[o].status = "none" /\ site[q] \in Nat \ {0} /\ site' = [site EXCEPT ![q] = @ - 1]
      /\ \A u \in Orders \ {o} : order'[u] = order[u]
      /\ UNCHANGED <<told, listed, rows, accepted>>
  BY BuyIs DEF productVars, outboxVars
<1>2. order'[o] = [status |-> "placed", product |-> q, taken |-> 0, refused |-> FALSE]
  BY BuyIs
<1>3. Open(o)' /\ order'[o].product = q
  BY <1>2 DEF Open
<1>4. \A u \in Orders : Open(u) /\ order[u].product = p => Open(u)' /\ order'[u].product = p
  BY <1>1 DEF Open
<1>5. site[p] \in Nat /\ told[p] \in Nat
  BY DEF TypeOK
<1>6. CASE q = p
  <2>1. site'[p] = site[p] - 1
    BY <1>1, <1>6 DEF TypeOK
  <2>2. site'[p] <= told'[p]
    BY <1>1, <1>5, <2>1 DEF Near
  <2> QED
    BY <1>3, <1>6, <2>2 DEF Near
<1>7. CASE q # p
  <2>1. site'[p] = site[p]
    BY <1>1, <1>7 DEF TypeOK
  <2> QED
    BY <1>1, <1>4, <2>1 DEF Near
<1> QED
  BY <1>6, <1>7

LEMMA NearByDrop ==
    ASSUME TypeOK, Drop("order"), ~lost', NEW p \in Products, Near(p)
    PROVE  Near(p)'
<1>1. "order" \in Groups
  BY DEF Groups
<1>2. UNCHANGED <<site, told, listed, rows, accepted>>
  BY <1>1, DropIs DEF productVars, outboxVars
<1>3. PICK o \in Orders : /\ \A u \in Orders \ {o} : order'[u] = order[u]
                          /\ lost' = (lost \/ (order[o].taken = 0 /\ ~order[o].refused))
  BY <1>1, DropIs
<1>4. \A u \in Orders : Open(u) => u # o
  BY <1>3 DEF Open
<1>5. \A u \in Orders : Open(u) /\ order[u].product = p => Open(u)' /\ order'[u].product = p
  BY <1>3, <1>4 DEF Open
<1> QED
  BY <1>2, <1>5 DEF Near

\* An order is refused when EC lists nothing, and then the shop shows no more.
LEMMA NearByRefuse ==
    ASSUME TypeOK, NEW w \in Workers, NEW q \in Products, RefuseOrder(w, q), NEW p \in Products,
           Near(p)
    PROVE  Near(p)'
<1>1. listed[q] = 0 /\ UNCHANGED <<site, told, listed, rows, accepted>>
  BY RefuseIs DEF productVars, outboxVars
<1>2. PICK o \in Orders : (\A u \in Orders \ {o} : order'[u] = order[u]) /\ order[o].product = q
  BY RefuseIs
<1>3. CASE q = p
  <2>1. site[p] \in Nat /\ told[p] \in Nat /\ site[p] <= told[p]
    BY DEF TypeOK, Near
  <2>2. site[p] = told[p] \/ told[p] # listed[p]
    BY <1>1, <1>3, <2>1
  <2> QED
    BY <1>1, <2>1, <2>2 DEF Near
<1>4. CASE q # p
  <2>1. \A u \in Orders : Open(u) /\ order[u].product = p => Open(u)' /\ order'[u].product = p
    BY <1>2, <1>4 DEF Open
  <2> QED
    BY <1>1, <2>1 DEF Near
<1> QED
  BY <1>3, <1>4

LEMMA NearByTake ==
    ASSUME TypeOK, TableOK, NEW w \in Workers, NEW q \in Products, TakeOrder(w, q),
           NEW p \in Products, Near(p)
    PROVE  Near(p)'
<1>1. /\ listed[q] - 1 \in Nat /\ SetListed(q, listed[q] - 1)
      /\ UNCHANGED <<outboxVars, site>>
  BY TakeIs
<1>2. PICK o \in Orders :
          /\ o = worker[w].message /\ DOMAIN order' = Orders
          /\ \A u \in Orders \ {o} : order'[u] = order[u]
          /\ order[o].status # "none" /\ order[o].product = q
  BY TakeIs
<1>3. q # p => \A u \in Orders : Open(u) /\ order[u].product = p =>
                                     Open(u)' /\ order'[u].product = p
  BY <1>2 DEF Open
<1> QED
  BY <1>1, <1>3, NearBySetListed

\* The request sets the numbers of the message's products to the last ones that the queue was
\* told, unless a later message is about them.
LEMMA NearByUpdate ==
    ASSUME TypeOK, Custody, LastMessageOK, late = 0, NEW w \in Workers, UpdateSite(w),
           NEW p \in Products, ~Pending(p) => Near(p), ~Pending(p)'
    PROVE  Near(p)'
<1>1. /\ worker[w] # Idle /\ worker[w].group = "stock" /\ worker[w].pc = "work" /\ Done(w)
      /\ site' = SetTo(site, worker[w].message.stock)
      /\ UNCHANGED <<queue, order, told, listed, rows, accepted>>
  BY DEF UpdateSite, At, WorksAt, queueVars, productVars, outboxVars
<1>2. 1 \in DOMAIN queue["stock"] /\ worker[w].message = queue["stock"][1]
  BY <1>1 DEF Custody
<1>3. PICK stock : stock = queue["stock"][1].stock
  OBVIOUS
<1>4. PICK n \in Nat : n = Len(stock) /\ DOMAIN stock = 1..n
  BY <1>2, <1>3, StockQueueIs
<1>5. site' = SetTo(site, stock)
  BY <1>1, <1>2, <1>3
<1>6. \A i \in DOMAIN queue["stock"] : InMessage(i, p)' <=> InMessage(i, p)
  BY <1>1 DEF InMessage
<1>7. \A i \in DOMAIN queue["stock"] : InMessage(i, p) => i = 1
  BY <1>1, <1>6 DEF Pending
<1>8. CASE Mentions(stock, p)
  <2>1. PICK l \in LastOf(stock, p) : TRUE
    BY <1>4, <1>8, LastOfOne
  <2>2. InMessage(1, p)
    BY <1>2, <1>3, <1>8 DEF InMessage
  <2>3. stock[l].result = told[p]
    <3>1. \A k \in DOMAIN queue["stock"] : k > 1 => ~InMessage(k, p)
      BY <1>7, StockQueueIs
    <3> QED
      BY <1>2, <1>3, <2>1, <2>2, <3>1 DEF LastMessageOK
  <2>4. site'[p] = told[p]
    BY <1>4, <1>5, <2>1, <2>3, SetToIs
  <2> QED
    BY <1>1, <2>4 DEF Near, TypeOK
<1>9. CASE ~Mentions(stock, p)
  <2>1. ~InMessage(1, p)
    BY <1>3, <1>9 DEF InMessage
  <2>2. Near(p)
    BY <1>7, <2>1 DEF Pending
  <2>3. site'[p] = site[p]
    BY <1>4, <1>5, <1>9, SetToIs
  <2> QED
    BY <1>1, <2>2, <2>3 DEF Near, Open
<1> QED
  BY <1>8, <1>9

\* As long as the messages stay and no worker gets done, what is pending stays so.
LEMMA PendingStays ==
    ASSUME NEW p \in Products, queue'["stock"] = queue["stock"], SiteIsSet' => SiteIsSet,
           ~Pending(p)'
    PROVE  ~Pending(p)
BY DEF Pending, InMessage

\* A worker that is not done leaves, or one that is done with an order comes.
LEMMA SiteIsSetStays ==
    ASSUME TypeOK, NEW w \in Workers,
           GivesUp(w) \/ (worker[w] # Idle /\ worker[w].group = "order" /\ Done(w))
    PROVE  SiteIsSet' => SiteIsSet
<1>1. /\ \A v \in Workers \ {w} : worker'[v] = worker[v]
      /\ worker'[w] = Idle \/ worker'[w].group = "order"
  BY WorkerSteps
<1>2. ~At(w, "done", "stock")'
  BY <1>1 DEF At, WorksAt
<1>3. \A v \in Workers \ {w} : At(v, "done", "stock")' => At(v, "done", "stock")
  BY <1>1 DEF At, WorksAt
<1> QED
  BY <1>2, <1>3 DEF SiteIsSet

\* The first message of the queue goes when the worker that deletes it is done with it.
LEMMA PendingByDelete ==
    ASSUME TypeOK, HolderOK, Custody, late = 0, NEW w \in Workers, Delete(w),
           NEW p \in Products, ~Pending(p)'
    PROVE  ~Pending(p)
<1>1. CASE At(w, "done", "stock")
  <2>1. holder["stock"] = w
    BY <1>1 DEF Custody, At, WorksAt
  <2>2. FirstGoes
    BY <1>1, <2>1, FirstGoesSteps
  <2>3. SiteIsSet
    BY <1>1 DEF SiteIsSet
  <2>4. worker'[w] = Idle /\ \A v \in Workers \ {w} : worker'[v] = worker[v]
    BY DeleteIs, WorkerSteps
  <2>5. ~SiteIsSet'
    <3>1. \A v \in Workers \ {w} : ~At(v, "done", "stock")
      BY <2>1 DEF Custody, At, WorksAt
    <3>2. \A v \in Workers \ {w} : ~At(v, "done", "stock")'
      BY <2>4, <3>1 DEF At, WorksAt
    <3>3. ~At(w, "done", "stock")'
      BY <2>4 DEF At, WorksAt
    <3> QED
      BY <3>2, <3>3 DEF SiteIsSet
  <2>6. ASSUME NEW i \in DOMAIN queue["stock"], InMessage(i, p), i # 1 PROVE FALSE
    <3>1. i \in Nat /\ (i - 1) + 1 = i
      BY StockQueueIs
    <3>2. PICK k \in DOMAIN queue'["stock"] : k = i - 1
      BY <2>2, <2>6 DEF FirstGoes
    <3>3. queue'["stock"][k] = queue["stock"][i]
      BY <2>2, <3>1, <3>2 DEF FirstGoes
    <3>4. InMessage(k, p)'
      BY <2>6, <3>2, <3>3 DEF InMessage
    <3> QED
      BY <2>5, <3>2, <3>4 DEF Pending
  <2> QED
    BY <2>3, <2>6 DEF Pending
<1>2. CASE ~At(w, "done", "stock")
  <2>1. PICK g \in Groups :
           /\ At(w, "done", g) /\ \A h \in Groups \ {g} : queue'[h] = queue[h]
    BY DeleteSteps
  <2>2. queue'["stock"] = queue["stock"]
    BY <1>2, <2>1, StockQueueIs
  <2>3. SiteIsSet' => SiteIsSet
    BY DeleteIs, SiteIsSetStays
  <2> QED
    BY <2>2, <2>3, PendingStays
<1> QED
  BY <1>1, <1>2

LEMMA NearStep ==
    ASSUME TypeOK, HolderOK, TableOK, Custody, PushedOK, LastMessageOK, NearOK, [Next]_vars
    PROVE  NearOK'
<1> SUFFICES ASSUME ~lost', late' = 0, NEW p \in Products, ~Pending(p)' PROVE Near(p)'
  BY DEF NearOK
<1>1. ~lost /\ late = 0
  BY CountsStay
<1>2. ~Pending(p) => Near(p)
  BY <1>1 DEF NearOK
<1>3. ASSUME queue'["stock"] = queue["stock"], SiteIsSet' => SiteIsSet PROVE Near(p)
  BY <1>2, <1>3, PendingStays
<1>4. ASSUME NEW q \in Products, NEW n \in 0..MaxListed, Change(q, n) PROVE Near(p)'
  <2>1. /\ n \in Nat /\ SetListed(q, n)
        /\ UNCHANGED <<queue, worker, site, order>> /\ UNCHANGED outboxVars
    BY <1>4, ExternalEcAssumption DEF Change, queueVars
  <2>2. Near(p)
    BY <1>3, <2>1 DEF SiteIsSet, At, WorksAt
  <2>3. \A o \in Orders : Open(o) /\ order[o].product = p => Open(o)' /\ order'[o].product = p
    BY <2>1 DEF Open
  <2> QED
    BY <2>1, <2>2, <2>3, NearBySetListed
<1>5. ASSUME NEW o \in Orders, NEW q \in Products, Buy(o, q) PROVE Near(p)'
  <2>1. queue'["stock"] = queue["stock"] /\ worker' = worker
    BY <1>5, BuyIs
  <2>2. Near(p)
    BY <1>3, <2>1 DEF SiteIsSet, At, WorksAt
  <2> QED
    BY <1>5, <2>2, NearByBuy
<1>6. CASE Push
  <2>0. PICK n \in Nat : n = Len(queue["stock"])
    BY StockQueueIs
  <2>1. /\ DOMAIN queue'["stock"] = 1..(n + 1)
        /\ \A i \in 1..n : queue'["stock"][i] = queue["stock"][i]
        /\ queue'["stock"][n + 1] = Body(poller.chunk)
        /\ worker' = worker
    BY <1>6, <2>0, StockPush
  <2>2. DOMAIN queue["stock"] = 1..n /\ \A i \in 1..n : i \in 1..(n + 1)
    BY <2>0, StockQueueIs
  <2>3. SiteIsSet' <=> SiteIsSet
    BY <2>1 DEF SiteIsSet, At, WorksAt
  <2>4. ~Pending(p)
    <3> SUFFICES ASSUME NEW i \in 1..n, InMessage(i, p), ~(i = 1 /\ SiteIsSet) PROVE FALSE
      BY <2>2 DEF Pending
    <3>1. i \in DOMAIN queue'["stock"] /\ InMessage(i, p)'
      BY <2>1, <2>2 DEF InMessage
    <3> QED
      BY <2>3, <3>1 DEF Pending
  <2>5. ~Mentions(Body(poller.chunk).stock, p)
    <3>1. SUFFICES ASSUME Mentions(Body(poller.chunk).stock, p) PROVE FALSE
      OBVIOUS
    <3>2. PICK k \in DOMAIN queue'["stock"] : k = n + 1
      BY <2>1
    <3>3. InMessage(k, p)'
      BY <2>1, <3>1, <3>2 DEF InMessage
    <3>4. k = 1 /\ SiteIsSet
      BY <2>3, <3>3 DEF Pending
    <3>5. PICK w \in Workers : At(w, "done", "stock")
      BY <3>4 DEF SiteIsSet
    <3>6. 1 \in DOMAIN queue["stock"]
      BY <1>1, <3>5 DEF Custody, At, WorksAt
    <3> QED
      BY <2>2, <3>2, <3>4, <3>6
  <2> QED
    BY <1>2, <1>6, <2>4, <2>5, NearByPush
<1>7. CASE DeleteRows
  <2>1. UNCHANGED <<queue, worker>>
    BY <1>7 DEF DeleteRows, queueVars
  <2>2. Near(p)
    BY <1>3, <2>1 DEF SiteIsSet, At, WorksAt
  <2> QED
    BY <1>7, <2>2, NearByDeleteRows
<1>8. CASE UNCHANGED <<queue, worker, site, told, listed, rows, accepted, order>>
  <2>1. Near(p)
    BY <1>3, <1>8 DEF SiteIsSet, At, WorksAt
  <2> QED
    BY <1>8, <2>1, NearStays
<1>9. CASE Poll \/ Discard \/ PollerStops \/ UNCHANGED vars \/ \E g \in Groups : Expire(g)
  BY <1>8, <1>9 DEF Poll, Discard, PollerStops, Expire, vars, queueVars, productVars, outboxVars
<1>10. ASSUME NEW g \in Groups, Drop(g) PROVE Near(p)'
  <2>1. g = "order"
    <3>1. ~(g = "stock")
      BY <1>10, DropIs
    <3> QED
      BY <3>1 DEF Groups
  <2>2. queue'["stock"] = queue["stock"] /\ worker' = worker
    <3>1. "stock" \in Groups \ {g}
      BY <2>1 DEF Groups
    <3>2. /\ queue[g] # <<>> /\ queue' = [queue EXCEPT ![g] = Tail(@)] /\ worker' = worker
      BY <1>10, DropIs
    <3> QED
      BY <3>1, <3>2, TailTypes
  <2>3. Near(p)
    BY <1>3, <2>2 DEF SiteIsSet, At, WorksAt
  <2> QED
    BY <1>10, <2>1, <2>3, NearByDrop
<1>11. ASSUME NEW w \in Workers, NEW g \in Groups, Receive(w, g) PROVE Near(p)'
  <2>1. /\ \A v \in Workers \ {w} : worker'[v] = worker[v]
        /\ worker'[w] = [pc |-> "work", group |-> g, message |-> Head(queue[g])]
        /\ UNCHANGED <<queue, site, told, listed, rows, accepted, order>>
    BY <1>11, ReceiveIs DEF productVars, outboxVars
  <2>2. ~At(w, "done", "stock")'
    BY <2>1 DEF At, WorksAt
  <2>3. \A v \in Workers \ {w} : At(v, "done", "stock")' => At(v, "done", "stock")
    BY <2>1 DEF At, WorksAt
  <2>4. Near(p)
    BY <1>3, <2>1, <2>2, <2>3 DEF SiteIsSet
  <2> QED
    BY <2>1, <2>4, NearStays
<1>12. ASSUME NEW w \in Workers, UpdateSite(w) PROVE Near(p)'
  BY <1>1, <1>2, <1>12, NearByUpdate
<1>13. ASSUME NEW w \in Workers, Delete(w) PROVE Near(p)'
  <2>1. Near(p)
    BY <1>1, <1>2, <1>13, PendingByDelete
  <2>2. UNCHANGED <<site, told, listed, rows, accepted, order>>
    BY <1>13 DEF Delete, productVars, outboxVars
  <2> QED
    BY <2>1, <2>2, NearStays
<1>14. ASSUME NEW w \in Workers, WorkFails(w) \/ NotDeleted(w) PROVE Near(p)'
  <2>1. GivesUp(w) /\ UNCHANGED <<queue, site, told, listed, rows, accepted, order>>
    BY <1>14 DEF WorkFails, NotDeleted, queueVars, productVars, outboxVars
  <2>2. Near(p)
    BY <1>3, <2>1, SiteIsSetStays
  <2> QED
    BY <2>1, <2>2, NearStays
<1>15. ASSUME NEW w \in Workers, NEW q \in Products, TakeOrder(w, q) PROVE Near(p)'
  <2>1. worker[w] # Idle /\ worker[w].group = "order" /\ Done(w) /\ queue' = queue
    BY <1>15, TakeIs DEF At, WorksAt, queueVars
  <2>2. Near(p)
    BY <1>3, <2>1, SiteIsSetStays
  <2> QED
    BY <1>15, <2>2, NearByTake
<1>16. ASSUME NEW w \in Workers, NEW q \in Products, RefuseOrder(w, q) PROVE Near(p)'
  <2>1. GivesUp(w) /\ queue' = queue
    BY <1>16, RefuseIs DEF queueVars
  <2>2. Near(p)
    BY <1>3, <2>1, SiteIsSetStays
  <2> QED
    BY <1>16, <2>2, NearByRefuse
<1> QED
  BY <1>4, <1>5, <1>6, <1>7, <1>9, <1>10, <1>11, <1>12, <1>13, <1>14, <1>15, <1>16
  DEF Next, OutboxNext, Handles

-----------------------------------------------------------------------------
(* The theorems.                                                           *)

QueueInv == TypeOK /\ TableOK /\ HolderOK /\ Custody /\ OrdersOnce
ShopInv == PushedOK /\ ListedOK /\ LastMessageOK /\ OpenOK /\ NearOK

LEMMA InitInv == Init => QueueInv /\ TakenOnce /\ ShopInv
<1> SUFFICES ASSUME Init PROVE QueueInv /\ TakenOnce /\ ShopInv
  OBVIOUS
<1>1. TypeOK
  BY InitTypes
<1>2. /\ rows = <<>> /\ accepted = {} /\ poller.pc = "stopped"
      /\ queue["stock"] = <<>> /\ queue["order"] = <<>> /\ told = listed /\ site = listed
      /\ \A w \in Workers : worker[w] = Idle
      /\ \A g \in Groups : holder[g] = Nobody
      /\ \A o \in Orders : order[o].taken = 0 /\ order[o].status = "none"
  BY DEF Init, Stopped, Groups
<1>3. TableOK /\ HolderOK
  BY <1>2 DEF TableOK, BatchOK, HolderOK
<1>4. Custody /\ OrdersOnce /\ TakenOnce
  <2>1. undeleted = 0 /\ DOMAIN queue["order"] = {}
    BY <1>2 DEF Init
  <2> QED
    BY <1>2, <2>1 DEF Custody, OrdersOnce, TakenOnce, At, WorksAt
<1>5. PushedOK /\ LastMessageOK
  BY <1>2 DEF PushedOK, LastMessageOK, InMessage
<1>6. OpenOK
  BY <1>2 DEF OpenOK, Open
<1>7. NearOK
  BY <1>1, <1>2 DEF NearOK, Near, TypeOK
<1>8. ListedOK
  BY <1>2 DEF ListedOK, SetTo, LastOf
<1> QED
  BY <1>1, <1>3, <1>4, <1>5, <1>6, <1>7, <1>8 DEF QueueInv, ShopInv

LEMMA QueueStep == QueueInv /\ [Next]_vars => QueueInv'
BY TypeStep, TableStep, HolderStep, CustodyStep, OrdersOnceStep DEF QueueInv, TableOK

\* Types: what the shop shows and what EC lists are never less than nothing, and the messages
\* that the workers have are those of their groups.
THEOREM TypesHold == Spec => []TypeOK
<1>1. QueueInv => TypeOK
  BY DEF QueueInv
<1> QED
  BY <1>1, InitInv, QueueStep, PTL DEF Spec

\* An order of the shop takes a second unit only when its message was handled and not deleted,
\* and one more each time, if no message comes back early: the transaction of an order and
\* the deletion of its message are two steps, and the second may fail (ochanokoOrder,
\* shopifyOrder, subscribe).
THEOREM OrdersTakeAgainOnlyUndeleted == Spec => []UndeletedIsTakenAgain
<1> DEFINE Inv == QueueInv /\ TakenOnce
<1>1. Init => Inv
  BY InitInv
<1>2. Inv /\ [Next]_vars => Inv'
  BY QueueStep, TakenOnceStep DEF QueueInv
<1>3. Inv => UndeletedIsTakenAgain
  BY DEF TakenOnce, UndeletedIsTakenAgain
<1> QED
  BY <1>1, <1>2, <1>3, PTL DEF Spec

\* The shop shows what EC lists once everything is handled, whatever fails, is restarted,
\* repeated or crosses an order on its way: of the outbox service, the queue and its workers.
THEOREM ShopFollowsStock == Spec => []ShopInStep
<1> DEFINE Inv == QueueInv /\ ShopInv
<1>1. Init => Inv
  BY InitInv
<1>2. Inv /\ [Next]_vars => Inv'
  BY QueueStep, PushedStep, ListedStep, LastMessageStep, OpenStep, NearStep
  DEF QueueInv, ShopInv
<1>3. Inv => ShopInStep
  <2> SUFFICES ASSUME Inv, Settled, ~lost, late = 0 PROVE site = listed
    BY DEF ShopInStep
  <2>1. rows = <<>> /\ queue["stock"] = <<>> /\ queue["order"] = <<>>
    BY DEF Settled, Groups
  <2>2. ASSUME NEW p \in Products PROVE site[p] = listed[p]
    <3>1. told[p] = listed[p]
      BY <2>1 DEF ShopInv, ListedOK, SetTo, LastOf
    <3>2. ~Pending(p)
      BY <2>1 DEF Pending
    <3>3. Near(p)
      BY <3>2 DEF ShopInv, NearOK
    <3>4. \A o \in Orders : ~Open(o)
      BY <2>1 DEF ShopInv, OpenOK
    <3> QED
      BY <2>1, <3>1, <3>3, <3>4 DEF Near
  <2> QED
    BY <2>2 DEF QueueInv, TypeOK
<1> QED
  BY <1>1, <1>2, <1>3, PTL DEF Spec
=============================================================================
