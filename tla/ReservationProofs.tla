------------------------- MODULE ReservationProofs --------------------------
(***************************************************************************)
(* Proofs about Reservation, for any receptions, counts, limits, requests  *)
(* and bounds: its types and, as long as no step slips, that the store     *)
(* holds a deposit exactly for what is promised or was fetched and kept,   *)
(* promises no more than its limits, and keeps what is paid for.           *)
(***************************************************************************)
EXTENDS Reservation, FiniteSetTheorems, TLAPS

-----------------------------------------------------------------------------
(* Sums over finite sets.  SumFunctionOnSet adds the numbers in an order   *)
(* that CHOOSE decides; SumProperties says that the order is no matter.    *)

\* A family of subsets of a finite set has them all if it has each set that it has without
\* any one of its elements: a smallest one that it lacks would be a contradiction.
LEMMA FamilyInduction ==
    ASSUME NEW D, IsFiniteSet(D), NEW F,
           \A s \in SUBSET D : (\A x \in s : s \ {x} \in F) => s \in F
    PROVE  \A s \in SUBSET D : s \in F
<1> SUFFICES ASSUME NEW u \in SUBSET D, u \notin F
             PROVE  FALSE
  OBVIOUS
<1> DEFINE T == {n \in Nat : \E s \in SUBSET D : s \notin F /\ Cardinality(s) = n}
<1>1. \A s \in SUBSET D : IsFiniteSet(s) /\ Cardinality(s) \in Nat
  BY FS_Subset, FS_CardinalityType
<1>2. T \subseteq Nat /\ T # {}
  BY <1>1
<1>3. PICK m \in T : \A n \in T : ~(<<n, m>> \in OpToRel(<, Nat))
  <2> HIDE DEF T
  <2> QED
    BY <1>2, NatLessThanWellFounded, WFMin
<1>4. PICK s \in SUBSET D : s \notin F /\ Cardinality(s) = m
  BY <1>3
<1>5. PICK x \in s : s \ {x} \notin F
  BY <1>4
<1>6. Cardinality(s \ {x}) = m - 1 /\ s \ {x} \in SUBSET D
  BY <1>1, <1>4, <1>5, FS_RemoveElement
<1>7. m \in Nat /\ m - 1 \in T
  <2>1. Cardinality(s \ {x}) \in Nat
    BY <1>1, <1>6
  <2>2. Cardinality(s \ {x}) \in T
    BY <1>5, <1>6, <2>1
  <2>3. m \in Nat
    BY <1>3
  <2> HIDE DEF T
  <2> QED
    BY <1>6, <2>2, <2>3
<1>8. m - 1 \in Nat /\ <<m - 1, m>> \in OpToRel(<, Nat)
  BY <1>7 DEF OpToRel
<1> QED
  BY <1>3, <1>7, <1>8

\* G gives the sum of every subset of D, whatever is taken out first.
IsSumOf(G, w, D) ==
    /\ G \in [SUBSET D -> Int]
    /\ G[{}] = 0
    /\ \A s \in SUBSET D : \A x \in s : G[s] = w[x] + G[s \ {x}]

\* The recursion that SumFunctionOnSet stands for.
Step(w, S, f) == [s \in SUBSET S |->
    IF s = {} THEN 0 ELSE w[CHOOSE x \in s : TRUE] + f[s \ {CHOOSE x \in s : TRUE}]]

LEMMA SumIter ==
    ASSUME NEW w, NEW S
    PROVE  SumFunctionOnSet(w, S) = (CHOOSE f : f = Step(w, S, f))[S]
BY DEF SumFunctionOnSet, FoldFunctionOnSet, MapThenFoldSet, Step

\* There is such a G: an element more is a summand more for the sets that have it.
LEMMA SumExists ==
    ASSUME NEW D, IsFiniteSet(D), NEW w \in [D -> Int]
    PROVE  \E G : IsSumOf(G, w, D)
<1> DEFINE F == {s \in SUBSET D : \E G : IsSumOf(G, w, s)}
<1>1. {} \in F
  <2>1. IsSumOf([s \in SUBSET {} |-> 0], w, {})
    BY DEF IsSumOf
  <2> QED
    BY <2>1
<1>2. ASSUME NEW E \in F, NEW a \in D \ E
      PROVE  E \cup {a} \in F
  <2>1. PICK G : IsSumOf(G, w, E)
    OBVIOUS
  <2> DEFINE H == [s \in SUBSET (E \cup {a}) |-> IF a \in s THEN w[a] + G[s \ {a}] ELSE G[s]]
  <2>2. ASSUME NEW s \in SUBSET (E \cup {a})
        PROVE  /\ a \in s => s \ {a} \in SUBSET E /\ H[s] = w[a] + G[s \ {a}]
               /\ a \notin s => s \in SUBSET E /\ H[s] = G[s]
               /\ H[s] \in Int
    <3>1. a \in s => s \ {a} \in SUBSET E
      OBVIOUS
    <3>2. a \notin s => s \in SUBSET E
      OBVIOUS
    <3>3. w[a] \in Int
      OBVIOUS
    <3> QED
      BY <2>1, <3>1, <3>2, <3>3 DEF IsSumOf
  <2>3. H \in [SUBSET (E \cup {a}) -> Int]
    BY <2>2
  <2>4. H[{}] = 0
    BY <2>1, <2>2 DEF IsSumOf
  <2> HIDE DEF H
  <2>5. ASSUME NEW s \in SUBSET (E \cup {a}), NEW x \in s
        PROVE  H[s] = w[x] + H[s \ {x}]
    <3>0. s \ {x} \in SUBSET (E \cup {a}) /\ w[x] \in Int /\ w[a] \in Int
      OBVIOUS
    <3>1. CASE x = a
      <4>1. a \notin s \ {x}
        BY <3>1
      <4> QED
        BY <2>2, <3>0, <3>1, <4>1
    <3>2. CASE x # a /\ a \in s
      <4>1. a \in s \ {x} /\ x \in s \ {a} /\ (s \ {x}) \ {a} = (s \ {a}) \ {x}
        BY <3>2
      <4>2. H[s] = w[a] + G[s \ {a}] /\ s \ {a} \in SUBSET E
        BY <2>2, <3>2
      <4>3. H[s \ {x}] = w[a] + G[(s \ {x}) \ {a}]
        BY <2>2, <3>0, <4>1
      <4>4. G[s \ {a}] = w[x] + G[(s \ {a}) \ {x}]
        BY <2>1, <4>1, <4>2 DEF IsSumOf
      <4>5. (s \ {a}) \ {x} \in SUBSET E /\ G[(s \ {a}) \ {x}] \in Int
        BY <2>1, <4>2 DEF IsSumOf
      <4>6. PICK i \in Int : i = G[(s \ {a}) \ {x}]
        BY <4>5
      <4>7. H[s] = w[a] + (w[x] + i)
        BY <4>2, <4>4, <4>6
      <4>8. H[s \ {x}] = w[a] + i
        BY <4>1, <4>3, <4>6
      <4> QED
        BY <3>0, <4>7, <4>8
    <3>3. CASE a \notin s
      <4>1. a \notin s \ {x}
        BY <3>3
      <4>2. H[s] = G[s] /\ H[s \ {x}] = G[s \ {x}] /\ s \in SUBSET E
        BY <2>2, <3>0, <3>3, <4>1
      <4> QED
        BY <2>1, <4>2 DEF IsSumOf
    <3> QED
      BY <3>1, <3>2, <3>3
  <2>6. IsSumOf(H, w, E \cup {a})
    BY <2>3, <2>4, <2>5 DEF IsSumOf
  <2> QED
    BY <2>6
<1> QED
  <2> HIDE DEF F
  <2>1. ASSUME NEW s \in SUBSET D, \A x \in s : s \ {x} \in F
        PROVE  s \in F
    <3>1. CASE s = {}
      BY <1>1, <3>1
    <3>2. CASE s # {}
      <4>1. PICK a \in s : TRUE
        BY <3>2
      <4>2. s \ {a} \in F /\ a \in D \ (s \ {a}) /\ (s \ {a}) \cup {a} = s
        BY <2>1, <4>1
      <4> QED
        BY <1>2, <4>2
    <3> QED
      BY <3>1, <3>2
  <2>2. \A s \in SUBSET D : s \in F
    BY <2>1, FamilyInduction
  <2> QED
    BY <2>2 DEF F

\* And SumFunctionOnSet is nothing else.
LEMMA SumIs ==
    ASSUME NEW D, IsFiniteSet(D), NEW w, NEW G, IsSumOf(G, w, D), NEW S \in SUBSET D
    PROVE  SumFunctionOnSet(w, S) = G[S]
<1> DEFINE g == [s \in SUBSET S |-> G[s]]
<1>1. g = Step(w, S, g)
  <2>1. ASSUME NEW s \in SUBSET S, s # {}
        PROVE  g[s] = w[CHOOSE x \in s : TRUE] + g[s \ {CHOOSE x \in s : TRUE}]
    <3>1. PICK y : y = CHOOSE x \in s : TRUE
      OBVIOUS
    <3>2. y \in s
      BY <2>1, <3>1
    <3>3. G[s] = w[y] + G[s \ {y}] /\ s \ {y} \in SUBSET S
      BY <3>2 DEF IsSumOf
    <3> QED
      BY <3>1, <3>3
  <2>2. g[{}] = 0
    BY DEF IsSumOf
  <2> HIDE DEF g
  <2>3. \A s \in SUBSET S : g[s] = IF s = {} THEN 0
                        ELSE w[CHOOSE x \in s : TRUE] + g[s \ {CHOOSE x \in s : TRUE}]
    BY <2>1, <2>2
  <2>4. g = [s \in SUBSET S |-> g[s]]
    BY DEF g
  <2> QED
    BY <2>3, <2>4 DEF Step
<1>2. PICK f : f = CHOOSE h : h = Step(w, S, h)
  OBVIOUS
<1>3. f = Step(w, S, f)
  BY <1>1, <1>2
<1> DEFINE F == {s \in SUBSET S : f[s] = G[s]}
<1>4. ASSUME NEW s \in SUBSET S, \A x \in s : s \ {x} \in F
      PROVE  s \in F
  <2>1. CASE s = {}
    BY <1>3, <2>1 DEF Step, IsSumOf
  <2>2. CASE s # {}
    <3>1. PICK y : y = CHOOSE x \in s : TRUE
      OBVIOUS
    <3>2. y \in s
      BY <2>2, <3>1
    <3>3. f[s] = w[y] + f[s \ {y}]
      BY <1>3, <2>2, <3>1 DEF Step
    <3>4. G[s] = w[y] + G[s \ {y}]
      BY <3>2 DEF IsSumOf
    <3> QED
      BY <1>4, <3>2, <3>3, <3>4
  <2> QED
    BY <2>1, <2>2
<1>5. S \in F
  <2>1. IsFiniteSet(S)
    BY FS_Subset
  <2> HIDE DEF F
  <2> QED
    BY <1>4, <2>1, FamilyInduction
<1> QED
  BY <1>2, <1>5, SumIter

\* A sum is an integer, of nothing 0, and any of its summands can be taken out of it.
LEMMA SumProperties ==
    ASSUME NEW D, IsFiniteSet(D), NEW w \in [D -> Int]
    PROVE  /\ SumFunctionOnSet(w, {}) = 0
           /\ \A S \in SUBSET D : SumFunctionOnSet(w, S) \in Int
           /\ \A S \in SUBSET D : \A x \in S :
                 SumFunctionOnSet(w, S) = w[x] + SumFunctionOnSet(w, S \ {x})
<1>1. PICK G : IsSumOf(G, w, D)
  BY SumExists
<1>2. \A S \in SUBSET D : SumFunctionOnSet(w, S) = G[S]
  BY <1>1, SumIs
<1>3. \A S \in SUBSET D : \A x \in S : S \ {x} \in SUBSET D
  OBVIOUS
<1> QED
  BY <1>1, <1>2, <1>3 DEF IsSumOf

\* A sum of natural numbers grows with its set.
LEMMA SumGrows ==
    ASSUME NEW D, IsFiniteSet(D), NEW w \in [D -> Nat], NEW S \in SUBSET D
    PROVE  /\ SumFunctionOnSet(w, S) \in Nat
           /\ \A T \in SUBSET S : SumFunctionOnSet(w, T) <= SumFunctionOnSet(w, S)
<1> DEFINE F == {s \in SUBSET D : /\ SumFunctionOnSet(w, s) \in Nat
                                  /\ \A t \in SUBSET s : SumFunctionOnSet(w, t) <= SumFunctionOnSet(w, s)}
<1>0. w \in [D -> Int]
  OBVIOUS
<1>1. ASSUME NEW s \in SUBSET D, \A x \in s : s \ {x} \in F
      PROVE  s \in F
  <2>1. CASE s = {}
    <3>1. SumFunctionOnSet(w, {}) = 0
      BY <1>0, SumProperties
    <3>2. \A t \in SUBSET s : t = {}
      BY <2>1
    <3> QED
      BY <2>1, <3>1, <3>2
  <2>2. ASSUME NEW x \in s
        PROVE  /\ SumFunctionOnSet(w, s) \in Nat
               /\ SumFunctionOnSet(w, s \ {x}) <= SumFunctionOnSet(w, s)
    <3>1. SumFunctionOnSet(w, s) = w[x] + SumFunctionOnSet(w, s \ {x}) /\ w[x] \in Nat
      BY <1>0, SumProperties
    <3>2. SumFunctionOnSet(w, s \ {x}) \in Nat
      BY <1>1
    <3> QED
      BY <3>1, <3>2
  <2>3. ASSUME NEW t \in SUBSET s, t # s
        PROVE  SumFunctionOnSet(w, t) <= SumFunctionOnSet(w, s)
    <3>1. PICK x \in s : t \in SUBSET (s \ {x})
      BY <2>3
    <3>2. s \ {x} \in F
      BY <1>1
    <3>3. /\ SumFunctionOnSet(w, t) <= SumFunctionOnSet(w, s \ {x})
          /\ SumFunctionOnSet(w, s \ {x}) \in Nat
      BY <3>1, <3>2
    <3>4. SumFunctionOnSet(w, t) \in Int
      BY <1>0, SumProperties
    <3> QED
      BY <2>2, <3>3, <3>4
  <2>4. s # {} => SumFunctionOnSet(w, s) \in Nat
    BY <2>2
  <2>5. s # {} => \A t \in SUBSET s : SumFunctionOnSet(w, t) <= SumFunctionOnSet(w, s)
    BY <2>3, <2>4
  <2> QED
    BY <2>1, <2>4, <2>5
<1>2. \A s \in SUBSET D : s \in F
  <2> HIDE DEF F
  <2> QED
    BY <1>1, FamilyInduction
<1> QED
  BY <1>2

-----------------------------------------------------------------------------
(* The inductive invariant.                                                *)

\* Only an employee and another sale are at no reception, only a customer who fetches
\* has told the worker.
PlacesOK ==
    \A q \in Requests :
        /\ request[q].op \in Operations \ {"put", "sell"} => Of(q) \in Receptions
        /\ request[q].pc = "told" => request[q].op = "receive"

\* A reception that is being made is nobody else's, one that is being given back was paid.
StagesOK ==
    \A q \in Requests :
        /\ request[q].op = "reserve" =>
              reception[Of(q)] = "none" /\ \A p \in Requests : Of(p) = Of(q) => p = q
        /\ request[q].op \in {"cancel", "return", "return_deposit"} =>
              reception[Of(q)] \in {"DEPOSITED", "RECEIVED", "CANCELLED"}

\* The row of a reception that is being fetched is locked by one request.
LockOK ==
    \A q \in Requests : request[q].pc = "told" =>
        /\ reception[Of(q)] = "DEPOSITED"
        /\ \A p \in Requests : request[p].pc = "told" /\ Of(p) = Of(q) => p = q

\* What a request that gives a deposit back has read.
SeenOK ==
    /\ seen = [q \in Requests |-> seen[q]]
    /\ \A q \in Requests :
        /\ request[q].op = "cancel" => seen[q][1] = "DEPOSITED"
        /\ request[q].op = "return" => seen[q][1] = "RECEIVED" /\ seen[q][2] = "yes"

\* Before the deposit there is nothing to give back.
UnpaidOK ==
    \A r \in Receptions : reception[r] \in {"none", "CREATED"} =>
        deposit[r].paid = 0 /\ deposit[r].refunded = 0 /\ handed[r] = "no"

WorkerOK == worker = "finish" => messages > 0

\* Where the deposit of a reception is, while nothing has slipped.
DepositAt(r) ==
    /\ reception[r] = "DEPOSITED" =>
          deposit[r].paid = 1 /\ deposit[r].refunded = 0 /\ handed[r] = "no"
    /\ reception[r] = "RECEIVED" =>
          /\ deposit[r].paid = 1
          /\ \/ handed[r] = "yes" /\ deposit[r].refunded = 0
             \/ handed[r] = "returned" /\ deposit[r].refunded = 1
    /\ reception[r] = "CANCELLED" => deposit[r].paid = 1 /\ deposit[r].refunded \in 0..1

ReservationInv ==
    /\ TypeOK /\ PlacesOK /\ StagesOK /\ LockOK /\ SeenOK /\ UnpaidOK /\ WorkerOK
    /\ slips = 0 => \A r \in Receptions : DepositAt(r)

-----------------------------------------------------------------------------
(* Requests come and go.                                                   *)

Stages == {"none", "CREATED", "DEPOSITED", "RECEIVED", "CANCELLED"}
Paid == {"DEPOSITED", "RECEIVED", "CANCELLED"}
Deposits == [paid : 0..1, refunded : Nat, linked : Nat]
Working == [op : Operations, of : Receptions \cup {Nobody}, pc : {"commit", "told"}]

\* A request that is not idle is at work.
LEMMA AtWork ==
    ASSUME TypeOK, NEW q \in Requests
    PROVE  /\ request[q] # Idle => request[q] \in Working
           /\ request[q].op # "none" \/ request[q].pc # "idle" => request[q] # Idle
           /\ request[q] = Idle => Of(q) = Nobody
BY DEF TypeOK, Working, Idle, Of, Operations

\* A request begins where its checks let it.
LEMMA StartsKeeps ==
    ASSUME ReservationInv, NEW q \in Requests, NEW op \in Operations,
           NEW r \in Receptions \cup {Nobody}, Starts(q, op, r),
           op \notin {"put", "sell"} => r \in Receptions,
           IF op = "reserve" THEN reception[r] = "none" /\ \A p \in Requests : Of(p) # r
                             ELSE r \in Receptions => reception[r] # "none",
           op \in {"cancel", "return", "return_deposit"} => reception[r] \in Paid,
           op = "cancel" => reception[r] = "DEPOSITED",
           op = "return" => reception[r] = "RECEIVED" /\ handed[r] = "yes"
    PROVE  ReservationInv'
<1>1. /\ request[q] = Idle
      /\ request'[q] = [op |-> op, of |-> r, pc |-> "commit"] /\ request'[q] \in Working
      /\ request' \in [Requests -> {Idle} \cup Working]
      /\ \A p \in Requests \ {q} : request'[p] = request[p]
  BY DEF ReservationInv, TypeOK, Starts, Working
<1>2. /\ Of(q)' = r /\ request'[q].op = op /\ request'[q].pc = "commit"
      /\ \A p \in Requests \ {q} : Of(p)' = Of(p)
  BY <1>1 DEF Of
<1>3. UNCHANGED <<status, limits, receptions, stock, messages, worker, changes, slips>>
  BY DEF Starts
<1>4. TypeOK' /\ UnpaidOK' /\ WorkerOK' /\ (slips' = 0 => \A u \in Receptions : DepositAt(u)')
  BY <1>1, <1>3 DEF ReservationInv, TypeOK, UnpaidOK, WorkerOK, DepositAt, Working, receptions
<1>5. PlacesOK'
  BY <1>1, <1>2 DEF ReservationInv, PlacesOK
<1>6. StagesOK'
  <2>1. ASSUME NEW p \in Requests, request'[p].op = "reserve"
        PROVE  /\ reception'[Of(p)'] = "none"
               /\ \A o \in Requests : Of(o)' = Of(p)' => o = p
    <3>1. CASE p = q
      BY <2>1, <3>1, <1>2, <1>3 DEF receptions
    <3>2. CASE p # q
      <4>1. /\ request[p].op = "reserve" /\ Of(p) \in Receptions /\ reception[Of(p)] = "none"
            /\ \A o \in Requests : Of(o) = Of(p) => o = p
        BY <2>1, <3>2, <1>1 DEF ReservationInv, PlacesOK, StagesOK, Operations
      <4>2. r # Of(p)
        BY <4>1
      <4> QED
        BY <3>2, <4>1, <4>2, <1>2, <1>3 DEF receptions
    <3> QED
      BY <3>1, <3>2
  <2>2. ASSUME NEW p \in Requests, request'[p].op \in {"cancel", "return", "return_deposit"}
        PROVE  reception'[Of(p)'] \in Paid
    BY <2>2, <1>1, <1>2, <1>3 DEF ReservationInv, StagesOK, Paid, receptions
  <2> QED
    BY <2>1, <2>2 DEF StagesOK, Paid
<1>7. LockOK'
  BY <1>1, <1>2, <1>3 DEF ReservationInv, LockOK, receptions
<1>8. SeenOK'
  <2>1. /\ seen' = [p \in Requests |-> seen'[p]]
        /\ seen'[q] = View(op, r)
        /\ \A p \in Requests \ {q} : seen'[p] = seen[p]
    BY DEF ReservationInv, SeenOK, Starts
  <2>2. /\ op = "cancel" => View(op, r)[1] = "DEPOSITED"
        /\ op = "return" => View(op, r)[1] = "RECEIVED" /\ View(op, r)[2] = "yes"
    BY DEF View
  <2> QED
    BY <1>1, <1>2, <2>1, <2>2 DEF ReservationInv, SeenOK
<1> QED
  BY <1>4, <1>5, <1>6, <1>7, <1>8 DEF ReservationInv

\* A request ends and leaves its reception r in a stage that others allow.
LEMMA EndsKeeps ==
    ASSUME ReservationInv, NEW q \in Requests, request[q] # Idle, Ends(q),
           NEW r, reception' \in [Receptions -> Stages],
           \A u \in Receptions \ {r} : reception'[u] = reception[u],
           r \in Receptions =>
              \/ reception'[r] = reception[r]
              \/ /\ reception[r] # "none" \/ (request[q].op = "reserve" /\ Of(q) = r)
                 /\ reception[r] \in Paid => reception'[r] \in Paid
                 /\ \A p \in Requests \ {q} : request[p].pc = "told" => Of(p) # r
    PROVE  /\ PlacesOK' /\ StagesOK' /\ LockOK' /\ SeenOK'
           /\ request' \in [Requests -> {Idle} \cup Working]
<1>1. /\ request'[q] = Idle
      /\ request' \in [Requests -> {Idle} \cup Working]
      /\ \A p \in Requests \ {q} : request'[p] = request[p]
  BY DEF ReservationInv, TypeOK, Ends, Working
<1>2. /\ Of(q)' = Nobody /\ request'[q].op = "none" /\ request'[q].pc = "idle"
      /\ \A p \in Requests \ {q} : Of(p)' = Of(p)
  BY <1>1 DEF Of, Idle
<1>3. PlacesOK'
  BY <1>1, <1>2 DEF ReservationInv, PlacesOK, Operations
<1>4. StagesOK'
  <2>1. ASSUME NEW p \in Requests, request'[p].op = "reserve"
        PROVE  /\ reception'[Of(p)'] = "none"
               /\ \A o \in Requests : Of(o)' = Of(p)' => o = p
    <3>1. p # q
      BY <2>1, <1>2
    <3>2. /\ request[p].op = "reserve" /\ Of(p) \in Receptions /\ reception[Of(p)] = "none"
          /\ \A o \in Requests : Of(o) = Of(p) => o = p
      BY <2>1, <3>1, <1>1 DEF ReservationInv, PlacesOK, StagesOK, Operations
    <3>3. Of(p) = r => reception'[r] = reception[r]
      BY <3>1, <3>2
    <3>4. Nobody \notin Receptions
      BY ReservationAssumption
    <3> QED
      BY <3>1, <3>2, <3>3, <3>4, <1>2
  <2>2. ASSUME NEW p \in Requests, request'[p].op \in {"cancel", "return", "return_deposit"}
        PROVE  reception'[Of(p)'] \in Paid
    <3>1. p # q
      BY <2>2, <1>2
    <3>2. Of(p) \in Receptions /\ reception[Of(p)] \in Paid
      BY <2>2, <3>1, <1>1 DEF ReservationInv, PlacesOK, StagesOK, Operations, Paid
    <3> QED
      BY <3>1, <3>2, <1>2
  <2> QED
    BY <2>1, <2>2 DEF StagesOK, Paid
<1>5. LockOK'
  <2> SUFFICES ASSUME NEW p \in Requests, request'[p].pc = "told"
               PROVE  /\ reception'[Of(p)'] = "DEPOSITED"
                      /\ \A o \in Requests : request'[o].pc = "told" /\ Of(o)' = Of(p)' => o = p
    BY DEF LockOK
  <2>1. p # q /\ request[p].pc = "told"
    BY <1>1, <1>2
  <2>2. /\ reception[Of(p)] = "DEPOSITED" /\ Of(p) \in Receptions
        /\ \A o \in Requests : request[o].pc = "told" /\ Of(o) = Of(p) => o = p
    BY <2>1, AtWork DEF ReservationInv, LockOK, PlacesOK, Operations
  <2>3. reception'[Of(p)] = reception[Of(p)]
    BY <2>1, <2>2
  <2> QED
    BY <2>1, <2>2, <2>3, <1>1, <1>2
<1>6. SeenOK'
  BY <1>1, <1>2 DEF ReservationInv, SeenOK, Ends
<1> QED
  BY <1>1, <1>3, <1>4, <1>5, <1>6

-----------------------------------------------------------------------------
(* The handlers.                                                           *)

LEMMA ReadsKeep ==
    ASSUME ReservationInv, NEW q \in Requests,
           \/ PutRead(q) \/ SellRead(q)
           \/ \E r \in Receptions :
               \/ ReserveRead(q, r) \/ DepositRead(q, r) \/ ReceiveRead(q, r)
               \/ CancelRead(q, r) \/ ReturnRead(q, r) \/ ReturnDepositRead(q, r)
    PROVE  ReservationInv'
<1>1. Nobody \notin Receptions
  BY ReservationAssumption
<1>2. CASE PutRead(q)
  BY <1>1, <1>2, StartsKeeps DEF PutRead, Starts, Operations
<1>3. CASE SellRead(q)
  BY <1>1, <1>3, StartsKeeps DEF SellRead, Starts, Operations
<1>4. ASSUME NEW r \in Receptions,
             \/ ReserveRead(q, r) \/ DepositRead(q, r) \/ ReceiveRead(q, r)
             \/ CancelRead(q, r) \/ ReturnRead(q, r) \/ ReturnDepositRead(q, r)
      PROVE  ReservationInv'
  <2>1. CASE ReserveRead(q, r)
    BY <2>1, StartsKeeps DEF ReserveRead, Starts, Operations
  <2>2. CASE DepositRead(q, r)
    BY <2>2, StartsKeeps DEF DepositRead, Starts, Operations
  <2>3. CASE ReceiveRead(q, r)
    BY <2>3, StartsKeeps DEF ReceiveRead, Starts, Operations
  <2>4. CASE CancelRead(q, r)
    BY <2>4, StartsKeeps DEF CancelRead, MayCancel, Starts, Operations, Paid
  <2>5. CASE ReturnRead(q, r)
    BY <2>5, StartsKeeps DEF ReturnRead, Starts, Operations, Paid
  <2>6. CASE ReturnDepositRead(q, r)
    <3>1. reception[r] \in Paid
      BY <2>6 DEF ReturnDepositRead, ReservationInv, TypeOK, UnpaidOK, Paid
    <3> QED
      BY <2>6, <3>1, StartsKeeps DEF ReturnDepositRead, Starts, Operations, Paid
  <2> QED
    BY <1>4, <2>1, <2>2, <2>3, <2>4, <2>5, <2>6
<1> QED
  BY <1>2, <1>3, <1>4

\* An employee, another sale, and whoever gives up move no reception.
LEMMA OthersKeep ==
    ASSUME ReservationInv, NEW q \in Requests, Put(q) \/ Sell(q) \/ Abort(q)
    PROVE  ReservationInv'
<1>1. request[q] # Idle /\ Ends(q) /\ UNCHANGED receptions /\ UNCHANGED <<messages, worker>>
  BY AtWork DEF Put, Sell, Abort, Commits, ReservationInv
<1>2. reception' \in [Receptions -> Stages] /\ reception' = reception
  BY <1>1 DEF ReservationInv, TypeOK, Stages, receptions
<1>3. /\ PlacesOK' /\ StagesOK' /\ LockOK' /\ SeenOK'
      /\ request' \in [Requests -> {Idle} \cup Working]
  BY <1>1, <1>2, EndsKeeps DEF Ends
<1>4. /\ status' \in ReservationStatus /\ limits' \in Limits /\ stock' \in 0..MaxStock
      /\ changes' \in 0..MaxChanges /\ slips' \in 0..MaxSlips /\ (slips' = 0 => slips = 0)
  <2>1. CASE Put(q)
    BY <2>1, ReservationAssumption DEF Put, CountsIf, ReservationInv, TypeOK
  <2>2. CASE Sell(q)
    BY <2>2, ReservationAssumption DEF Sell, InStock, CountsIf, ReservationInv, TypeOK
  <2>3. CASE Abort(q)
    BY <2>3 DEF Abort, ReservationInv, TypeOK
  <2> QED
    BY <2>1, <2>2, <2>3
<1> QED
  BY <1>1, <1>2, <1>3, <1>4
     DEF ReservationInv, TypeOK, UnpaidOK, WorkerOK, DepositAt, Working, receptions

LEMMA ReserveKeeps ==
    ASSUME ReservationInv, NEW q \in Requests, Reserve(q)
    PROVE  ReservationInv'
<1>1. /\ request[q] # Idle /\ request[q].op = "reserve" /\ Ends(q)
      /\ request[q].pc = "commit" /\ Of(q) \in Receptions
      /\ reception[Of(q)] = "none" /\ \A p \in Requests : Of(p) = Of(q) => p = q
  BY AtWork DEF Reserve, Commits, ReservationInv, PlacesOK, StagesOK, Operations
<1>2. /\ reception' \in [Receptions -> Stages] /\ reception'[Of(q)] = "CREATED"
      /\ \A u \in Receptions \ {Of(q)} : reception'[u] = reception[u]
  BY <1>1 DEF Reserve, ReservationInv, TypeOK, Stages
<1>3. /\ PlacesOK' /\ StagesOK' /\ LockOK' /\ SeenOK'
      /\ request' \in [Requests -> {Idle} \cup Working]
  BY <1>1, <1>2, EndsKeeps DEF Ends, Paid
<1>4. /\ UNCHANGED <<status, limits, deposit, handed, stock, messages, worker, changes>>
      /\ slips' \in 0..MaxSlips /\ (slips' = 0 => slips = 0)
  BY ReservationAssumption DEF Reserve, CountsIf, ReservationInv, TypeOK
<1>5. TypeOK' /\ WorkerOK'
  BY <1>2, <1>3, <1>4 DEF ReservationInv, TypeOK, WorkerOK, Working, Stages
<1>6. UnpaidOK' /\ (slips' = 0 => \A u \in Receptions : DepositAt(u)')
  BY <1>1, <1>2, <1>4 DEF ReservationInv, UnpaidOK, DepositAt
<1> QED
  BY <1>3, <1>5, <1>6 DEF ReservationInv

LEMMA DepositKeeps ==
    ASSUME ReservationInv, NEW q \in Requests, Deposit(q)
    PROVE  ReservationInv'
<1>1. /\ request[q] # Idle /\ Ends(q) /\ Of(q) \in Receptions /\ reception[Of(q)] = "CREATED"
      /\ deposit[Of(q)] \in Deposits
      /\ deposit[Of(q)].paid = 0 /\ deposit[Of(q)].refunded = 0 /\ handed[Of(q)] = "no"
      /\ \A p \in Requests : request[p].pc = "told" => Of(p) # Of(q)
  BY AtWork DEF Deposit, Commits, ReservationInv, PlacesOK, UnpaidOK, LockOK, TypeOK, Operations,
                Deposits
<1>2. /\ reception' \in [Receptions -> Stages] /\ reception'[Of(q)] = "DEPOSITED"
      /\ \A u \in Receptions \ {Of(q)} : reception'[u] = reception[u]
  BY <1>1 DEF Deposit, ReservationInv, TypeOK, Stages
<1>3. /\ PlacesOK' /\ StagesOK' /\ LockOK' /\ SeenOK'
      /\ request' \in [Requests -> {Idle} \cup Working]
  BY <1>1, <1>2, EndsKeeps DEF Ends, Paid
<1>4. /\ UNCHANGED <<status, limits, handed, stock, messages, worker, changes>>
      /\ slips' \in 0..MaxSlips /\ (slips' = 0 => slips = 0)
  BY ReservationAssumption DEF Deposit, CountsIf, ReservationInv, TypeOK
<1>5. /\ deposit' \in [Receptions -> Deposits]
      /\ deposit'[Of(q)].paid = 1 /\ deposit'[Of(q)].refunded = 0
      /\ \A u \in Receptions \ {Of(q)} : deposit'[u] = deposit[u]
  <2>1. /\ [deposit[Of(q)] EXCEPT !.paid = @ + 1] \in Deposits
        /\ [deposit[Of(q)] EXCEPT !.paid = @ + 1].paid = 1
        /\ [deposit[Of(q)] EXCEPT !.paid = @ + 1].refunded = 0
    BY <1>1 DEF Deposits
  <2> QED
    BY <1>1, <2>1 DEF Deposit, ReservationInv, TypeOK, Deposits
<1>6. TypeOK' /\ WorkerOK'
  BY <1>2, <1>3, <1>4, <1>5 DEF ReservationInv, TypeOK, WorkerOK, Working, Stages, Deposits
<1>7. UnpaidOK' /\ (slips' = 0 => \A u \in Receptions : DepositAt(u)')
  BY <1>1, <1>2, <1>4, <1>5 DEF ReservationInv, UnpaidOK, DepositAt
<1> QED
  BY <1>3, <1>6, <1>7 DEF ReservationInv

\* The row is locked from now on.
LEMMA ReceiveKeeps ==
    ASSUME ReservationInv, NEW q \in Requests, Receive(q)
    PROVE  ReservationInv'
<1>1. /\ request[q] \in Working /\ request[q].op = "receive" /\ reception[Of(q)] = "DEPOSITED"
      /\ \A p \in Requests : request[p].pc = "told" => Of(p) # Of(q)
  BY AtWork DEF Receive, Commits, Unlocked, ReservationInv
<1>2. /\ request'[q] = [request[q] EXCEPT !.pc = "told"]
      /\ request' \in [Requests -> {Idle} \cup Working]
      /\ \A p \in Requests \ {q} : request'[p] = request[p]
  BY <1>1 DEF Receive, ReservationInv, TypeOK, Working
<1>3. /\ request'[q].op = "receive" /\ request'[q].pc = "told"
      /\ \A p \in Requests : Of(p)' = Of(p) /\ request'[p].op = request[p].op
  BY <1>1, <1>2 DEF Working, Of
<1>4. UNCHANGED <<status, limits, receptions, stock, seen, worker, changes, slips>>
  BY DEF Receive
<1>5. messages' \in 0..Cardinality(Receptions) /\ messages' > 0
  BY ReservationAssumption, FS_CardinalityType DEF Receive, Told, ReservationInv, TypeOK
<1>6. /\ TypeOK' /\ UnpaidOK' /\ WorkerOK' /\ SeenOK'
      /\ slips' = 0 => \A u \in Receptions : DepositAt(u)'
  BY <1>2, <1>3, <1>4, <1>5
     DEF ReservationInv, TypeOK, UnpaidOK, WorkerOK, SeenOK, DepositAt, Working, receptions
<1>7. PlacesOK' /\ StagesOK'
  BY <1>1, <1>2, <1>3, <1>4 DEF ReservationInv, PlacesOK, StagesOK, receptions
<1>8. LockOK'
  BY <1>1, <1>2, <1>3, <1>4 DEF ReservationInv, LockOK, receptions
<1> QED
  BY <1>6, <1>7, <1>8 DEF ReservationInv

LEMMA ReceiveCommitKeeps ==
    ASSUME ReservationInv, NEW q \in Requests, ReceiveCommit(q)
    PROVE  ReservationInv'
<1>1. /\ request[q] # Idle /\ Ends(q) /\ Of(q) \in Receptions /\ reception[Of(q)] = "DEPOSITED"
      /\ \A p \in Requests \ {q} : request[p].pc = "told" => Of(p) # Of(q)
  BY AtWork DEF ReceiveCommit, ReservationInv, PlacesOK, LockOK, Operations
<1>2. /\ reception' \in [Receptions -> Stages] /\ reception'[Of(q)] = "RECEIVED"
      /\ \A u \in Receptions \ {Of(q)} : reception'[u] = reception[u]
  BY <1>1 DEF ReceiveCommit, ReservationInv, TypeOK, Stages
<1>3. /\ PlacesOK' /\ StagesOK' /\ LockOK' /\ SeenOK'
      /\ request' \in [Requests -> {Idle} \cup Working]
  BY <1>1, <1>2, EndsKeeps DEF Ends, Paid
<1>4. /\ UNCHANGED <<status, limits, deposit, messages, worker, changes, slips>>
      /\ handed' \in [Receptions -> {"no", "yes", "returned"}] /\ handed'[Of(q)] = "yes"
      /\ \A u \in Receptions \ {Of(q)} : handed'[u] = handed[u]
  BY <1>1 DEF ReceiveCommit, ReservationInv, TypeOK
<1>5. stock' \in 0..MaxStock
  <2>1. CountOf[Of(q)] \in Nat /\ MaxStock \in Nat /\ stock \in 0..MaxStock
    BY <1>1, ReservationAssumption DEF ReservationInv, TypeOK
  <2>2. stock - CountOf[Of(q)] >= 0 /\ stock' = stock - CountOf[Of(q)]
    BY DEF ReceiveCommit, InStock
  <2> QED
    BY <2>1, <2>2
<1>6. TypeOK' /\ WorkerOK'
  BY <1>2, <1>3, <1>4, <1>5 DEF ReservationInv, TypeOK, WorkerOK, Working, Stages
<1>7. UnpaidOK' /\ (slips' = 0 => \A u \in Receptions : DepositAt(u)')
  BY <1>1, <1>2, <1>4 DEF ReservationInv, UnpaidOK, DepositAt
<1> QED
  BY <1>3, <1>6, <1>7 DEF ReservationInv

\* What it does to pay a deposit back.
LEMMA RefundedOnce ==
    ASSUME TypeOK, NEW r \in Receptions, deposit' = Refunded(r)
    PROVE  /\ deposit' \in [Receptions -> Deposits]
           /\ deposit'[r].paid = deposit[r].paid
           /\ deposit'[r].refunded = deposit[r].refunded + 1
           /\ \A u \in Receptions \ {r} : deposit'[u] = deposit[u]
<1>1. deposit[r] \in Deposits /\ deposit \in [Receptions -> Deposits]
  BY DEF TypeOK, Deposits
<1> DEFINE row == [deposit[r] EXCEPT !.refunded = @ + 1, !.linked = @ + 1]
<1>2. /\ row \in Deposits /\ row.paid = deposit[r].paid
      /\ row.refunded = deposit[r].refunded + 1
  <2> DEFINE mid == [deposit[r] EXCEPT !.refunded = @ + 1]
  <2>1. /\ mid \in Deposits /\ mid.paid = deposit[r].paid
        /\ mid.refunded = deposit[r].refunded + 1 /\ mid.linked = deposit[r].linked
    BY <1>1 DEF Deposits
  <2>2. row = [mid EXCEPT !.linked = @ + 1]
    BY <1>1 DEF Deposits
  <2> HIDE DEF mid, row
  <2>3. /\ row \in Deposits /\ row.paid = mid.paid /\ row.refunded = mid.refunded
    BY <2>1, <2>2 DEF Deposits
  <2> QED
    BY <2>1, <2>3
<1>3. deposit' = [deposit EXCEPT ![r] = row]
  BY <1>1 DEF Refunded
<1> QED
  BY <1>1, <1>2, <1>3

LEMMA CancelKeeps ==
    ASSUME ReservationInv, NEW q \in Requests, Cancel(q)
    PROVE  ReservationInv'
<1>1. /\ request[q] # Idle /\ Ends(q) /\ Of(q) \in Receptions /\ reception[Of(q)] \in Paid
      /\ request[q].op = "cancel" /\ seen[q][1] = "DEPOSITED"
      /\ \A p \in Requests : request[p].pc = "told" => Of(p) # Of(q)
  BY AtWork DEF Cancel, Commits, Unlocked, ReservationInv, PlacesOK, StagesOK, SeenOK, Operations, Paid
<1>2. /\ reception' \in [Receptions -> Stages] /\ reception'[Of(q)] = "CANCELLED"
      /\ \A u \in Receptions \ {Of(q)} : reception'[u] = reception[u]
  BY <1>1 DEF Cancel, ReservationInv, TypeOK, Stages
<1>3. /\ PlacesOK' /\ StagesOK' /\ LockOK' /\ SeenOK'
      /\ request' \in [Requests -> {Idle} \cup Working]
  BY <1>1, <1>2, EndsKeeps DEF Ends, Paid
<1>4. /\ UNCHANGED <<status, limits, handed, stock, messages, worker, changes>>
      /\ slips' \in 0..MaxSlips /\ (slips' = 0 => slips = 0 /\ ~Crossed(q))
  BY ReservationAssumption DEF Cancel, CountsIf, ReservationInv, TypeOK
<1>5. /\ deposit' \in [Receptions -> Deposits]
      /\ deposit'[Of(q)].paid = deposit[Of(q)].paid
      /\ deposit'[Of(q)].refunded \in {deposit[Of(q)].refunded, deposit[Of(q)].refunded + 1}
      /\ \A u \in Receptions \ {Of(q)} : deposit'[u] = deposit[u]
  <2>1. CASE deposit' = Refunded(Of(q))
    <3> DEFINE r == Of(q)
    <3>1. r \in Receptions /\ TypeOK /\ deposit' = Refunded(r)
      BY <1>1, <2>1 DEF ReservationInv
    <3> HIDE DEF r
    <3>2. /\ deposit' \in [Receptions -> Deposits]
          /\ deposit'[r].paid = deposit[r].paid
          /\ deposit'[r].refunded = deposit[r].refunded + 1
          /\ \A u \in Receptions \ {r} : deposit'[u] = deposit[u]
      BY <3>1, RefundedOnce DEF Refunded
    <3> QED
      BY <3>2 DEF r
  <2>2. CASE deposit' = [deposit EXCEPT ![Of(q)].linked = @ + 1]
    BY <1>1, <2>2 DEF ReservationInv, TypeOK, Deposits
  <2> QED
    BY <2>1, <2>2 DEF Cancel
<1>6. slips' = 0 => reception[Of(q)] = "DEPOSITED"
  BY <1>1, <1>4 DEF Crossed, View
<1>7. TypeOK' /\ WorkerOK'
  BY <1>2, <1>3, <1>4, <1>5 DEF ReservationInv, TypeOK, WorkerOK, Working, Stages, Deposits
<1>8. UnpaidOK' /\ (slips' = 0 => \A u \in Receptions : DepositAt(u)')
  BY <1>1, <1>2, <1>4, <1>5, <1>6 DEF ReservationInv, UnpaidOK, DepositAt, Paid
<1> QED
  BY <1>3, <1>7, <1>8 DEF ReservationInv

\* The goods come back, and the deposit with them.
LEMMA ReturnsKeep ==
    ASSUME ReservationInv, NEW q \in Requests, Return(q) \/ ReturnDeposit(q)
    PROVE  ReservationInv'
<1> DEFINE r == Of(q)
<1>1. /\ request[q] # Idle /\ Ends(q) /\ r \in Receptions /\ reception[r] \in Paid
      /\ request[q].op = "return" => seen[q][1] = "RECEIVED" /\ seen[q][2] = "yes"
  BY AtWork DEF Return, ReturnDeposit, Commits, ReservationInv, PlacesOK, StagesOK, SeenOK,
                Operations, Paid
<1>2. reception' \in [Receptions -> Stages] /\ reception' = reception
  BY DEF Return, ReturnDeposit, ReservationInv, TypeOK, Stages
<1>3. /\ PlacesOK' /\ StagesOK' /\ LockOK' /\ SeenOK'
      /\ request' \in [Requests -> {Idle} \cup Working]
  BY <1>1, <1>2, EndsKeeps DEF Ends
<1>4. /\ UNCHANGED <<status, limits, messages, worker, changes>>
      /\ slips' \in 0..MaxSlips
      /\ slips' = 0 => slips = 0 /\ Return(q) /\ ~Crossed(q)
  BY ReservationAssumption DEF Return, ReturnDeposit, CountsIf, ReservationInv, TypeOK
<1>5. /\ deposit' \in [Receptions -> Deposits]
      /\ deposit'[r].paid = deposit[r].paid
      /\ deposit'[r].refunded = deposit[r].refunded + 1
      /\ \A u \in Receptions \ {r} : deposit'[u] = deposit[u]
  <2>1. r \in Receptions /\ TypeOK /\ deposit' = Refunded(r)
    BY <1>1 DEF ReservationInv, Return, DepositBack, ReturnDeposit
  <2> HIDE DEF r
  <2> QED
    BY <2>1, RefundedOnce DEF Refunded
<1>6. /\ handed' \in [Receptions -> {"no", "yes", "returned"}]
      /\ \A u \in Receptions \ {r} : handed'[u] = handed[u]
      /\ Return(q) => handed'[r] = "returned"
  BY <1>1 DEF Return, ReturnDeposit, ReservationInv, TypeOK
<1>7. stock' \in 0..MaxStock
  <2>1. CountOf[r] \in Nat /\ MaxStock \in Nat /\ stock \in 0..MaxStock
    BY <1>1, ReservationAssumption DEF ReservationInv, TypeOK
  <2>2. stock + CountOf[r] <= MaxStock /\ stock' = stock + CountOf[r]
    BY DEF Return, ReturnDeposit
  <2> QED
    BY <2>1, <2>2
<1>8. slips' = 0 => reception[r] = "RECEIVED" /\ handed[r] = "yes"
  BY <1>1, <1>4 DEF Crossed, View, Return, Commits
<1>9. TypeOK' /\ WorkerOK'
  BY <1>2, <1>3, <1>4, <1>5, <1>6, <1>7
     DEF ReservationInv, TypeOK, WorkerOK, Working, Stages, Deposits
<1>10. UnpaidOK' /\ (slips' = 0 => \A u \in Receptions : DepositAt(u)')
  <2> HIDE DEF r
  <2> QED
    BY <1>1, <1>2, <1>4, <1>5, <1>6, <1>8 DEF ReservationInv, UnpaidOK, DepositAt, Paid
<1> QED
  BY <1>3, <1>9, <1>10 DEF ReservationInv

\* The shelf and the worker.
LEMMA WorkerKeeps ==
    ASSUME ReservationInv, Arrive \/ WorkerRead \/ WorkerFinish \/ WorkerDies
    PROVE  ReservationInv'
<1>1. UNCHANGED <<limits, receptions, request, seen, changes>>
  BY DEF Arrive, WorkerRead, WorkerFinish, WorkerDies
<1>2. /\ status' \in ReservationStatus /\ stock' \in 0..MaxStock /\ worker' \in {"idle", "finish"}
      /\ messages' \in 0..Cardinality(Receptions) /\ slips' \in 0..MaxSlips
      /\ worker' = "finish" => messages' > 0
      /\ slips' = 0 => slips = 0
  <2>1. Cardinality(Receptions) \in Nat
    BY ReservationAssumption, FS_CardinalityType
  <2>2. CASE Arrive
    BY <2>2, ReservationAssumption DEF Arrive, ReservationInv, TypeOK, WorkerOK
  <2>3. CASE WorkerRead
    BY <2>1, <2>3, ReservationAssumption DEF WorkerRead, CountsIf, ReservationInv, TypeOK, WorkerOK
  <2>4. CASE WorkerFinish
    BY <2>1, <2>4, ReservationAssumption
       DEF WorkerFinish, CountsIf, ReservationInv, TypeOK, WorkerOK, ReservationStatus
  <2>5. CASE WorkerDies
    BY <2>5 DEF WorkerDies, ReservationInv, TypeOK, WorkerOK
  <2> QED
    BY <2>2, <2>3, <2>4, <2>5
<1>3. \A q \in Requests : Of(q)' = Of(q)
  BY <1>1 DEF Of
<1> QED
  BY <1>1, <1>2, <1>3
     DEF ReservationInv, TypeOK, PlacesOK, StagesOK, LockOK, SeenOK, UnpaidOK, WorkerOK,
         DepositAt, receptions

-----------------------------------------------------------------------------
(* The invariant, and what it is for.                                      *)

LEMMA InitHolds == Init => ReservationInv
<1> SUFFICES ASSUME Init PROVE ReservationInv
  OBVIOUS
<1>1. Cardinality(Receptions) \in Nat
  BY ReservationAssumption, FS_CardinalityType
<1>2. TypeOK
  BY <1>1, ReservationAssumption DEF Init, TypeOK, ReservationStatus
<1>3. \A q \in Requests : request[q].op = "none" /\ request[q].pc = "idle"
  BY DEF Init, Idle
<1>4. PlacesOK /\ StagesOK /\ LockOK /\ SeenOK
  BY <1>3 DEF Init, PlacesOK, StagesOK, LockOK, SeenOK, Operations
<1> QED
  BY <1>2, <1>4 DEF Init, ReservationInv, UnpaidOK, WorkerOK, DepositAt

LEMMA NextKeeps == ReservationInv /\ [Next]_vars => ReservationInv'
<1> SUFFICES ASSUME ReservationInv, [Next]_vars PROVE ReservationInv'
  OBVIOUS
<1>1. ASSUME NEW q \in Requests, Requested(q) PROVE ReservationInv'
  BY <1>1, ReadsKeep, OthersKeep, ReserveKeeps, DepositKeeps, ReceiveKeeps, ReceiveCommitKeeps,
     CancelKeeps, ReturnsKeep DEF Requested
<1>2. CASE Arrive \/ WorkerRead \/ WorkerFinish \/ WorkerDies
  BY <1>2, WorkerKeeps
<1>3. CASE UNCHANGED vars
  <2>1. \A q \in Requests : Of(q)' = Of(q)
    BY <1>3 DEF vars, Of
  <2> QED
    BY <1>3, <2>1
       DEF vars, receptions, ReservationInv, TypeOK, PlacesOK, StagesOK, LockOK, SeenOK,
           UnpaidOK, WorkerOK, DepositAt
<1> QED
  BY <1>1, <1>2, <1>3 DEF Next

LEMMA Invariant == Spec => []ReservationInv
<1>1. Init => ReservationInv
  BY InitHolds
<1>2. ReservationInv /\ [Next]_vars => ReservationInv'
  BY NextKeeps
<1> QED
  BY <1>1, <1>2, PTL DEF Spec

\* No request takes more from the shelf than there is, no deposit is paid twice, and the
\* worker deletes no message that it was not given.
THEOREM ReservationTypeCorrect == Spec => []TypeOK
<1>1. ReservationInv => TypeOK
  BY DEF ReservationInv
<1> QED
  BY <1>1, Invariant, PTL

\* While no step slips, whatever customers, employees and the worker interleave, the store
\* holds a deposit exactly for the receptions that are promised, or fetched and kept.
THEOREM DepositsAreAccounted == Spec => []DepositsFollowReceptions
<1>1. ReservationInv => DepositsFollowReceptions
  <2> SUFFICES ASSUME ReservationInv, slips = 0, NEW r \in Receptions
               PROVE  LET held == deposit[r].paid - deposit[r].refunded IN
                      CASE reception[r] \in {"none", "CREATED"} -> deposit[r].paid = 0
                        [] reception[r] = "DEPOSITED" -> held = 1
                        [] reception[r] = "RECEIVED" ->
                              held = IF handed[r] = "returned" THEN 0 ELSE 1
                        [] reception[r] = "CANCELLED" -> held \in 0..1
    BY DEF DepositsFollowReceptions
  <2>1. /\ reception[r] \in Stages /\ DepositAt(r) /\ deposit[r] \in Deposits
        /\ reception[r] \in {"none", "CREATED"} => deposit[r].paid = 0
    BY DEF ReservationInv, TypeOK, UnpaidOK, Stages, Deposits
  <2>2. CASE reception[r] \in {"none", "CREATED"}
    BY <2>1, <2>2
  <2>3. CASE reception[r] = "DEPOSITED"
    BY <2>1, <2>3 DEF DepositAt
  <2>4. CASE reception[r] = "RECEIVED"
    BY <2>1, <2>4 DEF DepositAt
  <2>5. CASE reception[r] = "CANCELLED"
    BY <2>1, <2>5 DEF DepositAt, Deposits
  <2> QED
    BY <2>1, <2>2, <2>3, <2>4, <2>5 DEF Stages
<1> QED
  BY <1>1, Invariant, PTL

-----------------------------------------------------------------------------
(* The limits, and what is kept for those who have paid.                   *)

\* With, Effective and WithinLimits of receptions that somebody has read.
In(rec, statuses) == {r \in Receptions : rec[r] \in statuses}

Room(lim, rec, r) ==
    LET E == In(rec, {"DEPOSITED", "RECEIVED"}) IN
    /\ CountOf[r] <= lim.whole - Units(E)
    /\ CountOf[r] <= lim.each - Units({u \in E : CustomerOf[u] = CustomerOf[r]})

\* What the requests have read allows what they are about to do.
ReadsOK ==
    \A q \in Requests :
        /\ request[q].op = "deposit" =>
              \E lim, rec : seen[q] = <<"OPEN", lim, rec>> /\ Room(lim, rec, Of(q))
        /\ request[q].op = "sell" =>
              \E s, rec, n : /\ seen[q] = <<s, rec, n>> /\ s # "OPEN"
                             /\ s = "CLOSED" => n - Units(In(rec, {"DEPOSITED"})) - 1 >= 0

\* Sets of receptions have numbers of units.
LEMMA UnitsAdd ==
    /\ Units({}) = 0
    /\ \A S \in SUBSET Receptions : /\ Units(S) \in Nat
                                    /\ \A T \in SUBSET S : Units(T) <= Units(S)
    /\ \A S \in SUBSET Receptions : \A r \in S : Units(S) = CountOf[r] + Units(S \ {r})
<1>1. IsFiniteSet(Receptions) /\ CountOf \in [Receptions -> Nat] /\ CountOf \in [Receptions -> Int]
  BY ReservationAssumption
<1> QED
  BY <1>1, SumProperties, SumGrows DEF Units

\* How a request comes to have read something.
LEMMA HowRequestsMove ==
    ASSUME ReservationInv, [Next]_vars, NEW q \in Requests
    PROVE  \/ request'[q].op = request[q].op /\ Of(q)' = Of(q) /\ seen'[q] = seen[q]
           \/ request'[q].op \notin {"deposit", "sell"}
           \/ SellRead(q) /\ request'[q].op = "sell"
           \/ request'[q].op = "deposit" /\ \E r \in Receptions : DepositRead(q, r)
<1>0. /\ request \in [Requests -> {Idle} \cup Working]
      /\ seen = [p \in Requests |-> seen[p]]
  BY DEF ReservationInv, TypeOK, SeenOK, Working
<1>1. ASSUME NEW p \in Requests, NEW op \in Operations, NEW r, Starts(p, op, r)
      PROVE  /\ p # q => request'[q] = request[q] /\ seen'[q] = seen[q]
             /\ p = q => request'[q].op = op
  BY <1>0, <1>1 DEF Starts
<1>2. ASSUME NEW p \in Requests, Ends(p)
      PROVE  \/ request'[q] = request[q] /\ seen'[q] = seen[q]
             \/ request'[q].op = "none"
  BY <1>0, <1>2 DEF Ends, Idle
<1>3. ASSUME NEW p \in Requests, Receive(p)
      PROVE  request'[q].op = request[q].op /\ Of(q)' = Of(q) /\ seen'[q] = seen[q]
  <2>1. request[p] \in Working
    BY <1>3, AtWork DEF Receive, Commits, ReservationInv
  <2> QED
    BY <1>0, <1>3, <2>1 DEF Receive, Of, Working
<1>4. ASSUME NEW p \in Requests, Requested(p)
      PROVE  \/ request'[q] = request[q] /\ seen'[q] = seen[q]
             \/ request'[q].op = request[q].op /\ Of(q)' = Of(q) /\ seen'[q] = seen[q]
             \/ request'[q].op \notin {"deposit", "sell"}
             \/ SellRead(q) /\ request'[q].op = "sell"
             \/ request'[q].op = "deposit" /\ \E r \in Receptions : DepositRead(q, r)
  <2>1. CASE PutRead(p)
    BY <1>1, <2>1 DEF PutRead, Operations
  <2>2. CASE SellRead(p)
    BY <1>1, <2>2 DEF SellRead, Operations
  <2>3. ASSUME NEW r \in Receptions,
               \/ ReserveRead(p, r) \/ ReceiveRead(p, r)
               \/ CancelRead(p, r) \/ ReturnRead(p, r) \/ ReturnDepositRead(p, r)
        PROVE  \/ request'[q] = request[q] /\ seen'[q] = seen[q]
               \/ request'[q].op \notin {"deposit", "sell"}
    <3>1. \E op \in Operations \ {"deposit", "sell"} : Starts(p, op, r)
      BY <2>3 DEF ReserveRead, ReceiveRead, CancelRead, ReturnRead, ReturnDepositRead, Operations
    <3> QED
      BY <1>1, <3>1
  <2>4. ASSUME NEW r \in Receptions, DepositRead(p, r)
        PROVE  \/ request'[q] = request[q] /\ seen'[q] = seen[q]
               \/ request'[q].op = "deposit" /\ DepositRead(q, r)
    BY <1>1, <2>4 DEF DepositRead, Operations
  <2>5. CASE \/ Put(p) \/ Reserve(p) \/ Deposit(p) \/ ReceiveCommit(p)
             \/ Cancel(p) \/ Return(p) \/ ReturnDeposit(p) \/ Sell(p) \/ Abort(p)
    <3>1. Ends(p)
      BY <2>5 DEF Put, Reserve, Deposit, ReceiveCommit, Cancel, Return, ReturnDeposit, Sell, Abort
    <3> QED
      BY <1>2, <3>1
  <2>6. CASE Receive(p)
    BY <1>3, <2>6
  <2> QED
    BY <1>4, <2>1, <2>2, <2>3, <2>4, <2>5, <2>6 DEF Requested
<1>5. CASE Arrive \/ WorkerRead \/ WorkerFinish \/ WorkerDies \/ UNCHANGED vars
  BY <1>5 DEF Arrive, WorkerRead, WorkerFinish, WorkerDies, vars, Of
<1> QED
  BY <1>4, <1>5 DEF Next, Of

\* What a request has read stays what it has read.
LEMMA ReadsKept ==
    ASSUME ReservationInv, ReadsOK, [Next]_vars
    PROVE  ReadsOK'
<1> SUFFICES ASSUME NEW q \in Requests
             PROVE  /\ request'[q].op = "deposit" =>
                          \E lim, rec : seen'[q] = <<"OPEN", lim, rec>> /\ Room(lim, rec, Of(q)')
                    /\ request'[q].op = "sell" =>
                          \E s, rec, n : /\ seen'[q] = <<s, rec, n>> /\ s # "OPEN"
                                         /\ s = "CLOSED" => n - Units(In(rec, {"DEPOSITED"})) - 1 >= 0
  BY DEF ReadsOK
<1>0. request \in [Requests -> {Idle} \cup Working] /\ seen = [p \in Requests |-> seen[p]]
  BY DEF ReservationInv, TypeOK, SeenOK, Working
<1>1. CASE request'[q].op = request[q].op /\ Of(q)' = Of(q) /\ seen'[q] = seen[q]
  <2>1. PICK r : r = Of(q) /\ r = Of(q)'
    BY <1>1
  <2> QED
    BY <1>1, <2>1 DEF ReadsOK
<1>2. CASE SellRead(q) /\ request'[q].op = "sell"
  <2>1. seen'[q] = <<status, reception, stock>>
    BY <1>0, <1>2 DEF SellRead, Starts, View
  <2>2. status # "OPEN" /\ (status = "CLOSED" => stock - Units(In(reception, {"DEPOSITED"})) - 1 >= 0)
    BY <1>2 DEF SellRead, MaySell, Unreceived, With, In
  <2> QED
    BY <1>2, <2>1, <2>2
<1>3. ASSUME NEW r \in Receptions, DepositRead(q, r), request'[q].op = "deposit"
      PROVE  \E lim, rec : seen'[q] = <<"OPEN", lim, rec>> /\ Room(lim, rec, Of(q)')
  <2>1. seen'[q] = <<"OPEN", limits, reception>> /\ Of(q)' = r
    BY <1>0, <1>3 DEF DepositRead, Starts, View, Of
  <2>2. Room(limits, reception, r)
    BY <1>3 DEF DepositRead, WithinLimits, Room, In, Effective, EffectiveOf, With
  <2>3. Room(limits, reception, Of(q)')
    BY <2>1, <2>2
  <2> QED
    BY <2>1, <2>3
<1> QED
  BY <1>1, <1>2, <1>3, HowRequestsMove

\* Who comes to be promised something: only the one who pays a deposit.
LEMMA HowPromisesMove ==
    ASSUME ReservationInv, [Next]_vars
    PROVE  /\ slips' = 0 => slips = 0
           /\ Effective' \subseteq Effective \/ \E q \in Requests : Deposit(q)
<1>1. slips \in Nat /\ \A c \in BOOLEAN : CountsIf(c) => slips' \in {slips, slips + 1}
  BY ReservationAssumption DEF ReservationInv, TypeOK, CountsIf
<1>2. CASE \/ \E q \in Requests : Put(q) \/ Sell(q) \/ Abort(q) \/ Return(q) \/ ReturnDeposit(q)
           \/ Arrive \/ WorkerRead \/ WorkerFinish \/ WorkerDies \/ UNCHANGED vars
  <2>1. UNCHANGED reception
    BY <1>2 DEF Put, Sell, Abort, Return, ReturnDeposit, Arrive, WorkerRead, WorkerFinish,
                WorkerDies, vars, receptions
  <2>2. slips' \in {slips, slips + 1}
    BY <1>1, <1>2 DEF Put, Sell, Abort, Return, ReturnDeposit, Arrive, WorkerRead, WorkerFinish,
                WorkerDies, vars, CountsIf
  <2> QED
    BY <1>1, <2>1, <2>2 DEF Effective, With
<1>3. ASSUME NEW q \in Requests, Reserve(q) \/ Cancel(q) \/ ReceiveCommit(q)
      PROVE  Effective' \subseteq Effective /\ slips' \in {slips, slips + 1}
  <2>1. slips' \in {slips, slips + 1}
    BY <1>1, <1>3 DEF Reserve, Cancel, ReceiveCommit, CountsIf
  <2>2. /\ Of(q) \in Receptions
        /\ ReceiveCommit(q) => reception[Of(q)] = "DEPOSITED"
    BY <1>3, AtWork
       DEF Reserve, Cancel, ReceiveCommit, Commits, ReservationInv, PlacesOK, LockOK, Operations
  <2>3. /\ reception'[Of(q)] \in {"DEPOSITED", "RECEIVED"} => reception[Of(q)] = "DEPOSITED"
        /\ \A r \in Receptions \ {Of(q)} : reception'[r] = reception[r]
    BY <1>3, <2>2 DEF Reserve, Cancel, ReceiveCommit, ReservationInv, TypeOK
  <2> QED
    BY <2>1, <2>3 DEF Effective, With
<1>4. ASSUME NEW q \in Requests,
             \/ PutRead(q) \/ SellRead(q) \/ Receive(q)
             \/ \E r \in Receptions :
                 \/ ReserveRead(q, r) \/ DepositRead(q, r) \/ ReceiveRead(q, r)
                 \/ CancelRead(q, r) \/ ReturnRead(q, r) \/ ReturnDepositRead(q, r)
      PROVE  UNCHANGED <<reception, slips>>
  BY <1>4 DEF PutRead, SellRead, Receive, ReserveRead, DepositRead, ReceiveRead, CancelRead,
              ReturnRead, ReturnDepositRead, Starts, receptions
<1>5. ASSUME NEW q \in Requests, Deposit(q)
      PROVE  slips' \in {slips, slips + 1}
  BY <1>1, <1>5 DEF Deposit, CountsIf
<1>6. CASE UNCHANGED <<reception, slips>>
  BY <1>6 DEF Effective, With
<1>7. ASSUME NEW q \in Requests, Requested(q)
      PROVE  /\ slips' = 0 => slips = 0
             /\ Effective' \subseteq Effective \/ \E p \in Requests : Deposit(p)
  BY <1>1, <1>2, <1>3, <1>4, <1>5, <1>6, <1>7 DEF Requested
<1> QED
  BY <1>2, <1>7 DEF Next

\* The deposit that is paid on what is still so.
LEMMA DepositHasRoom ==
    ASSUME ReservationInv, ReadsOK, NEW q \in Requests, Deposit(q), slips' = 0
    PROVE  /\ Of(q) \in Receptions /\ Of(q) \notin Effective
           /\ status = "OPEN" /\ status' = "OPEN" /\ UNCHANGED limits /\ Room(limits, reception, Of(q))
           /\ Effective' = Effective \cup {Of(q)}
<1>1. slips \in Nat
  BY ReservationAssumption DEF ReservationInv, TypeOK
<1>2. /\ Of(q) \in Receptions /\ reception[Of(q)] = "CREATED" /\ request[q].op = "deposit"
      /\ \E lim, rec : seen[q] = <<"OPEN", lim, rec>> /\ Room(lim, rec, Of(q))
  BY AtWork DEF Deposit, Commits, ReservationInv, PlacesOK, ReadsOK, Operations
<1>3. seen[q] = <<status, limits, reception>>
  BY <1>1, <1>2 DEF Deposit, CountsIf, Crossed, View
<1>4. status = "OPEN" /\ Room(limits, reception, Of(q))
  BY <1>2, <1>3
<1>5. /\ reception'[Of(q)] = "DEPOSITED" /\ UNCHANGED <<status, limits>>
      /\ \A r \in Receptions \ {Of(q)} : reception'[r] = reception[r]
  BY <1>2 DEF Deposit, ReservationInv, TypeOK
<1> QED
  BY <1>2, <1>4, <1>5 DEF Effective, With

\* A step that does not slip promises no more than the limits in force.
LEMMA PromisesFit ==
    ASSUME ReservationInv, ReadsOK, [Next]_vars, slips' = 0
    PROVE  /\ Units(Effective') > Units(Effective) => Units(Effective') <= limits'.whole
           /\ \A r \in Receptions :
                 Units(EffectiveOf(CustomerOf[r])') > Units(EffectiveOf(CustomerOf[r]))
                 => Units(EffectiveOf(CustomerOf[r])') <= limits'.each
<1>1. Effective' \subseteq Effective \/ \E q \in Requests : Deposit(q)
  BY HowPromisesMove
<1>2. /\ Effective \in SUBSET Receptions /\ Effective' \in SUBSET Receptions
      /\ \A c : /\ EffectiveOf(c) = {u \in Effective : CustomerOf[u] = c}
                /\ EffectiveOf(c)' = {u \in Effective' : CustomerOf[u] = c}
      /\ limits.whole \in Nat /\ limits.each \in Nat
  BY ReservationAssumption DEF Effective, EffectiveOf, With, ReservationInv, TypeOK, Limits
<1>3. \A S \in SUBSET Receptions : \A T \in SUBSET S : ~(Units(T) > Units(S))
  BY UnitsAdd
<1>4. CASE Effective' \subseteq Effective
  <2>1. \A c : EffectiveOf(c)' \in SUBSET EffectiveOf(c) /\ EffectiveOf(c) \in SUBSET Receptions
    BY <1>2, <1>4
  <2>2. ASSUME NEW c
        PROVE  ~(Units(EffectiveOf(c)') > Units(EffectiveOf(c)))
    <3>1. PICK S, T : S = EffectiveOf(c) /\ T = EffectiveOf(c)'
      OBVIOUS
    <3> QED
      BY <1>3, <2>1, <3>1
  <2>3. ~(Units(Effective') > Units(Effective))
    BY <1>2, <1>3, <1>4
  <2> QED
    BY <2>2, <2>3
<1>5. ASSUME NEW q \in Requests, Deposit(q)
      PROVE  /\ Units(Effective') <= limits.whole
             /\ \A r \in Receptions :
                   \/ EffectiveOf(CustomerOf[r])' = EffectiveOf(CustomerOf[r])
                   \/ Units(EffectiveOf(CustomerOf[r])') <= limits.each
             /\ UNCHANGED limits
  <2>1. PICK r \in Receptions : r = Of(q)
    BY <1>5, DepositHasRoom
  <2>2. /\ r \notin Effective /\ Effective' = Effective \cup {r}
        /\ Room(limits, reception, r) /\ UNCHANGED limits
    BY <1>5, <2>1, DepositHasRoom
  <2>3. /\ CountOf[r] <= limits.whole - Units(Effective)
        /\ CountOf[r] <= limits.each - Units(EffectiveOf(CustomerOf[r]))
    BY <1>2, <2>2 DEF Room, In, Effective, With
  <2>4. CountOf[r] \in Nat
    BY ReservationAssumption
  <2>5. ASSUME NEW S \in SUBSET Receptions, r \notin S
        PROVE  Units(S \cup {r}) = CountOf[r] + Units(S) /\ Units(S) \in Nat
    <3>1. (S \cup {r}) \ {r} = S /\ S \cup {r} \in SUBSET Receptions
      BY <2>5
    <3> QED
      BY <3>1, UnitsAdd
  <2>6. Units(Effective') <= limits.whole
    BY <1>2, <2>2, <2>3, <2>4, <2>5
  <2>7. ASSUME NEW u \in Receptions, CustomerOf[u] = CustomerOf[r]
        PROVE  Units(EffectiveOf(CustomerOf[u])') <= limits.each
    <3>1. PICK S \in SUBSET Receptions : S = EffectiveOf(CustomerOf[r]) /\ r \notin S
      BY <1>2, <2>2
    <3>2. EffectiveOf(CustomerOf[u])' = S \cup {r}
      BY <1>2, <2>2, <2>7, <3>1
    <3>3. Units(S \cup {r}) = CountOf[r] + Units(S) /\ Units(S) \in Nat
      BY <2>5, <3>1
    <3>4. CountOf[r] <= limits.each - Units(S)
      BY <2>3, <3>1
    <3> QED
      BY <1>2, <2>4, <3>2, <3>3, <3>4
  <2>8. ASSUME NEW u \in Receptions, CustomerOf[u] # CustomerOf[r]
        PROVE  EffectiveOf(CustomerOf[u])' = EffectiveOf(CustomerOf[u])
    BY <1>2, <2>2, <2>8
  <2> QED
    BY <2>2, <2>6, <2>7, <2>8
<1>6. ASSUME NEW S \in SUBSET Receptions
      PROVE  ~(Units(S) > Units(S))
  BY <1>3
<1>7. CASE \E q \in Requests : Deposit(q)
  <2>1. ASSUME NEW r \in Receptions,
               Units(EffectiveOf(CustomerOf[r])') > Units(EffectiveOf(CustomerOf[r]))
        PROVE  EffectiveOf(CustomerOf[r])' # EffectiveOf(CustomerOf[r])
    <3>1. PICK S, T : S = EffectiveOf(CustomerOf[r]) /\ T = EffectiveOf(CustomerOf[r])'
      OBVIOUS
    <3>2. S \in SUBSET Receptions
      BY <1>2, <3>1
    <3> QED
      BY <1>6, <2>1, <3>1, <3>2
  <2> QED
    BY <1>5, <1>7, <2>1
<1> QED
  BY <1>1, <1>4, <1>7

LEMMA FullInvariant == Spec => [](ReservationInv /\ ReadsOK)
<1>1. Init => ReservationInv /\ ReadsOK
  <2> SUFFICES ASSUME Init PROVE ReadsOK
    BY InitHolds
  <2>1. \A q \in Requests : request[q].op = "none"
    BY DEF Init, Idle
  <2> QED
    BY <2>1 DEF ReadsOK
<1>2. ReservationInv /\ ReadsOK /\ [Next]_vars => (ReservationInv /\ ReadsOK)'
  BY NextKeeps, ReadsKept
<1> QED
  BY <1>1, <1>2, PTL DEF Spec

\* However customers, employees and the worker interleave, as long as nobody acts on what
\* is no longer so, no step promises more units than the limits in force, as a whole and
\* for each customer, whatever an employee has made of them.
THEOREM NoMoreIsPromised == Spec => LimitsKept
<1>1. ReservationInv /\ ReadsOK /\ [Next]_vars
      => [slips' = 0 =>
            /\ Units(Effective') > Units(Effective) => Units(Effective') <= limits'.whole
            /\ \A r \in Receptions :
                  LET promised == Units(EffectiveOf(CustomerOf[r])) IN
                  promised' > promised => promised' <= limits'.each]_vars
  BY PromisesFit
<1> QED
  BY <1>1, FullInvariant, PTL DEF Spec, LimitsKept

\* A step moves the units that are kept and the shelf together.
LEMMA WhatIsKeptStays ==
    ASSUME ReservationInv, ReadsOK, [Next]_vars,
           status = "CLOSED", status' = "CLOSED", stock >= Unreceived, slips' = 0
    PROVE  stock' >= Unreceived'
<1> DEFINE S == With({"DEPOSITED"})
<1>1. /\ Unreceived = Units(S) /\ Unreceived' = Units(S')
      /\ S \in SUBSET Receptions /\ S' \in SUBSET Receptions
      /\ stock \in Nat /\ slips \in Nat
      /\ Units(S) \in Nat /\ \A T \in SUBSET S : Units(T) <= Units(S) /\ Units(T) \in Nat
  BY UnitsAdd, ReservationAssumption DEF Unreceived, With, ReservationInv, TypeOK
<1>2. CASE S' \subseteq S /\ stock' \in Nat /\ stock' >= stock
  <2>1. Units(S') <= Units(S) /\ Units(S') \in Nat
    BY <1>1, <1>2
  <2> HIDE DEF S
  <2> QED
    BY <1>1, <1>2, <2>1
<1>3. ASSUME NEW q \in Requests, Reserve(q) \/ Cancel(q)
      PROVE  S' \subseteq S /\ stock' = stock
  <2>1. Of(q) \in Receptions
    BY <1>3, AtWork DEF Reserve, Cancel, Commits, ReservationInv, PlacesOK, Operations
  <2>2. /\ reception'[Of(q)] # "DEPOSITED" /\ UNCHANGED stock
        /\ \A r \in Receptions \ {Of(q)} : reception'[r] = reception[r]
    BY <1>3, <2>1 DEF Reserve, Cancel, ReservationInv, TypeOK
  <2> QED
    BY <2>2 DEF With
<1>4. ASSUME NEW q \in Requests, ReceiveCommit(q)
      PROVE  stock' >= Unreceived'
  <2>1. PICK r \in Receptions : r = Of(q) /\ reception[r] = "DEPOSITED"
    BY <1>4, AtWork DEF ReceiveCommit, ReservationInv, PlacesOK, LockOK, Operations
  <2>2. /\ reception'[r] = "RECEIVED" /\ stock' = stock - CountOf[r]
        /\ \A u \in Receptions \ {r} : reception'[u] = reception[u]
    BY <1>4, <2>1 DEF ReceiveCommit, ReservationInv, TypeOK
  <2>3. S' = S \ {r} /\ r \in S
    BY <2>1, <2>2 DEF With
  <2>4. Units(S) = CountOf[r] + Units(S \ {r}) /\ CountOf[r] \in Nat /\ Units(S \ {r}) \in Nat
    BY <1>1, <2>3, UnitsAdd, ReservationAssumption
  <2> HIDE DEF S
  <2> QED
    BY <1>1, <2>2, <2>3, <2>4
<1>5. ASSUME NEW q \in Requests, Sell(q)
      PROVE  stock' >= Unreceived'
  <2>1. UNCHANGED reception /\ stock' = stock - 1 /\ seen[q] = <<status, reception, stock>>
    BY <1>1, <1>5 DEF Sell, CountsIf, Crossed, View, Commits, receptions
  <2>2. PICK s, rec, n : /\ seen[q] = <<s, rec, n>>
                         /\ s = "CLOSED" => n - Units(In(rec, {"DEPOSITED"})) - 1 >= 0
    BY <1>5 DEF Sell, Commits, ReadsOK
  <2>3. stock - Units(In(reception, {"DEPOSITED"})) - 1 >= 0
    BY <2>1, <2>2
  <2>4. S' = S /\ S = In(reception, {"DEPOSITED"})
    BY <2>1 DEF With, In
  <2> HIDE DEF S
  <2> QED
    BY <1>1, <2>1, <2>3, <2>4
<1>6. ASSUME NEW q \in Requests, Return(q) \/ ReturnDeposit(q)
      PROVE  S' \subseteq S /\ stock' \in Nat /\ stock' >= stock
  <2>1. Of(q) \in Receptions
    BY <1>6, AtWork DEF Return, ReturnDeposit, Commits, ReservationInv, PlacesOK, Operations
  <2>2. UNCHANGED reception /\ stock' = stock + CountOf[Of(q)] /\ CountOf[Of(q)] \in Nat
    BY <1>6, <2>1, ReservationAssumption DEF Return, ReturnDeposit
  <2> QED
    BY <1>1, <2>2 DEF With
<1>7. CASE Arrive
  BY <1>1, <1>2, <1>7 DEF Arrive, With, receptions
<1>8. CASE \/ WorkerRead \/ WorkerFinish \/ WorkerDies \/ UNCHANGED vars
           \/ \E q \in Requests : \/ Put(q) \/ Abort(q)
  BY <1>1, <1>2, <1>8
     DEF WorkerRead, WorkerFinish, WorkerDies, vars, Put, Abort, With, receptions
<1>9. ASSUME NEW q \in Requests,
             \/ PutRead(q) \/ SellRead(q) \/ Receive(q)
             \/ \E r \in Receptions :
                 \/ ReserveRead(q, r) \/ DepositRead(q, r) \/ ReceiveRead(q, r)
                 \/ CancelRead(q, r) \/ ReturnRead(q, r) \/ ReturnDepositRead(q, r)
      PROVE  stock' >= Unreceived'
  <2>1. UNCHANGED <<reception, stock>>
    BY <1>9 DEF PutRead, SellRead, Receive, ReserveRead, DepositRead, ReceiveRead, CancelRead,
                ReturnRead, ReturnDepositRead, Starts, receptions
  <2> QED
    BY <1>1, <1>2, <2>1 DEF With
<1>10. ASSUME NEW q \in Requests, Deposit(q)
       PROVE  FALSE
  BY <1>10, DepositHasRoom
<1> QED
  <2>1. ASSUME NEW q \in Requests, Requested(q)
        PROVE  stock' >= Unreceived'
    <3> HIDE DEF S
    <3> QED
      BY <1>1, <1>2, <1>3, <1>4, <1>5, <1>6, <1>8, <1>9, <1>10, <2>1 DEF Requested
  <2> QED
    BY <1>7, <1>8, <2>1, <1>1, <1>2 DEF Next

\* Once there is enough on the shelf for all who have paid a deposit, no sale, no other
\* customer and no return takes it from them while the reservation is closed.
THEOREM WhatIsReservedIsKept == Spec => ReservedIsKept
<1>1. ReservationInv /\ ReadsOK /\ [Next]_vars
      => [status = "CLOSED" /\ status' = "CLOSED" /\ stock >= Unreceived /\ slips' = 0
            => stock' >= Unreceived']_vars
  BY WhatIsKeptStays
<1> QED
  BY <1>1, FullInvariant, PTL DEF Spec, ReservedIsKept

=============================================================================
