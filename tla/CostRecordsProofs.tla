-------------------------- MODULE CostRecordsProofs -------------------------
(***************************************************************************)
(* Proofs about CostRecords, for any sales, deliveries, prices and bounds: *)
(* the division of costs gives all of the total, every unit on the shelf   *)
(* has a record, what was paid is on the shelf, with the sales or gone,    *)
(* and the product shows the average of its records.                       *)
(***************************************************************************)
EXTENDS CostRecords, FiniteSetTheorems, TLAPS

\* The quotient and the remainder of n units of a total.
LEMMA Division ==
    ASSUME NEW total \in Nat, NEW n \in Nat, n > 0
    PROVE  /\ total \div n \in Nat
           /\ total % n \in 0..(n - 1)
           /\ total = n * (total \div n) + (total % n)
BY SMTT(30)

\* adjustDivide hands out every yen and none twice: the n units cost the total, and no two
\* of them differ by more than one (extra of them cost one more than the others).
THEOREM SharesAddUp ==
    ASSUME NEW total \in Nat, NEW n \in Nat, n > 0
    PROVE  LET s == Shares(total, n) IN
           /\ s.low \in Nat
           /\ s.extra \in 0..(n - 1)
           /\ (n - s.extra) * s.low + s.extra * (s.low + 1) = total
<1> DEFINE q == total \div n
           r == total % n
<1>1. q \in Nat /\ r \in 0..(n - 1) /\ total = n * q + r
  BY Division
<1>2. Shares(total, n) = [low |-> q, extra |-> r]
  BY DEF Shares
<1>3. (n - r) * q + r * (q + 1) = n * q + r
  <2> HIDE DEF q, r
  <2>1. (n - r) * q = n * q - r * q
    BY <1>1, SMT
  <2>2. r * (q + 1) = r * q + r
    BY <1>1, SMT
  <2> QED
    BY <1>1, <2>1, <2>2, SMT
<1> QED
  <2> HIDE DEF q, r
  <2> QED BY <1>1, <1>2, <1>3

-----------------------------------------------------------------------------
(* Sums over finite sets.  SumFunctionOnSet adds the numbers in an order   *)
(* that CHOOSE decides; SumProperties says that the order is no matter.    *)

\* A family of subsets of a finite set has them all if it has each set that it has without
\* any one of its elements: a smallest one that it lacks would be a contradiction.
LEMMA FamilyInduction ==
    ASSUME NEW D, IsFiniteSet(D), NEW F,
           \A s \in SUBSET D : (\A x \in s : s \ {x} \in F) => s \in F
    PROVE  \A s \in SUBSET D : s \in F
<1> SUFFICES ASSUME NEW u \in SUBSET D, u \notin F
             PROVE  FALSE
  OBVIOUS
<1> DEFINE T == {n \in Nat : \E s \in SUBSET D : s \notin F /\ Cardinality(s) = n}
<1>1. \A s \in SUBSET D : IsFiniteSet(s) /\ Cardinality(s) \in Nat
  BY FS_Subset, FS_CardinalityType
<1>2. T \subseteq Nat /\ T # {}
  BY <1>1
<1>3. PICK m \in T : \A n \in T : ~(<<n, m>> \in OpToRel(<, Nat))
  <2> HIDE DEF T
  <2> QED
    BY <1>2, NatLessThanWellFounded, WFMin
<1>4. PICK s \in SUBSET D : s \notin F /\ Cardinality(s) = m
  BY <1>3
<1>5. PICK x \in s : s \ {x} \notin F
  BY <1>4
<1>6. Cardinality(s \ {x}) = m - 1 /\ s \ {x} \in SUBSET D
  BY <1>1, <1>4, <1>5, FS_RemoveElement
<1>7. m \in Nat /\ m - 1 \in T
  <2>1. Cardinality(s \ {x}) \in Nat
    BY <1>1, <1>6
  <2>2. Cardinality(s \ {x}) \in T
    BY <1>5, <1>6, <2>1
  <2>3. m \in Nat
    BY <1>3
  <2> HIDE DEF T
  <2> QED
    BY <1>6, <2>2, <2>3
<1>8. m - 1 \in Nat /\ <<m - 1, m>> \in OpToRel(<, Nat)
  BY <1>7 DEF OpToRel
<1> QED
  BY <1>3, <1>7, <1>8

\* G gives the sum of every subset of D, whatever is taken out first.
IsSumOf(G, w, D) ==
    /\ G \in [SUBSET D -> Int]
    /\ G[{}] = 0
    /\ \A s \in SUBSET D : \A x \in s : G[s] = w[x] + G[s \ {x}]

\* The recursion that SumFunctionOnSet stands for.
Step(w, S, f) == [s \in SUBSET S |->
    IF s = {} THEN 0 ELSE w[CHOOSE x \in s : TRUE] + f[s \ {CHOOSE x \in s : TRUE}]]

LEMMA SumIter ==
    ASSUME NEW w, NEW S
    PROVE  SumFunctionOnSet(w, S) = (CHOOSE f : f = Step(w, S, f))[S]
BY DEF SumFunctionOnSet, FoldFunctionOnSet, MapThenFoldSet, Step

\* There is such a G: an element more is a summand more for the sets that have it.
LEMMA SumExists ==
    ASSUME NEW D, IsFiniteSet(D), NEW w \in [D -> Int]
    PROVE  \E G : IsSumOf(G, w, D)
<1> DEFINE F == {s \in SUBSET D : \E G : IsSumOf(G, w, s)}
<1>1. {} \in F
  <2>1. IsSumOf([s \in SUBSET {} |-> 0], w, {})
    BY DEF IsSumOf
  <2> QED
    BY <2>1
<1>2. ASSUME NEW E \in F, NEW a \in D \ E
      PROVE  E \cup {a} \in F
  <2>1. PICK G : IsSumOf(G, w, E)
    OBVIOUS
  <2> DEFINE H == [s \in SUBSET (E \cup {a}) |-> IF a \in s THEN w[a] + G[s \ {a}] ELSE G[s]]
  <2>2. ASSUME NEW s \in SUBSET (E \cup {a})
        PROVE  /\ a \in s => s \ {a} \in SUBSET E /\ H[s] = w[a] + G[s \ {a}]
               /\ a \notin s => s \in SUBSET E /\ H[s] = G[s]
               /\ H[s] \in Int
    <3>1. a \in s => s \ {a} \in SUBSET E
      OBVIOUS
    <3>2. a \notin s => s \in SUBSET E
      OBVIOUS
    <3>3. w[a] \in Int
      OBVIOUS
    <3> QED
      BY <2>1, <3>1, <3>2, <3>3 DEF IsSumOf
  <2>3. H \in [SUBSET (E \cup {a}) -> Int]
    BY <2>2
  <2>4. H[{}] = 0
    BY <2>1, <2>2 DEF IsSumOf
  <2> HIDE DEF H
  <2>5. ASSUME NEW s \in SUBSET (E \cup {a}), NEW x \in s
        PROVE  H[s] = w[x] + H[s \ {x}]
    <3>0. s \ {x} \in SUBSET (E \cup {a}) /\ w[x] \in Int /\ w[a] \in Int
      OBVIOUS
    <3>1. CASE x = a
      <4>1. a \notin s \ {x}
        BY <3>1
      <4> QED
        BY <2>2, <3>0, <3>1, <4>1
    <3>2. CASE x # a /\ a \in s
      <4>1. a \in s \ {x} /\ x \in s \ {a} /\ (s \ {x}) \ {a} = (s \ {a}) \ {x}
        BY <3>2
      <4>2. H[s] = w[a] + G[s \ {a}] /\ s \ {a} \in SUBSET E
        BY <2>2, <3>2
      <4>3. H[s \ {x}] = w[a] + G[(s \ {x}) \ {a}]
        BY <2>2, <3>0, <4>1
      <4>4. G[s \ {a}] = w[x] + G[(s \ {a}) \ {x}]
        BY <2>1, <4>1, <4>2 DEF IsSumOf
      <4>5. (s \ {a}) \ {x} \in SUBSET E /\ G[(s \ {a}) \ {x}] \in Int
        BY <2>1, <4>2 DEF IsSumOf
      <4>6. PICK i \in Int : i = G[(s \ {a}) \ {x}]
        BY <4>5
      <4>7. H[s] = w[a] + (w[x] + i)
        BY <4>2, <4>4, <4>6
      <4>8. H[s \ {x}] = w[a] + i
        BY <4>1, <4>3, <4>6
      <4> QED
        BY <3>0, <4>7, <4>8
    <3>3. CASE a \notin s
      <4>1. a \notin s \ {x}
        BY <3>3
      <4>2. H[s] = G[s] /\ H[s \ {x}] = G[s \ {x}] /\ s \in SUBSET E
        BY <2>2, <3>0, <3>3, <4>1
      <4> QED
        BY <2>1, <4>2 DEF IsSumOf
    <3> QED
      BY <3>1, <3>2, <3>3
  <2>6. IsSumOf(H, w, E \cup {a})
    BY <2>3, <2>4, <2>5 DEF IsSumOf
  <2> QED
    BY <2>6
<1> QED
  <2> HIDE DEF F
  <2>1. ASSUME NEW s \in SUBSET D, \A x \in s : s \ {x} \in F
        PROVE  s \in F
    <3>1. CASE s = {}
      BY <1>1, <3>1
    <3>2. CASE s # {}
      <4>1. PICK a \in s : TRUE
        BY <3>2
      <4>2. s \ {a} \in F /\ a \in D \ (s \ {a}) /\ (s \ {a}) \cup {a} = s
        BY <2>1, <4>1
      <4> QED
        BY <1>2, <4>2
    <3> QED
      BY <3>1, <3>2
  <2>2. \A s \in SUBSET D : s \in F
    BY <2>1, FamilyInduction
  <2> QED
    BY <2>2 DEF F

\* And SumFunctionOnSet is nothing else.
LEMMA SumIs ==
    ASSUME NEW D, IsFiniteSet(D), NEW w, NEW G, IsSumOf(G, w, D), NEW S \in SUBSET D
    PROVE  SumFunctionOnSet(w, S) = G[S]
<1> DEFINE g == [s \in SUBSET S |-> G[s]]
<1>1. g = Step(w, S, g)
  <2>1. ASSUME NEW s \in SUBSET S, s # {}
        PROVE  g[s] = w[CHOOSE x \in s : TRUE] + g[s \ {CHOOSE x \in s : TRUE}]
    <3>1. PICK y : y = CHOOSE x \in s : TRUE
      OBVIOUS
    <3>2. y \in s
      BY <2>1, <3>1
    <3>3. G[s] = w[y] + G[s \ {y}] /\ s \ {y} \in SUBSET S
      BY <3>2 DEF IsSumOf
    <3> QED
      BY <3>1, <3>3
  <2>2. g[{}] = 0
    BY DEF IsSumOf
  <2> HIDE DEF g
  <2>3. \A s \in SUBSET S : g[s] = IF s = {} THEN 0
                        ELSE w[CHOOSE x \in s : TRUE] + g[s \ {CHOOSE x \in s : TRUE}]
    BY <2>1, <2>2
  <2>4. g = [s \in SUBSET S |-> g[s]]
    BY DEF g
  <2> QED
    BY <2>3, <2>4 DEF Step
<1>2. PICK f : f = CHOOSE h : h = Step(w, S, h)
  OBVIOUS
<1>3. f = Step(w, S, f)
  BY <1>1, <1>2
<1> DEFINE F == {s \in SUBSET S : f[s] = G[s]}
<1>4. ASSUME NEW s \in SUBSET S, \A x \in s : s \ {x} \in F
      PROVE  s \in F
  <2>1. CASE s = {}
    BY <1>3, <2>1 DEF Step, IsSumOf
  <2>2. CASE s # {}
    <3>1. PICK y : y = CHOOSE x \in s : TRUE
      OBVIOUS
    <3>2. y \in s
      BY <2>2, <3>1
    <3>3. f[s] = w[y] + f[s \ {y}]
      BY <1>3, <2>2, <3>1 DEF Step
    <3>4. G[s] = w[y] + G[s \ {y}]
      BY <3>2 DEF IsSumOf
    <3> QED
      BY <1>4, <3>2, <3>3, <3>4
  <2> QED
    BY <2>1, <2>2
<1>5. S \in F
  <2>1. IsFiniteSet(S)
    BY FS_Subset
  <2> HIDE DEF F
  <2> QED
    BY <1>4, <2>1, FamilyInduction
<1> QED
  BY <1>2, <1>5, SumIter

\* A sum is an integer, of nothing 0, and any of its summands can be taken out of it.
LEMMA SumProperties ==
    ASSUME NEW D, IsFiniteSet(D), NEW w \in [D -> Int]
    PROVE  /\ SumFunctionOnSet(w, {}) = 0
           /\ \A S \in SUBSET D : SumFunctionOnSet(w, S) \in Int
           /\ \A S \in SUBSET D : \A x \in S :
                 SumFunctionOnSet(w, S) = w[x] + SumFunctionOnSet(w, S \ {x})
<1>1. PICK G : IsSumOf(G, w, D)
  BY SumExists
<1>2. \A S \in SUBSET D : SumFunctionOnSet(w, S) = G[S]
  BY <1>1, SumIs
<1>3. \A S \in SUBSET D : \A x \in S : S \ {x} \in SUBSET D
  OBVIOUS
<1> QED
  BY <1>1, <1>2, <1>3 DEF IsSumOf

\* Where one summand changes, the sum changes by as much.
LEMMA SumMoves ==
    ASSUME NEW D, IsFiniteSet(D), NEW w \in [D -> Int], NEW v \in [D -> Int], NEW x \in D,
           \A y \in D \ {x} : v[y] = w[y]
    PROVE  SumFunction(v) = SumFunction(w) + (v[x] - w[x])
<1> DEFINE F == {s \in SUBSET D : x \notin s => SumFunctionOnSet(v, s) = SumFunctionOnSet(w, s)}
<1>1. ASSUME NEW s \in SUBSET D, \A y \in s : s \ {y} \in F
      PROVE  s \in F
  <2>1. CASE s = {}
    BY <2>1, SumProperties
  <2>2. ASSUME NEW y \in s, x \notin s
        PROVE  SumFunctionOnSet(v, s) = SumFunctionOnSet(w, s)
    <3>1. /\ SumFunctionOnSet(v, s) = v[y] + SumFunctionOnSet(v, s \ {y})
          /\ SumFunctionOnSet(w, s) = w[y] + SumFunctionOnSet(w, s \ {y})
      BY SumProperties
    <3>2. SumFunctionOnSet(v, s \ {y}) = SumFunctionOnSet(w, s \ {y}) /\ v[y] = w[y]
      BY <1>1, <2>2
    <3> QED
      BY <3>1, <3>2
  <2> QED
    BY <2>1, <2>2
<1>2. D \ {x} \in F
  <2> HIDE DEF F
  <2>1. \A s \in SUBSET D : s \in F
    BY <1>1, FamilyInduction
  <2> QED
    BY <2>1
<1>3. /\ SumFunctionOnSet(v, D) = v[x] + SumFunctionOnSet(v, D \ {x})
      /\ SumFunctionOnSet(w, D) = w[x] + SumFunctionOnSet(w, D \ {x})
      /\ SumFunctionOnSet(w, D \ {x}) \in Int
  BY SumProperties
<1>4. SumFunctionOnSet(v, D \ {x}) = SumFunctionOnSet(w, D \ {x})
  BY <1>2
<1>5. v[x] \in Int /\ w[x] \in Int /\ DOMAIN v = D /\ DOMAIN w = D
  OBVIOUS
<1> QED
  BY <1>3, <1>4, <1>5 DEF SumFunction

\* Of zeros the sum is 0.
LEMMA SumOfZeros ==
    ASSUME NEW D, IsFiniteSet(D), NEW w \in [D -> Int], \A x \in D : w[x] = 0
    PROVE  SumFunction(w) = 0
<1> DEFINE F == {s \in SUBSET D : SumFunctionOnSet(w, s) = 0}
<1>1. ASSUME NEW s \in SUBSET D, \A y \in s : s \ {y} \in F
      PROVE  s \in F
  <2>1. CASE s = {}
    BY <2>1, SumProperties
  <2>2. ASSUME NEW y \in s
        PROVE  SumFunctionOnSet(w, s) = 0
    <3>1. SumFunctionOnSet(w, s) = w[y] + SumFunctionOnSet(w, s \ {y})
      BY SumProperties
    <3>2. SumFunctionOnSet(w, s \ {y}) = 0 /\ w[y] = 0
      BY <1>1
    <3> QED
      BY <3>1, <3>2
  <2> QED
    BY <2>1, <2>2
<1>2. D \in F
  <2> HIDE DEF F
  <2> QED
    BY <1>1, FamilyInduction
<1> QED
  BY <1>2 DEF SumFunction

\* A sum of natural numbers is one.
LEMMA SumOfNaturals ==
    ASSUME NEW D, IsFiniteSet(D), NEW w \in [D -> Nat]
    PROVE  SumFunction(w) \in Nat
<1> DEFINE F == {s \in SUBSET D : SumFunctionOnSet(w, s) \in Nat}
<1>0. w \in [D -> Int]
  OBVIOUS
<1>1. ASSUME NEW s \in SUBSET D, \A y \in s : s \ {y} \in F
      PROVE  s \in F
  <2>1. CASE s = {}
    BY <1>0, <2>1, SumProperties
  <2>2. ASSUME NEW y \in s
        PROVE  SumFunctionOnSet(w, s) \in Nat
    <3>1. SumFunctionOnSet(w, s) = w[y] + SumFunctionOnSet(w, s \ {y})
      BY <1>0, SumProperties
    <3>2. SumFunctionOnSet(w, s \ {y}) \in Nat /\ w[y] \in Nat
      BY <1>1
    <3> QED
      BY <3>1, <3>2
  <2> QED
    BY <2>1, <2>2
<1>2. D \in F
  <2> HIDE DEF F
  <2>1. \A s \in SUBSET D : s \in F
    BY <1>1, FamilyInduction
  <2> QED
    BY <2>1
<1> QED
  BY <1>2 DEF SumFunction

\* What two functions say where they are defined.
And(f, g) == [x \in DOMAIN f \cup DOMAIN g |->
    (IF x \in DOMAIN f THEN f[x] ELSE 0) + (IF x \in DOMAIN g THEN g[x] ELSE 0)]

LEMMA SumOfBoth ==
    ASSUME NEW A, IsFiniteSet(A), NEW f \in [A -> Int],
           NEW B, IsFiniteSet(B), NEW g \in [B -> Int]
    PROVE  SumFunction(And(f, g)) = SumFunction(f) + SumFunction(g)
<1> DEFINE h == And(f, g)
           D == A \cup B
           F == {s \in SUBSET D : SumFunctionOnSet(h, s)
                                    = SumFunctionOnSet(f, s \cap A) + SumFunctionOnSet(g, s \cap B)}
<1>1. h \in [D -> Int] /\ IsFiniteSet(D)
  <2>1. \A x \in D : /\ (IF x \in A THEN f[x] ELSE 0) \in Int
                     /\ (IF x \in B THEN g[x] ELSE 0) \in Int
    OBVIOUS
  <2>2. IsFiniteSet(D)
    BY FS_Union
  <2> QED
    BY <2>1, <2>2 DEF And
<1>2. \A x \in D : h[x] = (IF x \in A THEN f[x] ELSE 0) + (IF x \in B THEN g[x] ELSE 0)
  BY DEF And
<1> HIDE DEF h
<1>3. ASSUME NEW s \in SUBSET D, \A x \in s : s \ {x} \in F
      PROVE  s \in F
  <2>1. CASE s = {}
    <3>1. s \cap A = {} /\ s \cap B = {}
      BY <2>1
    <3>2. /\ SumFunctionOnSet(h, {}) = 0 /\ SumFunctionOnSet(f, {}) = 0
          /\ SumFunctionOnSet(g, {}) = 0
      BY <1>1, SumProperties
    <3> QED
      BY <2>1, <3>1, <3>2
  <2>2. ASSUME NEW x \in s
        PROVE  s \in F
    <3> DEFINE u == s \ {x}
    <3>1. SumFunctionOnSet(h, s) = h[x] + SumFunctionOnSet(h, u)
      BY <1>1, SumProperties
    <3>2. SumFunctionOnSet(h, u) = SumFunctionOnSet(f, u \cap A) + SumFunctionOnSet(g, u \cap B)
      BY <1>3
    <3>3. /\ SumFunctionOnSet(f, u \cap A) \in Int /\ SumFunctionOnSet(g, u \cap B) \in Int
      BY SumProperties
    <3>4. SumFunctionOnSet(f, s \cap A)
             = (IF x \in A THEN f[x] ELSE 0) + SumFunctionOnSet(f, u \cap A)
      <4>1. CASE x \in A
        <5>1. x \in s \cap A /\ (s \cap A) \ {x} = u \cap A /\ s \cap A \in SUBSET A
          BY <4>1
        <5>2. SumFunctionOnSet(f, s \cap A) = f[x] + SumFunctionOnSet(f, (s \cap A) \ {x})
          BY <5>1, SumProperties
        <5> QED
          BY <4>1, <5>1, <5>2
      <4>2. CASE x \notin A
        <5>1. s \cap A = u \cap A
          BY <4>2
        <5>2. PICK v \in Int : v = SumFunctionOnSet(f, u \cap A)
          BY <3>3
        <5>3. v = 0 + v
          OBVIOUS
        <5> QED
          BY <4>2, <5>1, <5>2, <5>3
      <4> QED
        BY <4>1, <4>2
    <3>5. SumFunctionOnSet(g, s \cap B)
             = (IF x \in B THEN g[x] ELSE 0) + SumFunctionOnSet(g, u \cap B)
      <4>1. CASE x \in B
        <5>1. x \in s \cap B /\ (s \cap B) \ {x} = u \cap B /\ s \cap B \in SUBSET B
          BY <4>1
        <5>2. SumFunctionOnSet(g, s \cap B) = g[x] + SumFunctionOnSet(g, (s \cap B) \ {x})
          BY <5>1, SumProperties
        <5> QED
          BY <4>1, <5>1, <5>2
      <4>2. CASE x \notin B
        <5>1. s \cap B = u \cap B
          BY <4>2
        <5>2. PICK v \in Int : v = SumFunctionOnSet(g, u \cap B)
          BY <3>3
        <5>3. v = 0 + v
          OBVIOUS
        <5> QED
          BY <4>2, <5>1, <5>2, <5>3
      <4> QED
        BY <4>1, <4>2
    <3>6. PICK a, b \in Int : /\ a = IF x \in A THEN f[x] ELSE 0
                              /\ b = IF x \in B THEN g[x] ELSE 0
      OBVIOUS
    <3>7. h[x] = a + b
      BY <1>2, <3>6
    <3>8. SumFunctionOnSet(h, s) = SumFunctionOnSet(f, s \cap A) + SumFunctionOnSet(g, s \cap B)
      <4> HIDE DEF u
      <4> QED
        BY <3>1, <3>2, <3>3, <3>4, <3>5, <3>6, <3>7
    <3> QED
      BY <3>8
  <2> QED
    BY <2>1, <2>2
<1>4. D \in F
  <2> HIDE DEF F, D
  <2>1. \A s \in SUBSET D : s \in F
    BY <1>1, <1>3, FamilyInduction
  <2> QED
    BY <2>1
<1>5. DOMAIN h = D /\ D \cap A = A /\ D \cap B = B /\ DOMAIN f = A /\ DOMAIN g = B
  BY <1>1
<1> QED
  BY <1>4, <1>5 DEF SumFunction, h

-----------------------------------------------------------------------------
(* Bags of units.                                                          *)

UnitType == [price : Nat, at : Nat]

\* What the records of a place are.
Recorded(b) ==
    /\ b \in [DOMAIN b -> Nat \ {0}]
    /\ DOMAIN b \subseteq UnitType /\ IsFiniteSet(DOMAIN b)

\* What each unit of b adds to its value.
Costs(b) == [u \in DOMAIN b |-> b[u] * u.price]

LEMMA TimesIsNat == \A m, n \in Nat : m * n \in Nat
BY SMT

LEMMA TimesAdds == \A m, n, p \in Nat : (m + n) * p = m * p + n * p
BY SMT

LEMMA CostsAre ==
    ASSUME NEW b, Recorded(b)
    PROVE  /\ Costs(b) \in [DOMAIN b -> Nat] /\ Value(b) = SumFunction(Costs(b))
           /\ Size(b) \in Nat /\ Value(b) \in Nat
<1>1. ASSUME NEW u \in DOMAIN b
      PROVE  b[u] * u.price \in Nat
  <2>1. b[u] \in Nat /\ u.price \in Nat
    BY DEF Recorded, UnitType
  <2> QED
    BY <2>1, TimesIsNat
<1>2. Costs(b) \in [DOMAIN b -> Nat]
  BY <1>1 DEF Costs
<1>3. Value(b) = SumFunction(Costs(b))
  BY DEF Value, Costs, BagToSet
<1>4. b \in [DOMAIN b -> Nat] /\ IsFiniteSet(DOMAIN b)
  BY DEF Recorded
<1>5. Size(b) \in Nat /\ SumFunction(Costs(b)) \in Nat
  BY <1>2, <1>4, SumOfNaturals DEF Size
<1> QED
  BY <1>2, <1>3, <1>5

\* Two bags together have the units and the value of both.
LEMMA BothAdd ==
    ASSUME NEW a, NEW b, Recorded(a), Recorded(b)
    PROVE  /\ Recorded(a (+) b)
           /\ Size(a (+) b) = Size(a) + Size(b)
           /\ Value(a (+) b) = Value(a) + Value(b)
<1> DEFINE A == DOMAIN a
           B == DOMAIN b
           c == a (+) b
<1>1. /\ a \in [A -> Nat \ {0}] /\ b \in [B -> Nat \ {0}] /\ IsFiniteSet(A) /\ IsFiniteSet(B)
      /\ A \subseteq UnitType /\ B \subseteq UnitType
  BY DEF Recorded
<1>2. c = And(a, b) /\ DOMAIN c = A \cup B
  BY DEF And, (+)
<1>3. \A u \in A \cup B : c[u] = (IF u \in A THEN a[u] ELSE 0) + (IF u \in B THEN b[u] ELSE 0)
  BY DEF (+)
<1> HIDE DEF c
<1>4. Recorded(c)
  <2>1. \A u \in A \cup B : c[u] \in Nat \ {0}
    BY <1>1, <1>3
  <2>2. IsFiniteSet(A \cup B)
    BY <1>1, FS_Union
  <2>3. c = [u \in A \cup B |-> c[u]]
    BY <1>2 DEF And
  <2>4. c \in [A \cup B -> Nat \ {0}]
    BY <2>1, <2>3
  <2> QED
    BY <1>1, <1>2, <2>2, <2>4 DEF Recorded
<1>5. Size(c) = Size(a) + Size(b)
  <2>1. a \in [A -> Int] /\ b \in [B -> Int]
    BY <1>1
  <2> QED
    BY <1>1, <1>2, <2>1, SumOfBoth DEF Size
<1>6. Costs(c) = And(Costs(a), Costs(b))
  <2>1. ASSUME NEW u \in A \cup B
        PROVE  c[u] * u.price = (IF u \in A THEN a[u] * u.price ELSE 0)
                                  + (IF u \in B THEN b[u] * u.price ELSE 0)
    <3>1. PICK m, n, p \in Nat : /\ m = IF u \in A THEN a[u] ELSE 0
                                 /\ n = IF u \in B THEN b[u] ELSE 0
                                 /\ p = u.price
      BY <1>1 DEF UnitType
    <3>2. c[u] * u.price = m * p + n * p
      BY <1>3, <3>1, TimesAdds
    <3>3. 0 * p = 0
      BY <3>1, SMT
    <3>4. /\ m * p = IF u \in A THEN a[u] * u.price ELSE 0
          /\ n * p = IF u \in B THEN b[u] * u.price ELSE 0
      BY <3>1, <3>3
    <3> QED
      BY <3>2, <3>4
  <2>2. DOMAIN Costs(a) = A /\ DOMAIN Costs(b) = B /\ DOMAIN Costs(c) = A \cup B
    BY <1>2 DEF Costs
  <2>3. \A u \in A \cup B :
            c[u] * u.price = (IF u \in A THEN Costs(a)[u] ELSE 0) + (IF u \in B THEN Costs(b)[u] ELSE 0)
    BY <2>1 DEF Costs
  <2> QED
    BY <1>2, <2>2, <2>3 DEF Costs, And
<1>7. Value(c) = Value(a) + Value(b)
  <2>1. /\ Costs(a) \in [A -> Int] /\ Costs(b) \in [B -> Int]
        /\ Value(a) = SumFunction(Costs(a)) /\ Value(b) = SumFunction(Costs(b))
        /\ Value(c) = SumFunction(Costs(c))
    BY <1>4, CostsAre
  <2> QED
    BY <1>1, <1>6, <2>1, SumOfBoth
<1> QED
  BY <1>4, <1>5, <1>7 DEF c

\* b can be taken out of a.
PartOf(b, a) ==
    /\ Recorded(b) /\ DOMAIN b \subseteq DOMAIN a
    /\ \A u \in DOMAIN b : b[u] <= a[u]

\* Then it leaves the rest.
LEMMA RestIs ==
    ASSUME NEW a, NEW b, Recorded(a), PartOf(b, a)
    PROVE  /\ Recorded(a (-) b)
           /\ Size(a (-) b) = Size(a) - Size(b)
           /\ Value(a (-) b) = Value(a) - Value(b)
<1> DEFINE A == DOMAIN a
           B == DOMAIN b
           c == a (-) b
           left == [u \in A |-> IF u \in B THEN a[u] - b[u] ELSE a[u]]
<1>1. /\ a \in [A -> Nat \ {0}] /\ b \in [B -> Nat \ {0}] /\ IsFiniteSet(A)
      /\ A \subseteq UnitType /\ B \subseteq A /\ \A u \in B : b[u] <= a[u]
  BY DEF Recorded, PartOf
<1>2. c = [u \in {v \in A : left[v] > 0} |-> left[u]]
  BY DEF (-)
<1>3. \A u \in A : left[u] \in Nat
  BY <1>1
<1> HIDE DEF c, left
<1>4. Recorded(c)
  <2>1. IsFiniteSet({v \in A : left[v] > 0})
    BY <1>1, FS_Subset
  <2> QED
    BY <1>1, <1>2, <1>3, <2>1 DEF Recorded
<1>5. c (+) b = a
  <2>1. DOMAIN c \cup B = A
    <3>1. \A u \in A : u \in B \/ left[u] > 0
      BY <1>1 DEF left
    <3> QED
      BY <1>1, <1>2, <3>1
  <2>2. ASSUME NEW u \in A
        PROVE  a[u] = (IF u \in DOMAIN c THEN c[u] ELSE 0) + (IF u \in B THEN b[u] ELSE 0)
    <3>1. left[u] = IF u \in B THEN a[u] - b[u] ELSE a[u]
      BY DEF left
    <3>2. (IF u \in DOMAIN c THEN c[u] ELSE 0) = left[u]
      BY <1>2, <1>3
    <3> QED
      BY <1>1, <3>1, <3>2
  <2>3. a = [u \in A |-> a[u]]
    BY <1>1
  <2> QED
    BY <2>1, <2>2, <2>3 DEF (+)
<1>6. Recorded(b) /\ Size(a) = Size(c) + Size(b) /\ Value(a) = Value(c) + Value(b)
  BY <1>4, <1>5, BothAdd DEF PartOf
<1>7. Size(b) \in Nat /\ Size(c) \in Nat /\ Value(b) \in Nat /\ Value(c) \in Nat
  BY <1>4, <1>6, CostsAre
<1> QED
  BY <1>4, <1>6, <1>7 DEF c

LEMMA EmptyIs == Recorded(EmptyBag) /\ Size(EmptyBag) = 0 /\ Value(EmptyBag) = 0
<1>1. DOMAIN EmptyBag = {} /\ EmptyBag \in [{} -> Nat \ {0}] /\ IsFiniteSet({})
  BY FS_EmptySet DEF EmptyBag, SetToBag
<1>2. Recorded(EmptyBag)
  BY <1>1 DEF Recorded
<1>3. Size(EmptyBag) = 0
  BY <1>1, SumOfZeros DEF Size
<1>4. Costs(EmptyBag) \in [{} -> Int] /\ Value(EmptyBag) = SumFunction(Costs(EmptyBag))
  BY <1>1, <1>2, CostsAre
<1> QED
  BY <1>1, <1>2, <1>3, <1>4, SumOfZeros

LEMMA CopiesAre ==
    ASSUME NEW n \in Nat, NEW u \in UnitType
    PROVE  /\ Recorded(Copies(n, u)) /\ Size(Copies(n, u)) = n
           /\ Value(Copies(n, u)) = n * u.price
<1> DEFINE c == Copies(n, u)
<1>0. u.price \in Nat
  BY DEF UnitType
<1>1. CASE n = 0
  <2>1. c = EmptyBag
    BY <1>1 DEF Copies, EmptyBag, SetToBag
  <2>2. n * u.price = 0
    BY <1>0, <1>1, SMT
  <2> QED
    BY <1>1, <2>1, <2>2, EmptyIs
<1>2. CASE n > 0
  <2>1. c = [x \in {u} |-> n]
    BY <1>2 DEF Copies
  <2>2. IsFiniteSet({u}) /\ c \in [{u} -> Int] /\ DOMAIN c = {u} /\ c[u] = n
    BY <2>1, FS_Singleton
  <2> HIDE DEF c
  <2>3. Recorded(c)
    BY <1>2, <2>1, <2>2 DEF Recorded
  <2>4. Costs(c) \in [{u} -> Int] /\ Costs(c)[u] = n * u.price /\ Value(c) = SumFunction(Costs(c))
    <3>1. Costs(c) \in [{u} -> Nat] /\ Value(c) = SumFunction(Costs(c))
      BY <2>2, <2>3, CostsAre
    <3> QED
      BY <2>2, <3>1 DEF Costs
  <2>5. ASSUME NEW w \in [{u} -> Int]
        PROVE  SumFunction(w) = w[u]
    <3>1. SumFunctionOnSet(w, {u}) = w[u] + SumFunctionOnSet(w, {u} \ {u})
      BY <2>2, SumProperties
    <3>2. SumFunctionOnSet(w, {}) = 0 /\ {u} \ {u} = {} /\ w[u] \in Int
      BY <2>2, SumProperties
    <3> QED
      BY <3>1, <3>2 DEF SumFunction
  <2>6. Size(c) = n /\ Value(c) = n * u.price
    BY <2>2, <2>4, <2>5 DEF Size
  <2> QED
    BY <2>3, <2>6 DEF c
<1> QED
  BY <1>1, <1>2

\* What can be taken out of a bag.
LEMMA PartsAre ==
    ASSUME NEW b, Recorded(b), NEW t \in Parts(b)
    PROVE  PartOf(t, b)
<1>1. Size(b) \in Nat
  BY CostsAre
<1> DEFINE counts == 1..Size(b)
<1>2. PICK S \in SUBSET DOMAIN b : t \in [S -> counts] /\ t \sqsubseteq b
  BY DEF Parts, BagToSet
<1>3. counts \subseteq Nat \ {0}
  BY <1>1
<1> HIDE DEF counts
<1>4. DOMAIN t = S /\ t \in [S -> Nat \ {0}] /\ \A u \in S : t[u] <= b[u]
  BY <1>2, <1>3 DEF \sqsubseteq
<1>5. IsFiniteSet(S) /\ S \subseteq UnitType
  BY FS_Subset DEF Recorded
<1> QED
  BY <1>4, <1>5 DEF PartOf, Recorded

LEMMA TakingsAre ==
    ASSUME NEW b, Recorded(b), NEW n \in Nat, NEW reverse, NEW t \in Takings(b, n, reverse)
    PROVE  /\ PartOf(t, b) /\ Size(t) \in Nat
           /\ Size(t) <= n /\ Size(t) <= Size(b) /\ (Size(b) >= n => Size(t) = n)
<1>1. t \in Parts(b) /\ Size(t) = Least(n, Size(b))
  BY DEF Takings
<1>2. PartOf(t, b) /\ Size(b) \in Nat
  BY <1>1, PartsAre, CostsAre
<1> QED
  BY <1>1, <1>2 DEF Least

LEMMA OfPriceIs ==
    ASSUME NEW b, Recorded(b), NEW price
    PROVE  PartOf(OfPrice(b, price), b)
<1> DEFINE S == {v \in DOMAIN b : v.price = price}
<1>1. OfPrice(b, price) = [u \in S |-> b[u]]
  BY DEF OfPrice, BagToSet
<1>2. S \subseteq DOMAIN b /\ IsFiniteSet(S)
  BY FS_Subset DEF Recorded
<1>3. \A u \in DOMAIN b : b[u] \in Nat \ {0} /\ b[u] <= b[u]
  BY DEF Recorded
<1> HIDE DEF S
<1>4. OfPrice(b, price) \in [S -> Nat \ {0}]
  BY <1>1, <1>2, <1>3
<1> QED
  BY <1>1, <1>2, <1>3, <1>4 DEF PartOf, Recorded

LEMMA PartOfPart ==
    ASSUME NEW a, NEW b, NEW c, Recorded(a), PartOf(b, a), PartOf(c, b)
    PROVE  PartOf(c, a)
<1>1. ASSUME NEW u \in DOMAIN c
      PROVE  c[u] <= a[u]
  <2>1. u \in DOMAIN b /\ u \in DOMAIN a
    BY DEF PartOf
  <2>2. c[u] \in Nat /\ b[u] \in Nat /\ a[u] \in Nat /\ c[u] <= b[u] /\ b[u] <= a[u]
    BY <2>1 DEF PartOf, Recorded
  <2> QED
    BY <2>2
<1> QED
  BY <1>1 DEF PartOf

\* Filled up, a bag has n units.
LEMMA FilledIs ==
    ASSUME NEW t, Recorded(t), NEW n \in Nat, Size(t) <= n, NEW spare \in Nat, clock \in Nat
    PROVE  /\ Recorded(Filled(t, n, spare)) /\ Size(Filled(t, n, spare)) = n
           /\ Value(Filled(t, n, spare)) = Value(t) + (n - Size(t)) * spare
           /\ Size(t) = n => Filled(t, n, spare) = t
<1>1. Size(t) \in Nat /\ n - Size(t) \in Nat
  BY CostsAre
<1>2. Unit(spare) \in UnitType /\ Unit(spare).price = spare
  BY DEF Unit, UnitType
<1>3. /\ Recorded(Copies(n - Size(t), Unit(spare)))
      /\ Size(Copies(n - Size(t), Unit(spare))) = n - Size(t)
      /\ Value(Copies(n - Size(t), Unit(spare))) = (n - Size(t)) * spare
  BY <1>1, <1>2, CopiesAre
<1>4. /\ Recorded(Filled(t, n, spare))
      /\ Size(Filled(t, n, spare)) = Size(t) + (n - Size(t))
      /\ Value(Filled(t, n, spare)) = Value(t) + (n - Size(t)) * spare
  BY <1>3, BothAdd DEF Filled
<1>5. ASSUME Size(t) = n
      PROVE  Filled(t, n, spare) = t
  <2>1. DOMAIN Copies(n - Size(t), Unit(spare)) = {}
    BY <1>1, <1>5 DEF Copies
  <2>2. t = [u \in DOMAIN t |-> t[u]] /\ \A u \in DOMAIN t : t[u] + 0 = t[u]
    BY DEF Recorded
  <2> QED
    BY <2>1, <2>2 DEF Filled, (+)
<1> QED
  BY <1>1, <1>4, <1>5

\* What a sale or a direct change takes from the shelf, where there is enough, is there.
LEMMA FromShelfIs ==
    ASSUME Recorded(records[Shelf]), NEW n \in Nat, Size(records[Shelf]) >= n, clock \in Nat,
           NEW b \in FromShelf(n)
    PROVE  PartOf(b, records[Shelf]) /\ Size(b) = n
<1> DEFINE shelf == records[Shelf]
<1>1. CASE b \in {Filled(t, n, BuyPrice) : t \in Takings(shelf, n, FALSE)}
  <2>1. PICK t \in Takings(shelf, n, FALSE) : b = Filled(t, n, BuyPrice)
    BY <1>1
  <2>2. PartOf(t, shelf) /\ Size(t) = n
    BY TakingsAre
  <2>3. Recorded(t) /\ BuyPrice \in Nat /\ Size(t) <= n
    BY <2>2, CostAssumption DEF PartOf
  <2>4. b = t
    BY <2>1, <2>2, <2>3, FilledIs
  <2> QED
    BY <2>2, <2>4
<1>2. CASE \E u \in {v \in BagToSet(shelf) : Size(OfPrice(shelf, v.price)) >= n} :
              b \in Takings(OfPrice(shelf, u.price), n, FALSE)
  <2>1. PICK u : Size(OfPrice(shelf, u.price)) >= n /\ b \in Takings(OfPrice(shelf, u.price), n, FALSE)
    BY <1>2
  <2>2. PICK c : c = OfPrice(shelf, u.price)
    OBVIOUS
  <2>3. PartOf(c, shelf) /\ Recorded(c)
    BY <2>2, OfPriceIs DEF PartOf
  <2>4. b \in Takings(c, n, FALSE) /\ Size(c) >= n
    BY <2>1, <2>2
  <2>5. PartOf(b, c) /\ Size(b) = n
    BY <2>3, <2>4, TakingsAre
  <2> QED
    BY <2>3, <2>5, PartOfPart
<1> QED
  BY <1>1, <1>2 DEF FromShelf

\* An average makes and loses nothing.
LEMMA AveragedIs ==
    ASSUME NEW b, Recorded(b), Size(b) > 0, clock \in Nat
    PROVE  /\ Recorded(Averaged(b))
           /\ Size(Averaged(b)) = Size(b) /\ Value(Averaged(b)) = Value(b)
<1> DEFINE n == Size(b)
           s == Shares(Value(b), n)
<1>1. n \in Nat /\ Value(b) \in Nat
  BY CostsAre
<1> HIDE DEF n
<1>2. /\ s.low \in Nat /\ s.extra \in 0..(n - 1)
      /\ (n - s.extra) * s.low + s.extra * (s.low + 1) = Value(b)
  BY <1>1, SharesAddUp DEF n
<1> HIDE DEF s
<1>3. n - s.extra \in Nat /\ s.extra \in Nat /\ s.low + 1 \in Nat
  BY <1>1, <1>2
<1>4. /\ Unit(s.low) \in UnitType /\ Unit(s.low + 1) \in UnitType
      /\ Unit(s.low).price = s.low /\ Unit(s.low + 1).price = s.low + 1
  BY <1>2, <1>3 DEF Unit, UnitType
<1> DEFINE low == Copies(n - s.extra, Unit(s.low))
           high == Copies(s.extra, Unit(s.low + 1))
<1>5. /\ Recorded(low) /\ Size(low) = n - s.extra /\ Value(low) = (n - s.extra) * s.low
      /\ Recorded(high) /\ Size(high) = s.extra /\ Value(high) = s.extra * (s.low + 1)
  BY <1>3, <1>4, CopiesAre
<1>6. Averaged(b) = low (+) high
  BY DEF Averaged, n, s
<1> HIDE DEF low, high
<1>7. /\ Recorded(Averaged(b)) /\ Size(Averaged(b)) = (n - s.extra) + s.extra
      /\ Value(Averaged(b)) = Value(b)
  BY <1>2, <1>5, <1>6, BothAdd
<1> QED
  BY <1>1, <1>2, <1>7 DEF n

LEMMA WithRecordsIs ==
    ASSUME NEW x, Recorded(records[x]), NEW b, Recorded(b), Size(b) > 0, clock \in Nat
    PROVE  /\ Recorded(WithRecords(x, b))
           /\ Size(WithRecords(x, b)) = Size(records[x]) + Size(b)
           /\ Value(WithRecords(x, b)) = Value(records[x]) + Value(b)
<1> DEFINE c == records[x] (+) b
<1>1. /\ Recorded(c) /\ Size(c) = Size(records[x]) + Size(b)
      /\ Value(c) = Value(records[x]) + Value(b)
  BY BothAdd
<1>2. Size(records[x]) \in Nat /\ Size(b) \in Nat
  BY CostsAre
<1>3. Size(c) > 0
  BY <1>1, <1>2
<1> HIDE DEF c
<1>4. Recorded(Averaged(c)) /\ Size(Averaged(c)) = Size(c) /\ Value(Averaged(c)) = Value(c)
  BY <1>1, <1>3, AveragedIs
<1>5. WithRecords(x, b) = IF setting.keep = "average" THEN Averaged(c) ELSE c
  BY DEF WithRecords, c
<1> QED
  BY <1>1, <1>4, <1>5

\* Two bags that have as many units of each price have as many units.
LEMMA SamePrices ==
    ASSUME NEW a, Recorded(a), NEW b, Recorded(b),
           \A u \in DOMAIN a \cup DOMAIN b :
               Size(OfPrice(a, u.price)) = Size(OfPrice(b, u.price))
    PROVE  Size(a) = Size(b)
<1> DEFINE U == DOMAIN a \cup DOMAIN b
           P == {u.price : u \in U}
           Of(c, s) == [u \in {v \in DOMAIN c : v.price \in s} |-> c[u]]
           F == {s \in SUBSET P : Size(Of(a, s)) = Size(Of(b, s))}
<1>1. IsFiniteSet(P)
  <2>1. IsFiniteSet(U)
    BY FS_Union DEF Recorded
  <2>2. [u \in U |-> u.price] \in Surjection(U, P)
    BY DEF Surjection
  <2> HIDE DEF U, P
  <2> QED
    BY <2>1, <2>2, FS_Surjection
<1>2. ASSUME NEW c, Recorded(c), NEW s, NEW p \in s
      PROVE  Size(Of(c, s)) = Size(Of(c, s \ {p})) + Size(OfPrice(c, p))
  <2>1. ASSUME NEW z
        PROVE  Recorded(Of(c, z))
    <3> DEFINE S == {v \in DOMAIN c : v.price \in z}
    <3>1. S \subseteq DOMAIN c /\ IsFiniteSet(S)
      BY <1>2, FS_Subset DEF Recorded
    <3>2. Of(c, z) \in [S -> Nat \ {0}]
      BY <1>2 DEF Recorded
    <3> QED
      BY <1>2, <3>1, <3>2 DEF Recorded
  <2>2. Recorded(OfPrice(c, p))
    BY <1>2, OfPriceIs DEF PartOf
  <2>3. Of(c, s) = Of(c, s \ {p}) (+) OfPrice(c, p)
    <3>1. \A u \in DOMAIN c : c[u] + 0 = c[u] /\ 0 + c[u] = c[u]
      BY <1>2 DEF Recorded
    <3>2. /\ DOMAIN Of(c, s) = {v \in DOMAIN c : v.price \in s}
          /\ DOMAIN Of(c, s \ {p}) = {v \in DOMAIN c : v.price \in s /\ v.price # p}
          /\ DOMAIN OfPrice(c, p) = {v \in DOMAIN c : v.price = p}
      BY DEF OfPrice, BagToSet
    <3>3. DOMAIN Of(c, s) = DOMAIN Of(c, s \ {p}) \cup DOMAIN OfPrice(c, p)
      BY <1>2, <3>2
    <3>4. ASSUME NEW u \in DOMAIN Of(c, s)
          PROVE  Of(c, s)[u] = (IF u \in DOMAIN Of(c, s \ {p}) THEN Of(c, s \ {p})[u] ELSE 0)
                                 + (IF u \in DOMAIN OfPrice(c, p) THEN OfPrice(c, p)[u] ELSE 0)
      <4>1. CASE u.price = p
        BY <3>1, <3>2, <4>1 DEF OfPrice, BagToSet
      <4>2. CASE u.price # p
        BY <3>1, <3>2, <4>2 DEF OfPrice, BagToSet
      <4> QED
        BY <4>1, <4>2
    <3> QED
      BY <3>3, <3>4 DEF (+)
  <2> QED
    BY <2>1, <2>2, <2>3, BothAdd
<1>3. ASSUME NEW s \in SUBSET P, \A p \in s : s \ {p} \in F
      PROVE  s \in F
  <2>1. CASE s = {}
    BY <2>1
  <2>2. ASSUME NEW p \in s
        PROVE  Size(Of(a, s)) = Size(Of(b, s))
    <3>1. Size(OfPrice(a, p)) = Size(OfPrice(b, p))
      OBVIOUS
    <3>2. Size(Of(a, s \ {p})) = Size(Of(b, s \ {p}))
      BY <1>3
    <3>3. /\ Size(Of(a, s)) = Size(Of(a, s \ {p})) + Size(OfPrice(a, p))
          /\ Size(Of(b, s)) = Size(Of(b, s \ {p})) + Size(OfPrice(b, p))
      BY <1>2
    <3> QED
      BY <3>1, <3>2, <3>3
  <2> QED
    BY <2>1, <2>2
<1>4. P \in F
  <2> HIDE DEF P, F
  <2>1. \A s \in SUBSET P : s \in F
    BY <1>1, <1>3, FamilyInduction
  <2> QED
    BY <2>1
<1>5. ASSUME NEW c, Recorded(c), DOMAIN c \subseteq U
      PROVE  Of(c, P) = c
  <2>1. {v \in DOMAIN c : v.price \in P} = DOMAIN c
    BY <1>5
  <2>2. c = [u \in DOMAIN c |-> c[u]]
    BY <1>5 DEF Recorded
  <2> QED
    BY <2>1, <2>2
<1>6. Of(a, P) = a /\ Of(b, P) = b
  <2>1. DOMAIN a \subseteq U /\ DOMAIN b \subseteq U
    OBVIOUS
  <2> HIDE DEF U, P, Of
  <2> QED
    BY <1>5, <2>1
<1> QED
  BY <1>4, <1>6

-----------------------------------------------------------------------------
(* The records follow the stock and what was paid.                         *)

Kept ==
    /\ records = [x \in Places |-> records[x]] /\ \A x \in Places : Recorded(records[x])
    /\ stock \in Nat /\ clock \in Nat /\ pending \in Nat /\ paid \in Int /\ gone \in Nat
    /\ \/ given = NoPrice
       \/ given.unit \in UnitType /\ given.unit.price = 0 /\ given.price \in Nat
    /\ crossed \in BOOLEAN

CostInv == Kept /\ RecordsCoverStock /\ ValueIsKept /\ AveragesFollow

\* What the sales have taken has cost so much.
Sold == SumFunction([t \in Sales |-> Value(records[t])])

LEMMA SoldIs == Kept => Sold \in Int
<1> SUFFICES ASSUME Kept PROVE Sold \in Int
  OBVIOUS
<1> DEFINE w == [t \in Sales |-> Value(records[t])]
<1>1. w \in [Sales -> Nat]
  BY CostsAre DEF Kept, Places
<1>2. SumFunction(w) \in Nat
  BY <1>1, SumOfNaturals, CostAssumption
<1> QED
  BY <1>2 DEF Sold

LEMMA SoldStays ==
    ASSUME \A t \in Sales : records'[t] = records[t]
    PROVE  Sold' = Sold
BY DEF Sold, Value, BagToSet

LEMMA SoldMoves ==
    ASSUME Kept, NEW t \in Sales, NEW b, Recorded(b),
           NEW c, records' = [records EXCEPT ![t] = b, ![Shelf] = c]
    PROVE  Sold' = Sold + (Value(b) - Value(records[t]))
<1> DEFINE w == [u \in Sales |-> Value(records[u])]
           v == [u \in Sales |-> IF u = t THEN Value(b) ELSE Value(records[u])]
<1>1. \A u \in Sales : records'[u] = IF u = t THEN b ELSE records[u]
  <2>1. DOMAIN records = Places
    BY DEF Kept
  <2>2. Sales \subseteq Places /\ Shelf \notin Sales
    BY CostAssumption DEF Places
  <2> QED
    BY <2>1, <2>2
<1>2. w \in [Sales -> Int] /\ v \in [Sales -> Int]
  <2>1. ASSUME NEW u \in Sales
        PROVE  Value(records[u]) \in Int
    <3>1. Recorded(records[u])
      BY DEF Kept, Places
    <3> QED
      BY <3>1, CostsAre
  <2>2. Value(b) \in Int
    BY CostsAre
  <2> QED
    BY <2>1, <2>2
<1>3. Sold' = SumFunction(v)
  <2>1. Sold' = SumFunction([u \in Sales |-> Value(records'[u])])
    BY DEF Sold, Value, BagToSet
  <2>2. ASSUME NEW u \in Sales
        PROVE  Value(records'[u]) = v[u]
    <3>1. PICK r : r = records'[u]
      OBVIOUS
    <3>2. r = IF u = t THEN b ELSE records[u]
      BY <1>1, <3>1
    <3>3. Value(r) = v[u]
      BY <3>2
    <3> QED
      BY <3>1, <3>3
  <2> QED
    BY <2>1, <2>2
<1>4. SumFunction(v) = SumFunction(w) + (v[t] - w[t])
  <2>1. \A u \in Sales \ {t} : v[u] = w[u]
    OBVIOUS
  <2> HIDE DEF v, w
  <2> QED
    BY <1>2, <2>1, SumMoves, CostAssumption
<1>5. v[t] = Value(b) /\ w[t] = Value(records[t])
  OBVIOUS
<1> QED
  BY <1>3, <1>4, <1>5 DEF Sold

\* The two invariants of the shelf, told without primes.
Follows(shelf, sold, units, money, lost, any) ==
    Size(shelf) = units /\ (~any => money = lost + Value(shelf) + sold)

LEMMA FollowsIs ==
    /\ RecordsCoverStock /\ ValueIsKept <=> Follows(OnShelf, Sold, stock, paid, gone, crossed)
    /\ RecordsCoverStock' /\ ValueIsKept' <=> Follows(OnShelf', Sold', stock', paid', gone', crossed')
<1>1. RecordsCoverStock /\ ValueIsKept <=> Follows(OnShelf, Sold, stock, paid, gone, crossed)
  BY DEF RecordsCoverStock, ValueIsKept, Follows, Sold
<1>2. RecordsCoverStock' /\ ValueIsKept' <=> Follows(OnShelf', Sold', stock', paid', gone', crossed')
  BY DEF RecordsCoverStock, ValueIsKept, Follows, Sold, Size, Value, BagToSet
<1> QED
  BY <1>1, <1>2

\* What two places are given is there, and the others are as they were.
LEMMA Placed ==
    ASSUME Kept, NEW x \in Places, NEW y \in Places, x # y, NEW b, NEW c,
           Recorded(b), Recorded(c),
           records' = [records EXCEPT ![x] = b, ![y] = c]
    PROVE  /\ records' = [z \in Places |-> records'[z]]
           /\ \A z \in Places : Recorded(records'[z])
           /\ records'[x] = b /\ records'[y] = c
           /\ \A z \in Places \ {x, y} : records'[z] = records[z]
<1>1. DOMAIN records = Places /\ \A z \in Places : Recorded(records[z])
  BY DEF Kept
<1>2. /\ records'[x] = b /\ records'[y] = c
      /\ \A z \in Places \ {x, y} : records'[z] = records[z]
      /\ records' = [z \in Places |-> records'[z]]
  BY <1>1
<1>3. ASSUME NEW z \in Places
      PROVE  Recorded(records'[z])
  <2>1. PICK r : r = records'[z]
    OBVIOUS
  <2>2. r = b \/ r = c \/ r = records[z]
    BY <1>2, <2>1
  <2>3. Recorded(r)
    BY <1>1, <2>2
  <2> QED
    BY <2>1, <2>3
<1> QED
  BY <1>2, <1>3

LEMMA ShelfOnly ==
    ASSUME Kept, NEW b, Recorded(b), records' = [records EXCEPT ![Shelf] = b]
    PROVE  /\ records' = [z \in Places |-> records'[z]]
           /\ \A z \in Places : Recorded(records'[z])
           /\ records'[Shelf] = b
           /\ \A z \in Places \ {Shelf} : records'[z] = records[z]
<1>1. DOMAIN records = Places /\ Shelf \in Places /\ \A z \in Places : Recorded(records[z])
  BY DEF Kept, Places
<1>2. /\ records'[Shelf] = b
      /\ \A z \in Places \ {Shelf} : records'[z] = records[z]
      /\ records' = [z \in Places |-> records'[z]]
  BY <1>1
<1>3. ASSUME NEW z \in Places
      PROVE  Recorded(records'[z])
  <2>1. PICK r : r = records'[z]
    OBVIOUS
  <2>2. r = b \/ r = records[z]
    BY <1>2, <2>1
  <2>3. Recorded(r)
    BY <1>1, <2>2
  <2> QED
    BY <2>1, <2>3
<1> QED
  BY <1>2, <1>3

\* A step that has the average calculated again only has to leave units and money right.
LEMMA Followed ==
    ASSUME Kept', pending \in Nat, pending' = pending + 1, NEW shelf, shelf = OnShelf',
           Size(shelf) = stock', ~crossed' => paid' = gone' + Value(shelf) + Sold'
    PROVE  CostInv'
<1>1. RecordsCoverStock' /\ ValueIsKept'
  BY FollowsIs DEF Follows
<1>2. AveragesFollow'
  BY DEF AveragesFollow
<1> QED
  BY <1>1, <1>2 DEF CostInv

\* The price that was given adds to the value of the records it is given to.
CopiesKept(u, b) == IF u \in DOMAIN b THEN b[u] ELSE 0

Extra(b) == IF given = NoPrice THEN 0 ELSE CopiesKept(given.unit, b) * given.price

LEMMA PricedIs ==
    ASSUME NEW b, Recorded(b), NEW u \in UnitType, u.price = 0, NEW price \in Nat
    PROVE  /\ Recorded(Priced(b, u, price)) /\ Size(Priced(b, u, price)) = Size(b)
           /\ Value(Priced(b, u, price)) = Value(b) + CopiesKept(u, b) * price
           /\ CopiesKept(u, b) \in Nat
<1>0. Size(b) \in Nat /\ Value(b) \in Nat
  BY CostsAre
<1>1. CASE u \notin DOMAIN b
  <2>1. Priced(b, u, price) = b /\ CopiesKept(u, b) = 0
    BY <1>1 DEF Priced, BagToSet, CopiesKept
  <2>2. 0 * price = 0
    BY SMT
  <2> QED
    BY <1>0, <2>1, <2>2
<1>2. CASE u \in DOMAIN b
  <2>1. PICK n \in Nat : n = b[u] /\ n > 0
    BY <1>2 DEF Recorded
  <2>2. PICK v : v = [u EXCEPT !.price = price]
    OBVIOUS
  <2>3. v \in UnitType /\ v.price = price
    BY <2>2 DEF UnitType
  <2>4. PICK old, new : old = Copies(n, u) /\ new = Copies(n, v)
    OBVIOUS
  <2>5. /\ Recorded(old) /\ Size(old) = n /\ Value(old) = 0
        /\ Recorded(new) /\ Size(new) = n /\ Value(new) = n * price
    <3>1. \A k \in Nat : k * 0 = 0
      BY SMT
    <3>2. Recorded(old) /\ Size(old) = n /\ Value(old) = n * u.price
      BY <2>4, CopiesAre
    <3>3. Recorded(new) /\ Size(new) = n /\ Value(new) = n * v.price
      BY <2>3, <2>4, CopiesAre
    <3> QED
      BY <2>3, <3>1, <3>2, <3>3
  <2>6. PartOf(old, b)
    <3>1. old = [x \in {u} |-> n]
      BY <2>1, <2>4 DEF Copies
    <3> QED
      BY <1>2, <2>1, <2>5, <3>1 DEF PartOf
  <2>7. PICK left : left = b (-) old
    OBVIOUS
  <2>8. Recorded(left) /\ Size(left) = Size(b) - n /\ Value(left) = Value(b) - 0
    BY <2>5, <2>6, <2>7, RestIs
  <2>9. PICK now : now = left (+) new
    OBVIOUS
  <2>10. /\ Recorded(now) /\ Size(now) = Size(left) + n
         /\ Value(now) = Value(left) + n * price
    BY <2>5, <2>8, <2>9, BothAdd
  <2>11. Priced(b, u, price) = now /\ CopiesKept(u, b) = n
    BY <1>2, <2>1, <2>2, <2>4, <2>7, <2>9 DEF Priced, BagToSet, CopiesKept
  <2>12. n * price \in Nat
    BY TimesIsNat
  <2> QED
    BY <1>0, <2>8, <2>10, <2>11, <2>12
<1> QED
  BY <1>1, <1>2

LEMMA LandedIs ==
    ASSUME Kept, NEW b, Recorded(b)
    PROVE  /\ Recorded(Landed(b)) /\ Size(Landed(b)) = Size(b)
           /\ Value(Landed(b)) = Value(b) + Extra(b) /\ Extra(b) \in Nat
<1>1. Value(b) \in Nat
  BY CostsAre
<1>2. CASE given = NoPrice
  BY <1>1, <1>2 DEF Landed, Extra
<1>3. CASE given # NoPrice
  <2>1. PICK u \in UnitType, price \in Nat : u = given.unit /\ u.price = 0 /\ price = given.price
    BY <1>3 DEF Kept
  <2>2. Landed(b) = Priced(b, u, price) /\ Extra(b) = CopiesKept(u, b) * price
    BY <1>3, <2>1 DEF Landed, Extra
  <2>3. CopiesKept(u, b) \in Nat
    BY <2>1, PricedIs
  <2>4. CopiesKept(u, b) * price \in Nat
    BY <2>3, TimesIsNat
  <2> QED
    BY <2>1, <2>2, <2>4, PricedIs
<1> QED
  BY <1>2, <1>3

\* What is taken or added is of no matter to the record that was given a price, if it has none
\* of its units.
LEMMA ExtraStays ==
    ASSUME NEW a, NEW b, Recorded(a), Recorded(b), ~Lost(b)
    PROVE  Extra(a (+) b) = Extra(a) /\ (PartOf(b, a) => Extra(a (-) b) = Extra(a))
<1>1. CASE given = NoPrice
  BY <1>1 DEF Extra
<1>2. ASSUME NEW u, u \notin DOMAIN b
      PROVE  /\ CopiesKept(u, a (+) b) = CopiesKept(u, a)
             /\ CopiesKept(u, a (-) b) = CopiesKept(u, a)
  <2>0. u \in DOMAIN a => a[u] \in Nat \ {0}
    BY DEF Recorded
  <2>1. DOMAIN (a (+) b) = DOMAIN a \cup DOMAIN b
    BY DEF (+)
  <2>2. u \in DOMAIN a => (a (+) b)[u] = a[u]
    <3>1. u \in DOMAIN a => (a (+) b)[u] = a[u] + 0
      BY <1>2 DEF (+)
    <3> QED
      BY <2>0, <3>1
  <2>3. /\ u \in DOMAIN (a (-) b) <=> u \in DOMAIN a
        /\ u \in DOMAIN a => (a (-) b)[u] = a[u]
    BY <1>2, <2>0 DEF (-)
  <2> QED
    BY <1>2, <2>1, <2>2, <2>3 DEF CopiesKept
<1>3. CASE given # NoPrice
  <2>1. given.unit \notin DOMAIN b
    BY <1>3 DEF Lost, BagToSet
  <2> QED
    BY <1>2, <1>3, <2>1 DEF Extra
<1> QED
  BY <1>1, <1>3

\* What is on the shelf.
LEMMA OnShelfIs ==
    ASSUME Kept
    PROVE  /\ Recorded(records[Shelf]) /\ Recorded(OnShelf) /\ Size(OnShelf) = Size(records[Shelf])
           /\ Value(OnShelf) = Value(records[Shelf]) + Extra(records[Shelf])
           /\ Extra(records[Shelf]) \in Nat
<1>1. Recorded(records[Shelf])
  BY DEF Kept, Places
<1> QED
  BY <1>1, LandedIs DEF OnShelf

\* The figures before.
LEMMA Figures ==
    ASSUME CostInv
    PROVE  /\ Recorded(records[Shelf]) /\ Size(records[Shelf]) = stock /\ Size(OnShelf) = stock
           /\ ~crossed => paid = gone + Value(OnShelf) + Sold
           /\ stock \in Nat /\ clock \in Nat /\ pending \in Nat /\ paid \in Int /\ gone \in Nat
           /\ Sold \in Int /\ Value(OnShelf) \in Nat /\ Recorded(OnShelf)
<1>1. Kept /\ RecordsCoverStock /\ ValueIsKept
  BY DEF CostInv
<1>2. Sold \in Int
  BY <1>1, SoldIs
<1>3. Follows(OnShelf, Sold, stock, paid, gone, crossed)
  BY <1>1, FollowsIs
<1>4. Size(OnShelf) = stock /\ (~crossed => paid = gone + Value(OnShelf) + Sold)
  BY <1>3 DEF Follows
<1>5. Recorded(OnShelf) /\ Recorded(records[Shelf]) /\ Size(records[Shelf]) = stock
  BY <1>1, <1>4, OnShelfIs
<1> QED
  BY <1>1, <1>2, <1>4, <1>5, CostsAre DEF Kept

\* What a transaction takes from the shelf leaves the rest, with the price it did not see.
LEMMA LeftIs ==
    ASSUME Kept, NEW b, PartOf(b, records[Shelf])
    PROVE  /\ Recorded(Left(b)) /\ Size(Left(b)) = Size(records[Shelf]) - Size(b)
           /\ ~Lost(b) => Value(Left(b)) = Value(OnShelf) - Value(b)
<1>1. Recorded(records[Shelf]) /\ Recorded(b)
  BY OnShelfIs DEF PartOf
<1>2. PICK rest : rest = records[Shelf] (-) b
  OBVIOUS
<1>3. /\ Recorded(rest) /\ Size(rest) = Size(records[Shelf]) - Size(b)
      /\ Value(rest) = Value(records[Shelf]) - Value(b)
  BY <1>1, <1>2, RestIs
<1>4. /\ Recorded(Landed(rest)) /\ Size(Landed(rest)) = Size(rest)
      /\ Value(Landed(rest)) = Value(rest) + Extra(rest)
  BY <1>3, LandedIs
<1>5. Left(b) = Landed(rest)
  BY <1>2 DEF Left
<1>6. ~Lost(b) => Extra(rest) = Extra(records[Shelf])
  BY <1>1, <1>2, ExtraStays
<1>7. Value(b) \in Nat /\ Value(records[Shelf]) \in Nat
  BY <1>1, CostsAre
<1> QED
  BY <1>3, <1>4, <1>5, <1>6, <1>7, OnShelfIs

\* What is added joins the others.
LEMMA JoinedIs ==
    ASSUME Kept, NEW b, Recorded(b), Size(b) > 0
    PROVE  /\ Recorded(Joined(b)) /\ Size(Joined(b)) = Size(records[Shelf]) + Size(b)
           /\ ~Lost(b) /\ ~(given # NoPrice /\ setting.keep = "average")
              => Value(Joined(b)) = Value(OnShelf) + Value(b)
<1>1. Recorded(records[Shelf]) /\ clock \in Nat
  BY OnShelfIs DEF Kept
<1>2. PICK all : all = WithRecords(Shelf, b)
  OBVIOUS
<1>3. /\ Recorded(all) /\ Size(all) = Size(records[Shelf]) + Size(b)
      /\ Value(all) = Value(records[Shelf]) + Value(b)
  BY <1>1, <1>2, WithRecordsIs
<1>4. Value(b) \in Nat /\ Value(records[Shelf]) \in Nat
  BY <1>1, CostsAre
<1>5. CASE setting.keep = "average"
  <2>1. Joined(b) = all
    BY <1>2, <1>5 DEF Joined
  <2>2. given = NoPrice => Extra(records[Shelf]) = 0
    BY DEF Extra
  <2> QED
    BY <1>3, <1>4, <1>5, <2>1, <2>2, OnShelfIs
<1>6. CASE setting.keep # "average"
  <2>1. Joined(b) = Landed(all) /\ all = records[Shelf] (+) b
    BY <1>2, <1>6 DEF Joined, WithRecords
  <2>2. /\ Recorded(Landed(all)) /\ Size(Landed(all)) = Size(all)
        /\ Value(Landed(all)) = Value(all) + Extra(all)
    BY <1>3, LandedIs
  <2>3. ~Lost(b) => Extra(all) = Extra(records[Shelf])
    BY <1>1, <2>1, ExtraStays
  <2> QED
    BY <1>3, <1>4, <2>1, <2>2, <2>3, OnShelfIs
<1> QED
  BY <1>5, <1>6

\* Afterwards nothing is under way.
LEMMA AllLanded ==
    ASSUME given' = NoPrice
    PROVE  OnShelf' = records'[Shelf]
BY DEF OnShelf, Landed

\* The records of a delivery or a purchase.
LEMMA NewRecords ==
    ASSUME clock \in Nat, NEW n \in 1..MaxStock, NEW price \in Prices
    PROVE  /\ Recorded(Copies(n, Unit(price))) /\ Size(Copies(n, Unit(price))) = n
           /\ Value(Copies(n, Unit(price))) = n * price
<1>1. n \in Nat /\ n > 0 /\ price \in Nat
  BY CostAssumption
<1>2. Unit(price) \in UnitType /\ Unit(price).price = price
  BY <1>1 DEF Unit, UnitType
<1> QED
  BY <1>1, <1>2, CopiesAre

LEMMA BuyKeeps ==
    ASSUME CostInv, NEW n \in 1..MaxStock, NEW price \in Prices,
           Buy(n, price) \/ \E s \in Stockings : Stocking(s, n, price)
    PROVE  CostInv'
<1> DEFINE b == Copies(n, Unit(price))
           shelf == Joined(b)
<1>1. n \in Nat /\ n > 0 /\ price \in Nat /\ n * price \in Nat
  BY CostAssumption, TimesIsNat
<1>4. Kept
  BY DEF CostInv
<1>2. /\ Recorded(b) /\ Size(b) = n
      /\ Recorded(shelf) /\ Size(shelf) = stock + n
      /\ ~Lost(b) /\ ~(given # NoPrice /\ setting.keep = "average")
         => Value(shelf) = Value(OnShelf) + n * price
  <2>1. Recorded(b) /\ Size(b) = n /\ Value(b) = n * price
    BY Figures, NewRecords
  <2> HIDE DEF b
  <2> QED
    BY <1>1, <1>4, <2>1, JoinedIs, Figures
<1>3. /\ stock' = stock + n /\ paid' = paid + n * price /\ gone' = gone
      /\ clock' = clock /\ pending' = pending + 1 /\ given' = NoPrice
      /\ crossed' = (crossed \/ Lost(b) \/ (given # NoPrice /\ setting.keep = "average"))
  BY DEF Buy, Stocking, Adds
<1>5. /\ records' = [z \in Places |-> records'[z]]
      /\ \A z \in Places : Recorded(records'[z])
      /\ records'[Shelf] = shelf
      /\ \A z \in Sales : records'[z] = records[z]
  <2>1. CASE Buy(n, price)
    <3>1. records' = [records EXCEPT ![Shelf] = shelf]
      BY <2>1 DEF Buy
    <3> HIDE DEF b, shelf
    <3> QED
      BY <1>2, <1>4, <3>1, ShelfOnly, CostAssumption DEF Places
  <2>2. ASSUME NEW s \in Stockings, Stocking(s, n, price)
        PROVE  /\ records' = [z \in Places |-> records'[z]]
               /\ \A z \in Places : Recorded(records'[z])
               /\ records'[Shelf] = shelf
               /\ \A z \in Sales : records'[z] = records[z]
    <3>1. PICK c : c = WithRecords(s, b)
      OBVIOUS
    <3>2. records' = [records EXCEPT ![Shelf] = shelf, ![s] = c]
      BY <2>2, <3>1 DEF Stocking
    <3>3. Shelf \in Places /\ s \in Places /\ Shelf # s /\ s \notin Sales /\ Shelf \notin Sales
          /\ Sales \subseteq Places
      BY CostAssumption DEF Places
    <3>4. Recorded(c)
      <4>1. Recorded(records[s]) /\ clock \in Nat /\ Size(b) > 0
        BY <1>2, <1>4, <3>3 DEF Kept
      <4> HIDE DEF b
      <4> QED
        BY <1>2, <3>1, <4>1, WithRecordsIs
    <3>5. Recorded(shelf)
      BY <1>2
    <3> HIDE DEF b, shelf
    <3>6. /\ records' = [z \in Places |-> records'[z]]
          /\ \A z \in Places : Recorded(records'[z])
          /\ records'[Shelf] = shelf
          /\ \A z \in Places \ {Shelf, s} : records'[z] = records[z]
      BY <1>4, <3>2, <3>3, <3>4, <3>5, Placed
    <3> QED
      BY <3>3, <3>6
  <2> QED
    BY <2>1, <2>2
<1>6. Sold' = Sold
  BY <1>5, SoldStays
<1> HIDE DEF shelf, b
<1>7. Kept'
  BY <1>1, <1>3, <1>4, <1>5 DEF Kept
<1>8. PICK m \in Nat : m = n * price
  BY <1>1
<1>9. Size(shelf) = stock' /\ (~crossed' => paid' = gone' + Value(shelf) + Sold')
  <2>1. ~crossed' => /\ Value(shelf) = Value(OnShelf) + n * price
                     /\ paid = gone + Value(OnShelf) + Sold
    BY <1>2, <1>3, Figures, Zenon
  <2> QED
    BY <1>1, <1>2, <1>3, <1>6, <1>8, <2>1, Figures
<1>10. shelf = OnShelf'
  BY <1>3, <1>5, AllLanded
<1> QED
  BY <1>3, <1>7, <1>9, <1>10, Followed, Figures

\* What a sale takes it has, and what the shelf has is less by that.
LEMMA SellKeeps ==
    ASSUME CostInv, NEW n \in 1..MaxStock, NEW t \in Sales, Sell(t, n)
    PROVE  CostInv'
<1>1. n \in Nat /\ n > 0
  BY CostAssumption
<1>2. PICK b \in FromShelf(n) :
         /\ records' = [records EXCEPT ![Shelf] = Left(b), ![t] = WithRecords(t, b)]
         /\ given' = NoPrice /\ crossed' = (crossed \/ Lost(b))
  BY DEF Sell, Takes
<1>3. /\ stock' = stock - n /\ stock - n >= 0 /\ paid' = paid /\ gone' = gone
      /\ clock' = clock /\ pending' = pending + 1
  BY DEF Sell
<1>4. Kept
  BY DEF CostInv
<1>5. /\ Shelf \in Places /\ t \in Places /\ Shelf # t /\ DOMAIN records = Places
      /\ Recorded(records[t])
  BY <1>4, CostAssumption DEF Places, Kept
<1>6. PartOf(b, records[Shelf]) /\ Size(b) = n /\ Recorded(b)
  <2>1. Size(records[Shelf]) >= n
    BY <1>1, <1>3, Figures
  <2> QED
    BY <1>1, <2>1, Figures, FromShelfIs DEF PartOf
<1>7. PICK left : left = Left(b)
  OBVIOUS
<1>8. /\ Recorded(left) /\ Size(left) = stock - n
      /\ ~Lost(b) => Value(left) = Value(OnShelf) - Value(b)
  BY <1>4, <1>6, <1>7, LeftIs, Figures
<1>9. PICK with : with = WithRecords(t, b)
  OBVIOUS
<1>10. Recorded(with) /\ Value(with) = Value(records[t]) + Value(b)
  BY <1>1, <1>5, <1>6, <1>9, WithRecordsIs, Figures
<1>11. records' = [records EXCEPT ![t] = with, ![Shelf] = left]
  <2>1. records' = [records EXCEPT ![Shelf] = left, ![t] = with]
    BY <1>2, <1>7, <1>9
  <2> QED
    BY <1>5, <2>1
<1>12. /\ records' = [z \in Places |-> records'[z]]
       /\ \A z \in Places : Recorded(records'[z])
       /\ records'[Shelf] = left
  BY <1>4, <1>5, <1>8, <1>10, <1>11, Placed
<1>13. Kept'
  BY <1>1, <1>2, <1>3, <1>4, <1>12 DEF Kept
<1>14. Sold' = Sold + (Value(with) - Value(records[t]))
  BY <1>4, <1>10, <1>11, SoldMoves
<1>15. Value(b) \in Nat /\ Value(records[t]) \in Nat
  BY <1>5, <1>6, CostsAre
<1>16. Size(left) = stock' /\ (~crossed' => paid' = gone' + Value(left) + Sold')
  <2>1. ~crossed' => /\ Value(left) = Value(OnShelf) - Value(b)
                     /\ paid = gone + Value(OnShelf) + Sold
    BY <1>2, <1>8, Figures, Zenon
  <2> QED
    BY <1>2, <1>3, <1>8, <1>10, <1>14, <1>15, <2>1, Figures
<1>17. left = OnShelf'
  BY <1>2, <1>12, AllLanded
<1> QED
  BY <1>3, <1>13, <1>16, <1>17, Followed, Figures

\* What comes back the sale had, and what it did not have has cost nothing.
LEMMA ReturnKeeps ==
    ASSUME CostInv, NEW n \in 1..MaxStock, NEW t \in Sales, Return(t, n)
    PROVE  CostInv'
<1>1. n \in Nat /\ n > 0
  BY CostAssumption
<1>2. PICK b \in Takings(records[t], n, TRUE) :
         /\ records' = [records EXCEPT ![t] = @ (-) b, ![Shelf] = Joined(Filled(b, n, 0))]
         /\ given' = NoPrice
         /\ crossed' = (crossed \/ Lost(Filled(b, n, 0))
                          \/ (given # NoPrice /\ setting.keep = "average"))
  BY DEF Return, Adds
<1>3. /\ stock' = stock + n /\ paid' = paid /\ gone' = gone
      /\ clock' = clock /\ pending' = pending + 1
  BY DEF Return, Scheduled
<1>4. Kept
  BY DEF CostInv
<1>5. /\ Shelf \in Places /\ t \in Places /\ Shelf # t /\ DOMAIN records = Places
      /\ Recorded(records[t])
  BY <1>4, CostAssumption DEF Places, Kept
<1>6. PartOf(b, records[t]) /\ Size(b) <= n /\ Size(b) \in Nat /\ Recorded(b)
  BY <1>1, <1>5, TakingsAre DEF PartOf
<1>7. PICK left : left = records[t] (-) b
  OBVIOUS
<1>8. Recorded(left) /\ Value(left) = Value(records[t]) - Value(b)
  BY <1>5, <1>6, <1>7, RestIs
<1>9. PICK back : back = Filled(b, n, 0)
  OBVIOUS
<1>10. Recorded(back) /\ Size(back) = n /\ Value(back) = Value(b)
  <2>1. /\ Recorded(back) /\ Size(back) = n
        /\ Value(back) = Value(b) + (n - Size(b)) * 0
    BY <1>1, <1>6, <1>9, FilledIs, Figures
  <2>2. Value(b) \in Nat /\ n - Size(b) \in Nat
    BY <1>1, <1>6, CostsAre
  <2>3. \A k \in Nat : k * 0 = 0
    BY SMT
  <2> QED
    BY <2>1, <2>2, <2>3
<1>11. PICK with : with = Joined(back)
  OBVIOUS
<1>12. /\ Recorded(with) /\ Size(with) = stock + n
       /\ ~Lost(back) /\ ~(given # NoPrice /\ setting.keep = "average")
          => Value(with) = Value(OnShelf) + Value(b)
  BY <1>1, <1>4, <1>10, <1>11, JoinedIs, Figures
<1>13. records' = [records EXCEPT ![t] = left, ![Shelf] = with]
  BY <1>2, <1>7, <1>9, <1>11
<1>14. /\ records' = [z \in Places |-> records'[z]]
       /\ \A z \in Places : Recorded(records'[z])
       /\ records'[Shelf] = with
  BY <1>4, <1>5, <1>8, <1>12, <1>13, Placed
<1>15. Kept'
  BY <1>1, <1>2, <1>3, <1>4, <1>14 DEF Kept
<1>16. Sold' = Sold + (Value(left) - Value(records[t]))
  BY <1>4, <1>8, <1>13, SoldMoves
<1>17. Value(b) \in Nat /\ Value(records[t]) \in Nat
  BY <1>5, <1>6, CostsAre
<1>18. Size(with) = stock' /\ (~crossed' => paid' = gone' + Value(with) + Sold')
  <2>1. ~crossed' => /\ Value(with) = Value(OnShelf) + Value(b)
                     /\ paid = gone + Value(OnShelf) + Sold
    BY <1>2, <1>9, <1>12, Figures, Zenon
  <2> QED
    BY <1>2, <1>3, <1>8, <1>9, <1>12, <1>16, <1>17, <2>1, Figures
<1>19. with = OnShelf'
  BY <1>2, <1>14, AllLanded
<1> QED
  BY <1>3, <1>15, <1>18, <1>19, Followed, Figures

\* What leaves without a record is gone.
LEMMA SpendKeeps ==
    ASSUME CostInv, NEW n \in 1..MaxStock, Spend(n)
    PROVE  CostInv'
<1>1. n \in Nat /\ n > 0
  BY CostAssumption
<1>2. PICK b \in FromShelf(n) :
         /\ records' = [records EXCEPT ![Shelf] = Left(b)] /\ gone' = gone + Value(b)
         /\ given' = NoPrice /\ crossed' = (crossed \/ Lost(b))
  BY DEF Spend, Takes
<1>3. /\ stock' = stock - n /\ stock - n >= 0 /\ paid' = paid
      /\ clock' = clock /\ pending' = pending + 1
  BY DEF Spend
<1>4. Kept
  BY DEF CostInv
<1>6. PartOf(b, records[Shelf]) /\ Size(b) = n /\ Recorded(b)
  <2>1. Size(records[Shelf]) >= n
    BY <1>1, <1>3, Figures
  <2> QED
    BY <1>1, <2>1, Figures, FromShelfIs DEF PartOf
<1>7. PICK left : left = Left(b)
  OBVIOUS
<1>8. /\ Recorded(left) /\ Size(left) = stock - n
      /\ ~Lost(b) => Value(left) = Value(OnShelf) - Value(b)
  BY <1>4, <1>6, <1>7, LeftIs, Figures
<1>9. records' = [records EXCEPT ![Shelf] = left]
  BY <1>2, <1>7
<1>10. /\ records' = [z \in Places |-> records'[z]]
       /\ \A z \in Places : Recorded(records'[z])
       /\ records'[Shelf] = left
       /\ \A z \in Sales : records'[z] = records[z]
  BY <1>4, <1>8, <1>9, ShelfOnly, CostAssumption DEF Places
<1>11. Value(b) \in Nat
  BY <1>6, CostsAre
<1>12. Kept'
  BY <1>1, <1>2, <1>3, <1>4, <1>10, <1>11 DEF Kept
<1>13. Sold' = Sold
  BY <1>10, SoldStays
<1>14. Size(left) = stock' /\ (~crossed' => paid' = gone' + Value(left) + Sold')
  <2>1. ~crossed' => /\ Value(left) = Value(OnShelf) - Value(b)
                     /\ paid = gone + Value(OnShelf) + Sold
    BY <1>2, <1>8, Figures, Zenon
  <2> QED
    BY <1>2, <1>3, <1>8, <1>11, <1>13, <2>1, Figures
<1>15. left = OnShelf'
  BY <1>2, <1>10, AllLanded
<1> QED
  BY <1>3, <1>12, <1>14, <1>15, Followed, Figures

\* What is noted of the delivery has as many units of each price as what the shelf gives.
LEMMA RollbackKeeps ==
    ASSUME CostInv, NEW n \in 1..MaxStock, NEW s \in Stockings, StockingRollback(s, n)
    PROVE  CostInv'
<1>1. n \in Nat /\ n > 0
  BY CostAssumption
<1>2. PICK b \in Takings(records[s], n, FALSE), c \in Parts(records[Shelf]) :
         /\ \A u \in BagToSet(b) \cup BagToSet(c) :
               Size(OfPrice(b, u.price)) = Size(OfPrice(c, u.price))
         /\ records' = [records EXCEPT ![s] = @ (-) b, ![Shelf] = Left(c)]
         /\ gone' = gone + Value(c)
         /\ given' = NoPrice /\ crossed' = (crossed \/ Lost(c))
  BY DEF StockingRollback, Takes
<1>3. /\ stock' = stock - n /\ stock - n >= 0 /\ paid' = paid /\ Size(records[s]) >= n
      /\ clock' = clock /\ pending' = pending + 1
  BY DEF StockingRollback
<1>4. Kept
  BY DEF CostInv
<1>5. /\ Shelf \in Places /\ s \in Places /\ Shelf # s /\ s \notin Sales
      /\ Recorded(records[s])
  BY <1>4, CostAssumption DEF Places, Kept
<1>6. PartOf(b, records[s]) /\ Size(b) = n /\ Recorded(b)
  BY <1>1, <1>3, <1>5, TakingsAre DEF PartOf
<1>7. PartOf(c, records[Shelf]) /\ Recorded(c)
  BY PartsAre, Figures DEF PartOf
<1>8. Size(c) = n
  BY <1>2, <1>6, <1>7, SamePrices DEF BagToSet
<1>9. PICK left : left = Left(c)
  OBVIOUS
<1>10. /\ Recorded(left) /\ Size(left) = stock - n
       /\ ~Lost(c) => Value(left) = Value(OnShelf) - Value(c)
  BY <1>4, <1>7, <1>8, <1>9, LeftIs, Figures
<1>11. PICK noted : noted = records[s] (-) b
  OBVIOUS
<1>12. Recorded(noted)
  BY <1>5, <1>6, <1>11, RestIs
<1>13. records' = [records EXCEPT ![s] = noted, ![Shelf] = left]
  BY <1>2, <1>9, <1>11
<1>14. /\ records' = [z \in Places |-> records'[z]]
       /\ \A z \in Places : Recorded(records'[z])
       /\ records'[Shelf] = left
       /\ \A z \in Places \ {s, Shelf} : records'[z] = records[z]
  BY <1>4, <1>5, <1>10, <1>12, <1>13, Placed
<1>15. Value(c) \in Nat
  BY <1>7, CostsAre
<1>16. Kept'
  BY <1>1, <1>2, <1>3, <1>4, <1>14, <1>15 DEF Kept
<1>17. Sold' = Sold
  <2>1. \A z \in Sales : records'[z] = records[z]
    BY <1>5, <1>14, CostAssumption DEF Places
  <2> QED
    BY <2>1, SoldStays
<1>18. Size(left) = stock' /\ (~crossed' => paid' = gone' + Value(left) + Sold')
  <2>1. ~crossed' => /\ Value(left) = Value(OnShelf) - Value(c)
                     /\ paid = gone + Value(OnShelf) + Sold
    BY <1>2, <1>10, Figures, Zenon
  <2> QED
    BY <1>2, <1>3, <1>10, <1>15, <1>17, <2>1, Figures
<1>19. left = OnShelf'
  BY <1>2, <1>14, AllLanded
<1> QED
  BY <1>3, <1>16, <1>18, <1>19, Followed, Figures

\* Units that had no price get one, and that is paid.
LEMMA UpdateKeeps ==
    ASSUME CostInv, NEW u \in BagToSet(records[Shelf]), NEW price \in Prices \ {0},
           UpdateRecord(u, price)
    PROVE  CostInv'
<1>1. Kept
  BY DEF CostInv
<1>2. Recorded(records[Shelf]) /\ u \in DOMAIN records[Shelf]
  BY <1>1, OnShelfIs DEF BagToSet
<1>3. u \in UnitType /\ u.price = 0 /\ price \in Nat /\ price # 0
  BY <1>2, CostAssumption DEF Recorded, UpdateRecord
<1>4. PICK n \in Nat : n = records[Shelf][u]
  BY <1>2 DEF Recorded
<1>5. /\ UNCHANGED <<records, stock, clock, gone, crossed>> /\ pending' = pending + 1
      /\ given = NoPrice /\ given' = [unit |-> u, price |-> price] /\ paid' = paid + n * price
  BY <1>4 DEF UpdateRecord
<1>6. given'.price = price /\ given'.unit = u /\ given' # NoPrice
  BY <1>3, <1>5 DEF NoPrice
<1>7. PICK m \in Nat : m = n * price
  BY <1>3, TimesIsNat
<1>8. Kept'
  BY <1>1, <1>3, <1>5, <1>6, <1>7 DEF Kept
<1>9. OnShelf = records[Shelf] /\ OnShelf' = Priced(records[Shelf], u, price)
  BY <1>5, <1>6 DEF OnShelf, Landed, Priced, Copies, BagToSet
<1>10. PICK shelf : shelf = Priced(records[Shelf], u, price)
  OBVIOUS
<1>11. Size(shelf) = stock /\ Value(shelf) = Value(OnShelf) + m
  BY <1>2, <1>3, <1>4, <1>7, <1>9, <1>10, PricedIs, Figures DEF CopiesKept
<1>12. Sold' = Sold
  BY <1>5, SoldStays
<1>13. Size(shelf) = stock' /\ (~crossed' => paid' = gone' + Value(shelf) + Sold')
  BY <1>5, <1>7, <1>11, <1>12, Figures
<1> QED
  BY <1>5, <1>8, <1>9, <1>10, <1>13, Followed, Figures

\* The later of two prices for the same units is what they have cost.
LEMMA AgainKeeps ==
    ASSUME CostInv, NEW price \in Prices \ {0}, UpdateAgain(price)
    PROVE  CostInv'
<1>1. Kept
  BY DEF CostInv
<1>2. Recorded(records[Shelf])
  BY <1>1, OnShelfIs
<1>3. /\ UNCHANGED <<stock, clock, gone, crossed>> /\ pending' = pending + 1
      /\ given # NoPrice /\ given' = NoPrice
      /\ records' = [records EXCEPT ![Shelf] = Priced(records[Shelf], given.unit, price)]
      /\ given.unit \in BagToSet(records[Shelf])
      /\ paid' = paid + records[Shelf][given.unit] * (price - given.price)
  BY DEF UpdateAgain
<1>4. PICK u \in UnitType, old \in Nat : u = given.unit /\ u.price = 0 /\ old = given.price
  BY <1>1, <1>3 DEF Kept
<1>5. PICK n \in Nat : n = records[Shelf][u] /\ CopiesKept(u, records[Shelf]) = n
  BY <1>2, <1>3, <1>4 DEF Recorded, BagToSet, CopiesKept
<1>6. price \in Nat
  BY CostAssumption
<1>7. PICK shelf : shelf = Priced(records[Shelf], u, price)
  OBVIOUS
<1>8. Recorded(shelf) /\ Size(shelf) = stock /\ Value(shelf) = Value(records[Shelf]) + n * price
  BY <1>2, <1>4, <1>5, <1>6, <1>7, PricedIs, Figures
<1>9. Value(OnShelf) = Value(records[Shelf]) + n * old
  BY <1>1, <1>3, <1>4, <1>5, OnShelfIs DEF Extra
<1>10. paid' = paid + (n * price - n * old) /\ n * price \in Nat /\ n * old \in Nat
  <2>1. n * (price - old) = n * price - n * old
    BY <1>6, SMT
  <2> QED
    BY <1>3, <1>4, <1>5, <1>6, <2>1, TimesIsNat
<1>11. PICK k, m \in Nat : k = n * price /\ m = n * old
  BY <1>10
<1>12. /\ records' = [z \in Places |-> records'[z]]
       /\ \A z \in Places : Recorded(records'[z])
       /\ records'[Shelf] = shelf
       /\ \A z \in Sales : records'[z] = records[z]
  BY <1>1, <1>3, <1>4, <1>7, <1>8, ShelfOnly, CostAssumption DEF Places
<1>13. Sold' = Sold
  BY <1>12, SoldStays
<1>14. Kept'
  BY <1>1, <1>3, <1>10, <1>11, <1>12 DEF Kept
<1>15. Value(records[Shelf]) \in Nat
  BY <1>2, CostsAre
<1>16. Size(shelf) = stock' /\ (~crossed' => paid' = gone' + Value(shelf) + Sold')
  BY <1>3, <1>8, <1>9, <1>10, <1>11, <1>13, <1>15, Figures
<1>17. shelf = OnShelf'
  BY <1>3, <1>12, AllLanded
<1> QED
  BY <1>3, <1>14, <1>16, <1>17, Followed, Figures

\* What was given is there.
LEMMA SettleKeeps ==
    ASSUME CostInv, Settle
    PROVE  CostInv'
<1>1. Kept /\ Recorded(OnShelf)
  BY OnShelfIs DEF CostInv
<1>2. /\ records' = [records EXCEPT ![Shelf] = OnShelf] /\ given' = NoPrice
      /\ UNCHANGED <<stock, stats, clock, pending, paid, gone, missed, crossed>>
  BY DEF Settle
<1>3. PICK shelf : shelf = OnShelf
  OBVIOUS
<1>4. /\ records' = [z \in Places |-> records'[z]]
      /\ \A z \in Places : Recorded(records'[z])
      /\ records'[Shelf] = shelf
      /\ \A z \in Sales : records'[z] = records[z]
  BY <1>1, <1>2, <1>3, ShelfOnly, CostAssumption DEF Places
<1>5. Kept'
  BY <1>1, <1>2, <1>4 DEF Kept
<1>6. OnShelf' = OnShelf /\ Sold' = Sold
  BY <1>2, <1>3, <1>4, AllLanded, SoldStays
<1>7. RecordsCoverStock' /\ ValueIsKept'
  BY <1>2, <1>6, FollowsIs DEF CostInv
<1>8. AveragesFollow'
  BY <1>2, <1>6 DEF CostInv, AveragesFollow, Stats, Value, Size, BagToSet
<1> QED
  BY <1>5, <1>7, <1>8 DEF CostInv

\* A calculation, and what leaves the records alone.
LEMMA RecordsStay ==
    ASSUME CostInv, Recalculate \/ Die \/ Tick \/ ChangeSetting \/ UNCHANGED vars
    PROVE  CostInv'
<1>1. /\ UNCHANGED <<records, stock, paid, gone, given, crossed>>
      /\ clock' \in Nat /\ pending' \in Nat
  BY DEF CostInv, Kept, Recalculate, Die, Tick, ChangeSetting, vars
<1>2. Kept'
  BY <1>1 DEF CostInv, Kept
<1>0. OnShelf' = OnShelf /\ Sold' = Sold
  BY <1>1, SoldStays DEF OnShelf, Landed, Priced, Copies, BagToSet
<1>3. RecordsCoverStock' /\ ValueIsKept'
  BY <1>0, <1>1, FollowsIs DEF CostInv
<1>4. AveragesFollow'
  <2>1. CASE Recalculate
    <3>1. CASE OnShelf = EmptyBag
      <4>1. stock' = 0
        BY <1>1, <3>1, Figures, EmptyIs
      <4> QED
        BY <4>1 DEF AveragesFollow
    <3>2. CASE OnShelf # EmptyBag
      <4>1. stats' = Stats(OnShelf)
        BY <2>1, <3>2 DEF Recalculate
      <4> QED
        BY <1>0, <1>1, <4>1 DEF AveragesFollow, Stats, Value, Size, BagToSet
    <3> QED
      BY <3>1, <3>2
  <2>2. CASE Die
    BY <2>2 DEF Die, AveragesFollow
  <2>3. CASE Tick \/ ChangeSetting \/ UNCHANGED vars
    <3>1. UNCHANGED <<records, stock, stats, pending, missed>>
      BY <2>3 DEF Tick, ChangeSetting, vars
    <3> QED
      BY <1>0, <3>1 DEF CostInv, AveragesFollow, Stats, Value, Size, BagToSet
  <2> QED
    BY <2>1, <2>2, <2>3
<1> QED
  BY <1>2, <1>3, <1>4 DEF CostInv

LEMMA CostStarts == Init => CostInv
<1> SUFFICES ASSUME Init PROVE CostInv
  OBVIOUS
<1>1. /\ records = [x \in Places |-> EmptyBag]
      /\ stock = 0 /\ clock = 0 /\ pending = 0 /\ paid = 0 /\ gone = 0
      /\ given = NoPrice /\ crossed = FALSE
  BY DEF Init
<1>2. Kept
  <2>1. crossed \in BOOLEAN
    BY <1>1
  <2> QED
    BY <1>1, <2>1, EmptyIs DEF Kept
<1>3. records[Shelf] = EmptyBag /\ OnShelf = EmptyBag
  BY <1>1 DEF Places, OnShelf, Landed
<1>4. Sold = 0
  <2> DEFINE w == [t \in Sales |-> Value(records[t])]
  <2>1. ASSUME NEW t \in Sales
        PROVE  Value(records[t]) = 0
    <3>1. records[t] = EmptyBag
      BY <1>1 DEF Places
    <3> QED
      BY <3>1, EmptyIs
  <2>2. w \in [Sales -> Int] /\ \A t \in Sales : w[t] = 0
    BY <2>1
  <2> HIDE DEF w
  <2>3. SumFunction(w) = 0
    BY <2>2, SumOfZeros, CostAssumption
  <2> QED
    BY <2>3 DEF w, Sold
<1>5. RecordsCoverStock
  BY <1>1, <1>3, EmptyIs DEF RecordsCoverStock
<1>6. ValueIsKept
  BY <1>1, <1>3, <1>4, EmptyIs DEF ValueIsKept, Sold
<1>7. AveragesFollow
  BY <1>1 DEF AveragesFollow
<1> QED
  BY <1>2, <1>5, <1>6, <1>7 DEF CostInv

LEMMA CostsKept == Spec => []CostInv
<1>1. Init => CostInv
  BY CostStarts
<1>2. CostInv /\ [Next]_vars => CostInv'
  <2> SUFFICES ASSUME CostInv, [Next]_vars PROVE CostInv'
    OBVIOUS
  <2>1. ASSUME NEW n \in 1..MaxStock, NEW p \in Prices,
               Buy(n, p) \/ \E s \in Stockings : Stocking(s, n, p)
        PROVE  CostInv'
    BY <2>1, BuyKeeps
  <2>2. ASSUME NEW n \in 1..MaxStock, Spend(n) \/ \E t \in Sales : Sell(t, n) \/ Return(t, n)
        PROVE  CostInv'
    BY <2>2, SpendKeeps, SellKeeps, ReturnKeeps
  <2>3. ASSUME NEW n \in 1..MaxStock, NEW s \in Stockings, StockingRollback(s, n)
        PROVE  CostInv'
    BY <2>3, RollbackKeeps
  <2>4. ASSUME NEW p \in Prices \ {0},
               UpdateAgain(p) \/ \E u \in BagToSet(records[Shelf]) : UpdateRecord(u, p)
        PROVE  CostInv'
    BY <2>4, UpdateKeeps, AgainKeeps
  <2> QED
    BY <2>1, <2>2, <2>3, <2>4, SettleKeeps, RecordsStay DEF Next
<1> QED
  BY <1>1, <1>2, PTL DEF Spec

\* However units are bought, delivered, sold, returned twice, averaged and corrected, each of
\* those on the shelf has a record.
THEOREM EveryUnitHasARecord == Spec => []RecordsCoverStock
<1>1. CostInv => RecordsCoverStock
  BY DEF CostInv
<1> QED
  BY <1>1, CostsKept, PTL

\* What has been paid for all units is on the shelf, with the sales, or gone: averages leave
\* no remainder, no return or rollback gives more than there was, and a price that is given
\* while another transaction is at work stays, unless that one moves or averages the record.
THEOREM NoMoneyIsLost == Spec => []ValueIsKept
<1>1. CostInv => ValueIsKept
  BY DEF CostInv
<1> QED
  BY <1>1, CostsKept, PTL

\* When every calculation that was to be made has been made, the product shows the average,
\* the extremes and the total of its records, unless the shelf has become empty.
THEOREM TheAverageIsShown == Spec => []AveragesFollow
<1>1. CostInv => AveragesFollow
  BY DEF CostInv
<1> QED
  BY <1>1, CostsKept, PTL

====
