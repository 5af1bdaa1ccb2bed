---------------------------- MODULE DonateProofs ----------------------------
(***************************************************************************)
(* Donate for any players, orders, amounts, prices and requests: money is  *)
(* not invented, order ids are not recorded again and again, accepted      *)
(* orders are credited, and purchases exceed donations by a bounded sum.   *)
(*                                                                         *)
(* Sums are folds, about which nothing can be proved by unfolding.  The    *)
(* first part shows that a sum is a number of coins, that is, the          *)
(* cardinality of a set: of sets the library knows enough.                 *)
(***************************************************************************)
EXTENDS Donate, FiniteSetTheorems, TLAPS

-----------------------------------------------------------------------------
(* Finite sets *)

\* Among subsets of a finite set there is one with none smaller beside it.
LEMMA MinimalSubset ==
    ASSUME NEW S, IsFiniteSet(S), NEW T, T \subseteq SUBSET S, T # {}
    PROVE  \E X \in T : \A Y \in T : Y \subseteq X => Y = X
  <1>1. IsWellFoundedOn(StrictSubsetOrdering(S), SUBSET S)
    BY FS_StrictSubsetOrderingWellFounded, FS_FiniteSubsetsOfFinite
  <1>2. PICK X \in T : \A Y \in T : <<Y, X>> \notin StrictSubsetOrdering(S)
    BY <1>1, WFMin
  <1> QED
    BY <1>2 DEF StrictSubsetOrdering

\* A set of subsets that has none to begin with is empty.
LEMMA NoneToBeginWith ==
    ASSUME NEW S, IsFiniteSet(S), NEW T, T \subseteq SUBSET S,
           \A X \in T : \E Y \in T : Y \subseteq X /\ Y # X
    PROVE  T = {}
  BY MinimalSubset

LEMMA MaxExists ==
    ASSUME NEW S, S \subseteq Nat, IsFiniteSet(S), S # {}
    PROVE  Max(S) \in S /\ \A n \in S : n <= Max(S)
  <1> DEFINE Topped(T) == \E m \in T : \A n \in T : m >= n
             Bad == {T \in SUBSET S : T # {} /\ ~Topped(T)}
  <1>1. ASSUME NEW T \in Bad
        PROVE  \E U \in Bad : U \subseteq T /\ U # T
    <2>1. T \subseteq S /\ ~Topped(T)
      OBVIOUS
    <2>2. PICK x \in T : TRUE
      OBVIOUS
    <2>3. CASE T \ {x} = {}
      BY <2>1, <2>2, <2>3
    <2>4. CASE T \ {x} # {}
      <3>1. ~Topped(T \ {x})
        <4> SUFFICES ASSUME NEW m \in T \ {x}, \A n \in T \ {x} : m >= n
                     PROVE  FALSE
          OBVIOUS
        <4>1. x \in Nat /\ m \in Nat /\ \A n \in T : n \in Nat
          BY <2>1, <2>2
        <4> QED
          BY <2>1, <2>2, <4>1
      <3>2. T \ {x} \in Bad
        BY <2>1, <2>4, <3>1
      <3> HIDE DEF Bad
      <3> QED
        BY <2>2, <3>2
    <2> QED
      BY <2>3, <2>4
  <1>2. Bad = {}
    <2>1. Bad \subseteq SUBSET S
      OBVIOUS
    <2> HIDE DEF Bad
    <2> QED
      BY <1>1, <2>1, NoneToBeginWith
  <1>3. \E m \in S : \A n \in S : m >= n
    BY <1>2
  <1>4. Max(S) \in S /\ \A n \in S : Max(S) >= n
    BY <1>3 DEF Max
  <1> QED
    BY <1>4

-----------------------------------------------------------------------------
(* Coins: each element of a set, as often as w says *)

Coins(w, S) == {c \in S \X Nat : c[2] < w[c[1]]}

Worth(w, S) == Cardinality(Coins(w, S))

Weighs(w, S) == \A x \in S : w[x] \in Nat

LEMMA CoinsOfMore ==
    ASSUME NEW w, NEW S, NEW x, w[x] \in Nat
    PROVE  /\ Coins(w, S \union {x}) = Coins(w, S) \union ({x} \X (0..(w[x] - 1)))
           /\ x \notin S => Coins(w, S) \intersect ({x} \X (0..(w[x] - 1))) = {}
           /\ IsFiniteSet({x} \X (0..(w[x] - 1)))
           /\ Cardinality({x} \X (0..(w[x] - 1))) = w[x]
  <1>1. Coins(w, S \union {x}) = Coins(w, S) \union ({x} \X (0..(w[x] - 1)))
    BY DEF Coins
  <1>2. x \notin S => Coins(w, S) \intersect ({x} \X (0..(w[x] - 1))) = {}
    BY DEF Coins
  <1>3. /\ IsFiniteSet(0..(w[x] - 1))
        /\ Cardinality(0..(w[x] - 1)) = w[x]
    <2> DEFINE n == w[x] - 1
    <2>1. n \in Int /\ 0 \in Int
      OBVIOUS
    <2> HIDE DEF n
    <2>2. /\ IsFiniteSet(0..n)
          /\ Cardinality(0..n) = IF 0 > n THEN 0 ELSE n - 0 + 1
      BY <2>1, FS_Interval
    <2> QED
      BY <2>2 DEF n
  <1>4. IsFiniteSet({x}) /\ Cardinality({x}) = 1
    BY FS_Singleton
  <1>5. /\ IsFiniteSet({x} \X (0..(w[x] - 1)))
        /\ Cardinality({x} \X (0..(w[x] - 1))) = 1 * w[x]
    BY <1>3, <1>4, FS_Product
  <1> QED
    BY <1>1, <1>2, <1>5

LEMMA CoinsFinite ==
    ASSUME NEW w, NEW S, IsFiniteSet(S), Weighs(w, S)
    PROVE  IsFiniteSet(Coins(w, S))
  <1> DEFINE Bad == {T \in SUBSET S : ~IsFiniteSet(Coins(w, T))}
  <1>1. ASSUME NEW T \in Bad
        PROVE  \E U \in Bad : U \subseteq T /\ U # T
    <2> SUFFICES ASSUME \A U \in Bad : U \subseteq T => U = T
                 PROVE  FALSE
      OBVIOUS
    <2>0. T # {}
      BY FS_EmptySet DEF Coins
    <2>1. PICK x \in T : TRUE
      BY <2>0
    <2>2. IsFiniteSet(Coins(w, T \ {x}))
      BY <2>1
    <2>3. w[x] \in Nat
      BY <2>1 DEF Weighs
    <2>4. (T \ {x}) \union {x} = T
      BY <2>1
    <2> DEFINE X == {x} \X (0..(w[x] - 1))
               R == T \ {x}
    <2>5. Coins(w, R \union {x}) = Coins(w, R) \union X /\ IsFiniteSet(X)
      BY <2>3, CoinsOfMore
    <2> HIDE DEF X
    <2>6. IsFiniteSet(Coins(w, R) \union X)
      BY <2>2, <2>5, FS_Union
    <2> QED
      BY <2>4, <2>5, <2>6
  <1>2. Bad = {}
    <2>1. Bad \subseteq SUBSET S
      OBVIOUS
    <2> HIDE DEF Bad
    <2> QED
      BY <1>1, <2>1, NoneToBeginWith
  <1> QED
    BY <1>2

LEMMA WorthOfNothing ==
    ASSUME NEW w
    PROVE  Worth(w, {}) = 0
  BY FS_EmptySet DEF Worth, Coins

LEMMA WorthOfMore ==
    ASSUME NEW w, NEW S, IsFiniteSet(S), Weighs(w, S), NEW x, w[x] \in Nat, x \notin S
    PROVE  Worth(w, S \union {x}) = w[x] + Worth(w, S)
  <1> DEFINE X == {x} \X (0..(w[x] - 1))
  <1>1. IsFiniteSet(Coins(w, S)) /\ Cardinality(Coins(w, S)) \in Nat
    BY CoinsFinite, FS_CardinalityType
  <1>2. /\ Coins(w, S \union {x}) = Coins(w, S) \union X
        /\ Coins(w, S) \intersect X = {}
        /\ IsFiniteSet(X) /\ Cardinality(X) = w[x]
    BY CoinsOfMore
  <1> HIDE DEF X
  <1>3. Cardinality(Coins(w, S) \union X)
           = Cardinality(Coins(w, S)) + Cardinality(X)
               - Cardinality(Coins(w, S) \intersect X)
    BY <1>1, <1>2, FS_Union
  <1>4. Cardinality(Coins(w, S) \intersect X) = 0
    BY <1>2, FS_EmptySet
  <1>5. Worth(w, S \union {x}) = Cardinality(Coins(w, S) \union X)
    BY <1>2, Zenon DEF Worth
  <1> QED
    BY <1>1, <1>2, <1>3, <1>4, <1>5 DEF Worth

LEMMA WorthOfPart ==
    ASSUME NEW w, NEW S, IsFiniteSet(S), Weighs(w, S), NEW T \in SUBSET S
    PROVE  /\ Worth(w, T) <= Worth(w, S)
           /\ Worth(w, T) \in Nat /\ Worth(w, S) \in Nat
  <1>1. IsFiniteSet(Coins(w, S))
    BY CoinsFinite
  <1>2. Coins(w, T) \subseteq Coins(w, S)
    BY DEF Coins
  <1>3. /\ IsFiniteSet(Coins(w, T))
        /\ Cardinality(Coins(w, T)) <= Cardinality(Coins(w, S))
    BY <1>1, <1>2, FS_Subset
  <1> QED
    BY <1>1, <1>3, FS_CardinalityType DEF Worth

LEMMA WorthOfUnion ==
    ASSUME NEW w, NEW S, IsFiniteSet(S), Weighs(w, S),
           NEW T, IsFiniteSet(T), Weighs(w, T)
    PROVE  Worth(w, S \union T) <= Worth(w, S) + Worth(w, T)
  <1>1. IsFiniteSet(Coins(w, S)) /\ IsFiniteSet(Coins(w, T))
    BY CoinsFinite
  <1>2. Coins(w, S \union T) = Coins(w, S) \union Coins(w, T)
    BY DEF Coins
  <1>3. Cardinality(Coins(w, S) \union Coins(w, T))
           = Cardinality(Coins(w, S)) + Cardinality(Coins(w, T))
               - Cardinality(Coins(w, S) \intersect Coins(w, T))
    BY <1>1, FS_Union
  <1>4. IsFiniteSet(Coins(w, S) \intersect Coins(w, T))
    BY <1>1, FS_Intersection
  <1>5. /\ Cardinality(Coins(w, S)) \in Nat /\ Cardinality(Coins(w, T)) \in Nat
        /\ Cardinality(Coins(w, S) \intersect Coins(w, T)) \in Nat
    BY <1>1, <1>4, FS_CardinalityType
  <1>6. Worth(w, S \union T) = Cardinality(Coins(w, S) \union Coins(w, T))
    BY <1>2, Zenon DEF Worth
  <1> QED
    BY <1>3, <1>5, <1>6 DEF Worth

LEMMA WorthBounded ==
    ASSUME NEW w, NEW S, IsFiniteSet(S), Weighs(w, S),
           NEW most \in Nat, \A x \in S : w[x] <= most
    PROVE  Worth(w, S) <= Cardinality(S) * most
  <1>1. IsFiniteSet(0..(most - 1)) /\ Cardinality(0..(most - 1)) = most
    BY FS_Interval
  <1>2. /\ IsFiniteSet(S \X (0..(most - 1)))
        /\ Cardinality(S \X (0..(most - 1))) = Cardinality(S) * most
    BY <1>1, FS_Product
  <1>3. Coins(w, S) \subseteq S \X (0..(most - 1))
    BY DEF Coins, Weighs
  <1> QED
    BY <1>2, <1>3, FS_Subset DEF Worth

-----------------------------------------------------------------------------
(* Sums: what MapThenSumSet adds up is worth its coins *)

\* f says of every subset of S what adding up w gives, one element after another.
AddsUp(f, w, S) ==
    f = [s \in SUBSET S |->
            IF s = {} THEN 0
            ELSE w[CHOOSE x \in s : TRUE] + f[s \ {CHOOSE x \in s : TRUE}]]

LEMMA WorthAddsUp ==
    ASSUME NEW w, NEW S, IsFiniteSet(S), Weighs(w, S)
    PROVE  AddsUp([s \in SUBSET S |-> Worth(w, s)], w, S)
  <1> DEFINE f == [s \in SUBSET S |-> Worth(w, s)]
  <1>1. ASSUME NEW s \in SUBSET S
        PROVE  f[s] = IF s = {} THEN 0
                      ELSE w[CHOOSE x \in s : TRUE] + f[s \ {CHOOSE x \in s : TRUE}]
    <2>1. CASE s = {}
      BY <2>1, WorthOfNothing
    <2>2. CASE s # {}
      <3> DEFINE x == CHOOSE x \in s : TRUE
      <3>1. x \in s
        BY <2>2
      <3> HIDE DEF x
      <3>2. IsFiniteSet(s \ {x}) /\ Weighs(w, s \ {x}) /\ w[x] \in Nat
        BY <3>1, FS_Subset DEF Weighs
      <3>3. Worth(w, (s \ {x}) \union {x}) = w[x] + Worth(w, s \ {x})
        BY <3>2, WorthOfMore
      <3>4. (s \ {x}) \union {x} = s
        BY <3>1
      <3>5. f[s] = w[x] + f[s \ {x}]
        BY <3>3, <3>4
      <3> QED
        BY <2>2, <3>5 DEF x
    <2> QED
      BY <2>1, <2>2
  <1> HIDE DEF f
  <1>2. f = [s \in SUBSET S |-> f[s]]
    BY DEF f
  <1>3. AddsUp(f, w, S)
    BY <1>1, <1>2 DEF AddsUp
  <1> QED
    BY <1>3 DEF f

LEMMA AddsUpOnce ==
    ASSUME NEW w, NEW S, IsFiniteSet(S),
           NEW f, AddsUp(f, w, S), NEW g, AddsUp(g, w, S)
    PROVE  f = g
  <1> DEFINE Bad == {T \in SUBSET S : f[T] # g[T]}
  <1>0. ASSUME NEW T \in SUBSET S
        PROVE  /\ T = {} => f[T] = g[T]
               /\ T # {} => \E x \in T :
                     f[T] = w[x] + f[T \ {x}] /\ g[T] = w[x] + g[T \ {x}]
    BY DEF AddsUp
  <1>1. ASSUME NEW T \in Bad
        PROVE  \E U \in Bad : U \subseteq T /\ U # T
    <2>1. T \in SUBSET S /\ f[T] # g[T]
      OBVIOUS
    <2>2. PICK x \in T :
             f[T] = w[x] + f[T \ {x}] /\ g[T] = w[x] + g[T \ {x}]
      BY <1>0, <2>1
    <2>3. T \ {x} \in Bad
      BY <2>1, <2>2
    <2> HIDE DEF Bad
    <2> QED
      BY <2>2, <2>3
  <1>2. Bad = {}
    <2>1. Bad \subseteq SUBSET S
      OBVIOUS
    <2> HIDE DEF Bad
    <2> QED
      BY <1>1, <2>1, NoneToBeginWith
  <1>3. /\ f = [s \in SUBSET S |-> f[s]]
        /\ g = [s \in SUBSET S |-> g[s]]
    BY DEF AddsUp
  <1>4. \A s \in SUBSET S : f[s] = g[s]
    BY <1>2
  <1> QED
    BY <1>3, <1>4

LEMMA SumIsWorth ==
    ASSUME NEW w, NEW S, IsFiniteSet(S), Weighs(w, S)
    PROVE  (CHOOSE f : AddsUp(f, w, S))[S] = Worth(w, S)
  <1>1. AddsUp([s \in SUBSET S |-> Worth(w, s)], w, S)
    BY WorthAddsUp
  <1>2. AddsUp(CHOOSE f : AddsUp(f, w, S), w, S)
    BY <1>1
  <1>3. (CHOOSE f : AddsUp(f, w, S)) = [s \in SUBSET S |-> Worth(w, s)]
    BY <1>1, <1>2, AddsUpOnce
  <1> QED
    BY <1>3

MoneyOf == [h \in HistoryRow |-> h.donate]
CostOf == [c \in ConsumeRow |-> c.cost]

LEMMA DonatedIsWorth ==
    ASSUME NEW S, S \subseteq HistoryRow, IsFiniteSet(S)
    PROVE  MapThenSumSet(LAMBDA h : h.donate, S) = Worth(MoneyOf, S)
  <1> DEFINE Adds(f) ==
        f = [s \in SUBSET S |->
               IF s = {} THEN 0
               ELSE (CHOOSE x \in s : TRUE).donate + f[s \ {CHOOSE x \in s : TRUE}]]
  <1>1. MapThenSumSet(LAMBDA h : h.donate, S) = (CHOOSE f : Adds(f))[S]
    BY DEF MapThenSumSet, MapThenFoldSet
  <1>2. ASSUME NEW s \in SUBSET S, s # {}
        PROVE  MoneyOf[CHOOSE x \in s : TRUE] = (CHOOSE x \in s : TRUE).donate
    <2>1. (CHOOSE x \in s : TRUE) \in HistoryRow
      BY <1>2
    <2> QED
      BY <2>1 DEF MoneyOf
  <1>3. ASSUME NEW f
        PROVE  Adds(f) <=> AddsUp(f, MoneyOf, S)
    BY <1>2 DEF AddsUp
  <1> HIDE DEF Adds
  <1>4. (CHOOSE f : Adds(f)) = (CHOOSE f : AddsUp(f, MoneyOf, S))
    BY <1>3
  <1>5. Weighs(MoneyOf, S)
    BY DonateAssumption DEF Weighs, MoneyOf, HistoryRow, DonateAssumption
  <1> QED
    BY <1>1, <1>4, <1>5, SumIsWorth

LEMMA SpentIsWorth ==
    ASSUME NEW S, S \subseteq ConsumeRow, IsFiniteSet(S)
    PROVE  MapThenSumSet(LAMBDA c : c.cost, S) = Worth(CostOf, S)
  <1> DEFINE Adds(f) ==
        f = [s \in SUBSET S |->
               IF s = {} THEN 0
               ELSE (CHOOSE x \in s : TRUE).cost + f[s \ {CHOOSE x \in s : TRUE}]]
  <1>1. MapThenSumSet(LAMBDA c : c.cost, S) = (CHOOSE f : Adds(f))[S]
    BY DEF MapThenSumSet, MapThenFoldSet
  <1>2. ASSUME NEW s \in SUBSET S, s # {}
        PROVE  CostOf[CHOOSE x \in s : TRUE] = (CHOOSE x \in s : TRUE).cost
    <2>1. (CHOOSE x \in s : TRUE) \in ConsumeRow
      BY <1>2
    <2> QED
      BY <2>1 DEF CostOf
  <1>3. ASSUME NEW f
        PROVE  Adds(f) <=> AddsUp(f, CostOf, S)
    BY <1>2 DEF AddsUp
  <1> HIDE DEF Adds
  <1>4. (CHOOSE f : Adds(f)) = (CHOOSE f : AddsUp(f, CostOf, S))
    BY <1>3
  <1>5. Weighs(CostOf, S)
    BY DonateAssumption DEF Weighs, CostOf, ConsumeRow, DonateAssumption
  <1> QED
    BY <1>1, <1>4, <1>5, SumIsWorth

-----------------------------------------------------------------------------
(* What rows of the two tables add up to *)

DonatedIn(S) == MapThenSumSet(LAMBDA h : h.donate, S)

SpentIn(S) == MapThenSumSet(LAMBDA c : c.cost, S)

LEMMA DonatedInMore ==
    ASSUME NEW S, S \subseteq HistoryRow, IsFiniteSet(S),
           NEW T, T \subseteq S
    PROVE  /\ DonatedIn(S) \in Nat /\ DonatedIn(T) \in Nat
           /\ DonatedIn(T) <= DonatedIn(S)
  <1>1. T \subseteq HistoryRow /\ IsFiniteSet(T)
    BY FS_Subset
  <1>2. DonatedIn(S) = Worth(MoneyOf, S) /\ DonatedIn(T) = Worth(MoneyOf, T)
    BY <1>1, DonatedIsWorth DEF DonatedIn
  <1>3. Weighs(MoneyOf, S)
    BY DonateAssumption DEF Weighs, MoneyOf, HistoryRow, DonateAssumption
  <1> QED
    BY <1>2, <1>3, WorthOfPart

LEMMA DonatedInOne ==
    ASSUME NEW h \in HistoryRow
    PROVE  DonatedIn({h}) = h.donate
  <1>1. IsFiniteSet({}) /\ IsFiniteSet({h})
    BY FS_EmptySet, FS_Singleton
  <1>2. DonatedIn({h}) = Worth(MoneyOf, {h})
    BY <1>1, DonatedIsWorth DEF DonatedIn
  <1>3. MoneyOf[h] = h.donate /\ h.donate \in Nat /\ Weighs(MoneyOf, {})
    BY DonateAssumption DEF Weighs, MoneyOf, HistoryRow, DonateAssumption
  <1>4. Worth(MoneyOf, {} \union {h}) = MoneyOf[h] + Worth(MoneyOf, {})
    BY <1>1, <1>3, WorthOfMore
  <1>5. {} \union {h} = {h}
    OBVIOUS
  <1>6. Worth(MoneyOf, {h}) = MoneyOf[h] + 0
    BY <1>4, <1>5, WorthOfNothing
  <1> QED
    BY <1>2, <1>3, <1>6

LEMMA SpentInMore ==
    ASSUME NEW S, S \subseteq ConsumeRow, IsFiniteSet(S),
           NEW T, T \subseteq S
    PROVE  /\ SpentIn(S) \in Nat /\ SpentIn(T) \in Nat
           /\ SpentIn(T) <= SpentIn(S)
  <1>1. T \subseteq ConsumeRow /\ IsFiniteSet(T)
    BY FS_Subset
  <1>2. SpentIn(S) = Worth(CostOf, S) /\ SpentIn(T) = Worth(CostOf, T)
    BY <1>1, SpentIsWorth DEF SpentIn
  <1>3. Weighs(CostOf, S)
    BY DonateAssumption DEF Weighs, CostOf, ConsumeRow, DonateAssumption
  <1> QED
    BY <1>2, <1>3, WorthOfPart

\* Purchases beside those of S: one of price c.cost, and some at most most each.
LEMMA SpentInBeside ==
    ASSUME NEW S, S \subseteq ConsumeRow, IsFiniteSet(S),
           NEW c \in ConsumeRow,
           NEW T, T \subseteq ConsumeRow, IsFiniteSet(T)
    PROVE  /\ SpentIn(S \union {c} \union T)
                 <= SpentIn(S) + c.cost + Cardinality(T) * Max(Costs)
           /\ SpentIn(S) \in Nat
  <1>1. \A R : R \subseteq ConsumeRow => Weighs(CostOf, R)
    BY DonateAssumption DEF Weighs, CostOf, ConsumeRow, DonateAssumption
  <1>2. IsFiniteSet(S \union {c}) /\ IsFiniteSet(S \union {c} \union T)
    BY FS_AddElement, FS_Union
  <1>3. /\ SpentIn(S \union {c} \union T) = Worth(CostOf, S \union {c} \union T)
        /\ SpentIn(S) = Worth(CostOf, S)
    <2>1. S \union {c} \union T \subseteq ConsumeRow
      OBVIOUS
    <2> QED
      BY <1>2, <2>1, SpentIsWorth DEF SpentIn
  <1>4. Worth(CostOf, S \union {c} \union T)
           <= Worth(CostOf, S \union {c}) + Worth(CostOf, T)
    BY <1>1, <1>2, WorthOfUnion
  <1>5. Worth(CostOf, S \union {c}) <= Worth(CostOf, S) + c.cost
    <2>1. CostOf[c] = c.cost /\ c.cost \in Nat
      BY DonateAssumption DEF CostOf, ConsumeRow, DonateAssumption
    <2>2. Worth(CostOf, S) \in Nat
      BY <1>1, WorthOfPart
    <2>3. CASE c \in S
      <3>1. S \union {c} = S
        BY <2>3
      <3>2. Worth(CostOf, S \union {c}) = Worth(CostOf, S)
        BY <3>1, Zenon
      <3> QED
        BY <2>1, <2>2, <3>2
    <2>4. CASE c \notin S
      <3>1. Worth(CostOf, S \union {c}) = CostOf[c] + Worth(CostOf, S)
        BY <1>1, <2>1, <2>4, WorthOfMore
      <3> QED
        BY <2>1, <2>2, <3>1
    <2> QED
      BY <2>3, <2>4
  <1>6. Worth(CostOf, T) <= Cardinality(T) * Max(Costs)
    <2>1. Max(Costs) \in Nat /\ \A k \in Costs : k <= Max(Costs)
      BY DonateAssumption, MaxExists DEF DonateAssumption
    <2>2. \A x \in T : CostOf[x] <= Max(Costs)
      BY <2>1 DEF CostOf, ConsumeRow
    <2> QED
      BY <1>1, <2>1, <2>2, WorthBounded
  <1>7. /\ Worth(CostOf, S \union {c} \union T) \in Nat
        /\ Worth(CostOf, S \union {c}) \in Nat /\ Worth(CostOf, S) \in Nat
        /\ Worth(CostOf, T) \in Nat /\ c.cost \in Nat
        /\ Cardinality(T) * Max(Costs) \in Nat
    <2>1. c.cost \in Nat /\ Max(Costs) \in Nat /\ Cardinality(T) \in Nat
      BY DonateAssumption, MaxExists, FS_CardinalityType
      DEF ConsumeRow, DonateAssumption
    <2>2. S \union {c} \union T \subseteq ConsumeRow /\ S \union {c} \subseteq ConsumeRow
      OBVIOUS
    <2>3. /\ Worth(CostOf, S \union {c} \union T) \in Nat
          /\ Worth(CostOf, S \union {c}) \in Nat
      BY <1>1, <1>2, <2>2, WorthOfPart
    <2>4. Worth(CostOf, S) \in Nat /\ Worth(CostOf, T) \in Nat
      BY <1>1, WorthOfPart
    <2> QED
      BY <2>1, <2>3, <2>4
  <1> QED
    BY <1>3, <1>4, <1>5, <1>6, <1>7

-----------------------------------------------------------------------------
(* The inductive invariant *)

Finite == IsFiniteSet(history) /\ IsFiniteSet(consume)

\* The row a request about an order records.
RowOf(r) == [req |-> r, uid |-> request[r].uid, order |-> request[r].order,
             donate |-> request[r].money]

RowsOf(r) == {h \in history : h.req = r}

\* A request has recorded its row, and no other, or none yet.
RowsRecorded ==
    \A r \in Requests :
        /\ request[r].pc \in {"idle", "orderUsed?", "record"} \union PurchaseSteps =>
              RowsOf(r) = {}
        /\ request[r].pc \in {"balance?", "open", "sum"} => RowsOf(r) = {RowOf(r)}
        /\ request[r].pc = "update" =>
              \A h \in RowsOf(r) : h.uid = request[r].uid

AtOnce ==
    /\ Cardinality(InProgress(OrderSteps)) <= mode.orders
    /\ Cardinality(InProgress(PurchaseSteps)) <= mode.purchases

\* Requests that found the order id unused.
Recording(o) == {r \in InProgress({"record"}) : request[r].order = o}

OrdersCounted ==
    \A o \in Orders :
        Cardinality({h \in history : h.order = o}) + Cardinality(Recording(o))
            <= mode.orders

\* The row a purchase is about to record.
PurchaseOf(r) == [req |-> r, uid |-> request[r].uid, cost |-> request[r].cost]

Buying(u) == {r \in InProgress({"buy"}) : request[r].uid = u}

\* What u has bought, and what he has been found able to pay.
Bought(u) == ConsumeOf(u) \union {PurchaseOf(r) : r \in Buying(u)}

OverspendCounted ==
    ~mode.readFaults => \A u \in Uids :
        SpentIn(Bought(u)) <= DonatedIn(HistoryOf(u)) + (mode.purchases - 1) * Max(Costs)

\* With one operator, a sum that is about to be written is up to date.
SumsFresh ==
    mode.orders = 1 /\ ~mode.readFaults =>
        \A r \in Requests : request[r].pc = "update" =>
            request[r].sum = DonatedIn(HistoryOf(request[r].uid))

\* NoMoneyInvented, with its sums in terms of DonatedIn.
Covered ==
    /\ \A u \in Uids : donate[u] # None => donate[u] <= DonatedIn(HistoryOf(u))
    /\ \A r \in Requests :
          /\ request[r].pc = "update" =>
                request[r].sum <= DonatedIn(HistoryOf(request[r].uid))
          /\ request[r].pc \in {"enough?", "buy"} =>
                request[r].donate <= DonatedIn(HistoryOf(request[r].uid))

\* AcceptedIsCredited, with its sum in terms of DonatedIn.
Credited ==
    mode.orders = 1 /\ ~mode.readFaults =>
        \A u \in Uids : AcceptedOf(u) # {} =>
            donate[u] # None /\ donate[u] >= DonatedIn(AcceptedOf(u))

LedgerInv ==
    /\ TypeOK
    /\ Finite
    /\ RowsRecorded
    /\ AtOnce
    /\ Covered
    /\ OrdersCounted
    /\ OverspendCounted
    /\ SumsFresh
    /\ Credited

-----------------------------------------------------------------------------
(* Requests and sums in a state *)

OrderRequest == [pc : {"orderUsed?", "record", "balance?", "open", "sum"},
                 uid : Uids, order : Orders, money : Amounts]

LEMMA RequestFacts ==
    ASSUME TypeOK, NEW r \in Requests
    PROVE  /\ request[r].pc \in OrderSteps \union PurchaseSteps
                                \union {"idle", "answered"}
           /\ request[r].pc \in OrderSteps \ {"update"} => request[r] \in OrderRequest
           /\ request[r].pc = "update" =>
                 request[r] \in [pc : {"update"}, uid : Uids, sum : Nat]
           /\ request[r].pc = "donated?" =>
                 request[r] \in [pc : {"donated?"}, uid : Uids, cost : Costs]
           /\ request[r].pc \in {"enough?", "buy"} =>
                 request[r] \in [pc : {"enough?", "buy"}, uid : Uids, cost : Costs,
                                 donate : Nat]
           /\ request[r].pc = "idle" => request[r] = Idle
           /\ request[r] = Idle => request[r].pc = "idle"
  <1>1. Requesting(request[r])
    BY DEF TypeOK
  <1> QED
    BY <1>1 DEF Requesting, OrderRequest, OrderSteps, PurchaseSteps, Idle

LEMMA SumsRead ==
    \A u : /\ dbGetUserDonateHistorySum(u) = DonatedIn(HistoryOf(u))
           /\ dbGetUserDonateConsumeSum(u) = SpentIn(ConsumeOf(u))
  BY DEF dbGetUserDonateHistorySum, dbGetUserDonateConsumeSum, DonatedIn, SpentIn

\* The tables and what they add up to.
LEMMA TableFacts ==
    ASSUME TypeOK, Finite, NEW u
    PROVE  /\ HistoryOf(u) \subseteq HistoryRow /\ IsFiniteSet(HistoryOf(u))
           /\ ConsumeOf(u) \subseteq ConsumeRow /\ IsFiniteSet(ConsumeOf(u))
           /\ DonatedIn(HistoryOf(u)) \in Nat
           /\ SpentIn(ConsumeOf(u)) \in Nat
  <1>1. HistoryOf(u) \subseteq history /\ ConsumeOf(u) \subseteq consume
    BY DEF HistoryOf, ConsumeOf
  <1>2. /\ HistoryOf(u) \subseteq HistoryRow /\ IsFiniteSet(HistoryOf(u))
        /\ ConsumeOf(u) \subseteq ConsumeRow /\ IsFiniteSet(ConsumeOf(u))
    BY <1>1, FS_Subset DEF Finite, TypeOK
  <1> QED
    BY <1>2, DonatedInMore, SpentInMore

\* A request r goes from what it is doing to q.
Moves(r, q) ==
    /\ request' = [request EXCEPT ![r] = q]
    /\ UNCHANGED mode

LEMMA MovesFacts ==
    ASSUME TypeOK, NEW r \in Requests, NEW q, Moves(r, q)
    PROVE  /\ DOMAIN request' = Requests
           /\ request'[r] = q
           /\ \A s \in Requests \ {r} : request'[s] = request[s]
           /\ UNCHANGED mode
  BY DEF TypeOK, Moves

LEMMA ContinueFacts ==
    ASSUME TypeOK, NEW r \in Requests, NEW pc, Continue(r, pc), UNCHANGED mode
    PROVE  Moves(r, [request[r] EXCEPT !.pc = pc])
  BY DEF TypeOK, Moves, Continue

LEMMA AnswerFacts ==
    ASSUME NEW r \in Requests, NEW result, Answer(r, result), UNCHANGED mode
    PROVE  Moves(r, [pc |-> "answered", result |-> result])
  BY DEF Moves, Answer

LEMMA InProgressFinite ==
    ASSUME NEW steps
    PROVE  IsFiniteSet(InProgress(steps)) /\ Cardinality(InProgress(steps)) \in Nat
  <1>1. InProgress(steps) \subseteq Requests
    BY DEF InProgress
  <1> QED
    BY <1>1, DonateAssumption, FS_Subset, FS_CardinalityType DEF DonateAssumption

\* The requests in some steps when r moves.
LEMMA InProgressMoves ==
    ASSUME TypeOK, NEW r \in Requests, NEW q, Moves(r, q), NEW steps
    PROVE  /\ InProgress(steps)' = IF q.pc \in steps THEN InProgress(steps) \union {r}
                                  ELSE InProgress(steps) \ {r}
           /\ request[r].pc \in steps <=> r \in InProgress(steps)
           /\ IsFiniteSet(InProgress(steps)')
           /\ q.pc \notin steps \/ request[r].pc \in steps =>
                 /\ Cardinality(InProgress(steps)') <= Cardinality(InProgress(steps))
                 /\ InProgress(steps)' \subseteq InProgress(steps)
           /\ Cardinality(InProgress(steps)') <= Cardinality(InProgress(steps)) + 1
  <1>1. /\ InProgress(steps)' = IF q.pc \in steps THEN InProgress(steps) \union {r}
                               ELSE InProgress(steps) \ {r}
        /\ request[r].pc \in steps <=> r \in InProgress(steps)
    BY MovesFacts DEF InProgress
  <1>2. IsFiniteSet(InProgress(steps)) /\ Cardinality(InProgress(steps)) \in Nat
    BY InProgressFinite
  <1>3. CASE q.pc \in steps
    <2>1. InProgress(steps)' = InProgress(steps) \union {r}
      BY <1>1, <1>3
    <2>2. /\ IsFiniteSet(InProgress(steps) \union {r})
          /\ Cardinality(InProgress(steps) \union {r}) =
               IF r \in InProgress(steps) THEN Cardinality(InProgress(steps))
               ELSE Cardinality(InProgress(steps)) + 1
      BY <1>2, FS_AddElement
    <2>3. /\ IsFiniteSet(InProgress(steps)')
          /\ Cardinality(InProgress(steps)') =
               IF r \in InProgress(steps) THEN Cardinality(InProgress(steps))
               ELSE Cardinality(InProgress(steps)) + 1
      BY <2>1, <2>2, Zenon
    <2>4. r \in InProgress(steps) => InProgress(steps)' \subseteq InProgress(steps)
      BY <2>1
    <2> QED
      BY <1>1, <1>2, <1>3, <2>3, <2>4
  <1>4. CASE q.pc \notin steps
    <2>1. InProgress(steps)' \subseteq InProgress(steps)
      BY <1>1, <1>4
    <2>2. /\ IsFiniteSet(InProgress(steps)')
          /\ Cardinality(InProgress(steps)') <= Cardinality(InProgress(steps))
      BY <1>2, <2>1, FS_Subset
    <2>3. Cardinality(InProgress(steps)') \in Nat
      BY <2>2, FS_CardinalityType
    <2> QED
      BY <1>1, <1>2, <2>1, <2>2, <2>3
  <1> QED
    BY <1>3, <1>4

-----------------------------------------------------------------------------
(* Steps that leave the tables alone *)

Refuses(r, q) ==
    request[r].pc \in OrderSteps \union PurchaseSteps
    /\ q.pc = "answered" /\ q.result # "ok"

QuietStep(r, q) ==
    LET p == request[r]
    IN  /\ Moves(r, q)
        /\ UNCHANGED <<history, donate, consume>>
        /\ Requesting(q)
        /\ \/ /\ p.pc = "idle" /\ q.pc = "orderUsed?"
              /\ Cardinality(InProgress(OrderSteps)) < mode.orders
           \/ /\ p.pc = "idle" /\ q.pc = "donated?"
              /\ Cardinality(InProgress(PurchaseSteps)) < mode.purchases
           \/ /\ p.pc = "orderUsed?" /\ q = [p EXCEPT !.pc = "record"]
              /\ \A h \in history : h.order # p.order
           \/ /\ p.pc = "balance?"
              /\ \E pc \in {"open", "sum"} : q = [p EXCEPT !.pc = pc]
           \/ /\ p.pc = "sum" /\ q.pc = "update" /\ q.uid = p.uid
              /\ q.sum = DonatedIn(HistoryOf(p.uid)) \/ (q.sum = 0 /\ mode.readFaults)
           \/ /\ p.pc = "donated?" /\ q.pc = "enough?" /\ q.uid = p.uid
              /\ donate[p.uid] # None /\ q.donate = donate[p.uid]
           \/ /\ p.pc = "enough?" /\ q = [p EXCEPT !.pc = "buy"]
              /\ ~mode.readFaults => p.donate - SpentIn(ConsumeOf(p.uid)) >= p.cost
           \/ Refuses(r, q)

LEMMA AnswerTyped ==
    ASSUME NEW result \in Results
    PROVE  /\ Requesting([pc |-> "answered", result |-> result])
           /\ [pc |-> "answered", result |-> result].pc = "answered"
           /\ [pc |-> "answered", result |-> result].result = result
  BY DEF Requesting

LEMMA RefusesFacts ==
    ASSUME NEW r \in Requests, NEW result \in Results, result # "ok",
           Answer(r, result), UNCHANGED <<history, donate, consume, mode>>,
           request[r].pc \in OrderSteps \union PurchaseSteps
    PROVE  \E q : QuietStep(r, q)
  <1> DEFINE q == [pc |-> "answered", result |-> result]
  <1>1. Moves(r, q) /\ Requesting(q) /\ q.pc = "answered" /\ q.result = result
    BY AnswerFacts, AnswerTyped
  <1> HIDE DEF q
  <1>2. QuietStep(r, q)
    BY <1>1 DEF QuietStep, Refuses
  <1> QED
    BY <1>2

LEMMA OrderQuiet ==
    ASSUME TypeOK, Finite, NEW r \in Requests,
           \/ \E u \in Uids, o \in Orders, m \in Amounts : AddDonate(r, u, o, m)
           \/ CheckOrder(r)
           \/ dbIsUserDonateExists(r)
    PROVE  \E q : QuietStep(r, q)
  <1> USE DEF OrderSteps, PurchaseSteps
  <1>1. ASSUME NEW u \in Uids, NEW o \in Orders, NEW m \in Amounts,
               AddDonate(r, u, o, m)
        PROVE  \E q : QuietStep(r, q)
    <2> DEFINE q == [pc |-> "orderUsed?", uid |-> u, order |-> o, money |-> m]
    <2>1. /\ Moves(r, q) /\ UNCHANGED <<history, donate, consume>>
          /\ request[r].pc = "idle"
          /\ Cardinality(InProgress(OrderSteps)) < mode.orders
      BY <1>1 DEF AddDonate, Begin, Moves, Idle
    <2>2. Requesting(q) /\ q.pc = "orderUsed?"
      BY DEF Requesting
    <2> HIDE DEF q
    <2>3. QuietStep(r, q)
      BY <2>1, <2>2 DEF QuietStep
    <2> QED
      BY <2>3
  <1>2. CASE CheckOrder(r)
    <2>1. /\ request[r].pc = "orderUsed?"
          /\ UNCHANGED <<history, donate, consume, mode>>
          /\ \/ Answer(r, "orderUsed")
             \/ Continue(r, "record") /\ ~dbIsUserDonateHistoryExists(request[r].order)
      BY <1>2 DEF CheckOrder, Query
    <2>2. CASE Answer(r, "orderUsed")
      BY <2>1, <2>2, RefusesFacts DEF Results
    <2>3. CASE /\ Continue(r, "record")
               /\ ~dbIsUserDonateHistoryExists(request[r].order)
      <3> DEFINE q == [request[r] EXCEPT !.pc = "record"]
      <3>1. Moves(r, q)
        BY <2>1, <2>3, ContinueFacts
      <3>2. Requesting(q)
        BY <2>1, RequestFacts DEF Requesting, OrderRequest
      <3>3. \A h \in history : h.order # request[r].order
        BY <2>3 DEF dbIsUserDonateHistoryExists
      <3>4. QuietStep(r, q)
        BY <2>1, <3>1, <3>2, <3>3 DEF QuietStep
      <3> QED
        BY <3>4
    <2> QED
      BY <2>1, <2>2, <2>3
  <1>3. CASE dbIsUserDonateExists(r)
    <2>1. /\ request[r].pc = "balance?"
          /\ UNCHANGED <<history, donate, consume, mode>>
      BY <1>3 DEF dbIsUserDonateExists
    <2>2. PICK pc \in {"open", "sum"} : Continue(r, pc)
      BY <1>3 DEF dbIsUserDonateExists
    <2> DEFINE q == [request[r] EXCEPT !.pc = pc]
    <2>3. Moves(r, q)
      BY <2>1, <2>2, ContinueFacts
    <2>4. Requesting(q)
      BY <2>1, RequestFacts DEF Requesting, OrderRequest
    <2>5. QuietStep(r, q)
      BY <2>1, <2>3, <2>4 DEF QuietStep
    <2> QED
      BY <2>5
  <1> QED
    BY <1>1, <1>2, <1>3

LEMMA SumQuiet ==
    ASSUME TypeOK, Finite, NEW r \in Requests, SumHistory(r)
    PROVE  \E q : QuietStep(r, q)
  <1> USE DEF OrderSteps, PurchaseSteps
  <1> DEFINE p == request[r]
  <1>1. p.pc = "sum" /\ UNCHANGED <<history, donate, consume, mode>>
    BY DEF SumHistory
  <1>2. PICK found \in Query(donate[p.uid] # None, {FALSE}),
             sum \in Query(dbGetUserDonateHistorySum(p.uid), {0}) :
               IF found
               THEN request' = [request EXCEPT ![r] =
                      [pc |-> "update", uid |-> p.uid, sum |-> sum]]
               ELSE Answer(r, "failed")
    BY DEF SumHistory
  <1>3. CASE Answer(r, "failed")
    BY <1>1, <1>3, RefusesFacts DEF Results
  <1>4. CASE request' = [request EXCEPT ![r] =
                [pc |-> "update", uid |-> p.uid, sum |-> sum]]
    <2> DEFINE q == [pc |-> "update", uid |-> p.uid, sum |-> sum]
    <2>1. Moves(r, q)
      BY <1>1, <1>4 DEF Moves
    <2>2. sum = DonatedIn(HistoryOf(p.uid)) \/ (sum = 0 /\ mode.readFaults)
      <3>1. sum = dbGetUserDonateHistorySum(p.uid) \/ (sum = 0 /\ mode.readFaults)
        BY <1>2 DEF Query
      <3> QED
        BY <3>1, SumsRead
    <2>3. sum \in Nat
      BY <2>2, TableFacts
    <2>4. Requesting(q) /\ q.pc = "update" /\ q.uid = p.uid /\ q.sum = sum
      BY <1>1, <2>3, RequestFacts DEF Requesting, OrderRequest
    <2> HIDE DEF q
    <2>5. QuietStep(r, q)
      BY <1>1, <2>1, <2>2, <2>4 DEF QuietStep
    <2> QED
      BY <2>5
  <1> QED
    BY <1>2, <1>3, <1>4

LEMMA PurchaseQuiet ==
    ASSUME TypeOK, Finite, NEW r \in Requests,
           \/ \E u \in Uids, c \in Costs : BuyItem(r, u, c)
           \/ GetDonate(r)
           \/ CheckLeft(r)
    PROVE  \E q : QuietStep(r, q)
  <1> USE DEF OrderSteps, PurchaseSteps
  <1> DEFINE p == request[r]
  <1>1. ASSUME NEW u \in Uids, NEW c \in Costs, BuyItem(r, u, c)
        PROVE  \E q : QuietStep(r, q)
    <2> DEFINE q == [pc |-> "donated?", uid |-> u, cost |-> c]
    <2>1. /\ Moves(r, q) /\ UNCHANGED <<history, donate, consume>>
          /\ p.pc = "idle"
          /\ Cardinality(InProgress(PurchaseSteps)) < mode.purchases
      BY <1>1 DEF BuyItem, Begin, Moves, Idle
    <2>2. Requesting(q) /\ q.pc = "donated?"
      BY DEF Requesting
    <2> HIDE DEF q
    <2>3. QuietStep(r, q)
      BY <2>1, <2>2 DEF QuietStep
    <2> QED
      BY <2>3
  <1>2. CASE GetDonate(r)
    <2>1. p.pc = "donated?" /\ UNCHANGED <<history, donate, consume, mode>>
      BY <1>2 DEF GetDonate
    <2>2. PICK found \in {donate[p.uid], None} :
             IF found = None
             THEN Answer(r, "noBalance")
             ELSE request' = [request EXCEPT ![r] =
                    [pc |-> "enough?", uid |-> p.uid, cost |-> p.cost,
                     donate |-> found]]
      BY <1>2 DEF GetDonate, Query
    <2>3. CASE Answer(r, "noBalance")
      BY <2>1, <2>3, RefusesFacts DEF Results
    <2>4. CASE found # None
      <3> DEFINE q == [pc |-> "enough?", uid |-> p.uid, cost |-> p.cost,
                       donate |-> found]
      <3>1. Moves(r, q)
        BY <2>1, <2>2, <2>4 DEF Moves
      <3>2. found = donate[p.uid] /\ found # None
        BY <2>2, <2>4
      <3>3. p.uid \in Uids /\ p.cost \in Costs
        BY <2>1, RequestFacts
      <3>4. found \in Nat
        BY <3>2, <3>3 DEF TypeOK
      <3>5. /\ Requesting(q) /\ q.pc = "enough?" /\ q.uid = p.uid
            /\ q.donate = found
        BY <3>3, <3>4 DEF Requesting
      <3> HIDE DEF q
      <3>6. QuietStep(r, q)
        BY <2>1, <3>1, <3>2, <3>5 DEF QuietStep
      <3> QED
        BY <3>6
    <2> QED
      BY <2>2, <2>3, <2>4
  <1>3. CASE CheckLeft(r)
    <2>1. p.pc = "enough?" /\ UNCHANGED <<history, donate, consume, mode>>
      BY <1>3 DEF CheckLeft
    <2>2. PICK spent \in Query(dbGetUserDonateConsumeSum(p.uid), {0}) :
             IF p.donate - spent < p.cost
             THEN Answer(r, "notEnough")
             ELSE Continue(r, "buy")
      BY <1>3 DEF CheckLeft
    <2>3. CASE Answer(r, "notEnough")
      BY <2>1, <2>3, RefusesFacts DEF Results
    <2>4. CASE ~(p.donate - spent < p.cost) /\ Continue(r, "buy")
      <3> DEFINE q == [p EXCEPT !.pc = "buy"]
      <3>1. Moves(r, q)
        BY <2>1, <2>4, ContinueFacts
      <3>2. Requesting(q)
        BY <2>1, RequestFacts DEF Requesting
      <3>3. p.donate \in Nat /\ p.cost \in Nat
        BY <2>1, RequestFacts, DonateAssumption DEF DonateAssumption
      <3>4. ~mode.readFaults => p.donate - SpentIn(ConsumeOf(p.uid)) >= p.cost
        <4> SUFFICES ASSUME ~mode.readFaults
                     PROVE  p.donate - SpentIn(ConsumeOf(p.uid)) >= p.cost
          OBVIOUS
        <4>1. spent = SpentIn(ConsumeOf(p.uid))
          BY <2>2, SumsRead DEF Query
        <4>2. spent \in Nat
          BY <4>1, TableFacts
        <4> QED
          BY <2>4, <3>3, <4>1, <4>2
      <3>5. QuietStep(r, q)
        BY <2>1, <3>1, <3>2, <3>4 DEF QuietStep
      <3> QED
        BY <3>5
    <2> QED
      BY <2>2, <2>3, <2>4
  <1> QED
    BY <1>1, <1>2, <1>3

\* What a quiet step keeps of its request, by the step it comes to.
LEMMA QuietFacts ==
    ASSUME TypeOK, NEW r \in Requests, NEW q, QuietStep(r, q)
    PROVE  /\ q.pc \in {"orderUsed?", "donated?", "record", "open", "sum", "update",
                        "enough?", "buy", "answered"}
           /\ request[r].pc # "answered"
           /\ q.pc = "orderUsed?" => request[r].pc = "idle"
           /\ q.pc = "donated?" => request[r].pc = "idle"
           /\ q.pc = "record" =>
                 request[r].pc = "orderUsed?" /\ q = [request[r] EXCEPT !.pc = "record"]
           /\ q.pc \in {"open", "sum"} =>
                 request[r].pc = "balance?" /\ q = [request[r] EXCEPT !.pc = q.pc]
           /\ q.pc = "update" => request[r].pc = "sum" /\ q.uid = request[r].uid
           /\ q.pc = "enough?" => request[r].pc = "donated?"
           /\ q.pc = "buy" =>
                 request[r].pc = "enough?" /\ q = [request[r] EXCEPT !.pc = "buy"]
           /\ q.pc = "answered" => Refuses(r, q)
  BY RequestFacts
  DEF QuietStep, Refuses, OrderSteps, PurchaseSteps, OrderRequest

-----------------------------------------------------------------------------
(* Quiet steps keep the invariant, conjunct by conjunct *)

LEMMA QuietTyped ==
    ASSUME TypeOK, Finite, NEW r \in Requests, NEW q, QuietStep(r, q)
    PROVE  TypeOK' /\ Finite'
  <1>1. /\ Moves(r, q) /\ Requesting(q)
        /\ history' = history /\ donate' = donate /\ consume' = consume
    BY DEF QuietStep
  <1>2. \A s \in Requests : Requesting(request'[s])
    BY <1>1, MovesFacts DEF TypeOK
  <1> QED
    BY <1>1, <1>2, MovesFacts DEF TypeOK, Finite

LEMMA QuietRows ==
    ASSUME TypeOK, RowsRecorded, NEW r \in Requests, NEW q, QuietStep(r, q)
    PROVE  RowsRecorded'
  <1>1. Moves(r, q) /\ \A s : RowsOf(s)' = RowsOf(s)
    BY DEF QuietStep, RowsOf
  <1>2. /\ request'[r] = q
        /\ \A s \in Requests \ {r} : request'[s] = request[s]
    BY <1>1, MovesFacts
  <1>3. ASSUME NEW s \in Requests, s # r
        PROVE  /\ request'[s].pc \in {"idle", "orderUsed?", "record"} \union PurchaseSteps =>
                     RowsOf(s)' = {}
               /\ request'[s].pc \in {"balance?", "open", "sum"} =>
                     RowsOf(s)' = {RowOf(s)'}
               /\ request'[s].pc = "update" =>
                     \A h \in RowsOf(s)' : h.uid = request'[s].uid
    <2>1. request'[s] = request[s] /\ RowOf(s)' = RowOf(s)
      BY <1>2, <1>3 DEF RowOf
    <2> QED
      BY <1>1, <2>1 DEF RowsRecorded
  <1>4. /\ q.pc \in {"idle", "orderUsed?", "record"} \union PurchaseSteps => RowsOf(r) = {}
        /\ q.pc \in {"balance?", "open", "sum"} => RowsOf(r) = {RowOf(r)'}
        /\ q.pc = "update" => \A h \in RowsOf(r) : h.uid = q.uid
    <2>1. CASE q.pc \in {"orderUsed?", "donated?", "record", "enough?", "buy"}
      <3>1. request[r].pc \in {"idle", "orderUsed?", "record"} \union PurchaseSteps
        BY <2>1, QuietFacts DEF PurchaseSteps
      <3> QED
        BY <2>1, <3>1 DEF RowsRecorded
    <2>2. CASE q.pc \in {"open", "sum"}
      <3>1. request[r].pc = "balance?" /\ q = [request[r] EXCEPT !.pc = q.pc]
        BY <2>2, QuietFacts
      <3>2. request[r] \in OrderRequest
        BY <3>1, RequestFacts DEF OrderSteps
      <3>3. RowOf(r)' = RowOf(r)
        BY <1>2, <3>1, <3>2 DEF RowOf, OrderRequest
      <3> QED
        BY <2>2, <3>1, <3>3 DEF RowsRecorded, PurchaseSteps
    <2>3. CASE q.pc = "update"
      <3>1. request[r].pc = "sum" /\ q.uid = request[r].uid
        BY <2>3, QuietFacts
      <3> QED
        BY <2>3, <3>1 DEF RowsRecorded, RowOf, PurchaseSteps
    <2>4. CASE q.pc = "answered"
      BY <2>4 DEF PurchaseSteps
    <2> QED
      BY <2>1, <2>2, <2>3, <2>4, QuietFacts
  <1> QED
    BY <1>1, <1>2, <1>3, <1>4 DEF RowsRecorded

\* However r moves: it was in progress before, or there was room for it.
LEMMA AtOnceMoves ==
    ASSUME TypeOK, AtOnce, NEW r \in Requests, NEW q, Moves(r, q),
           q.pc \in OrderSteps =>
              \/ request[r].pc \in OrderSteps
              \/ Cardinality(InProgress(OrderSteps)) < mode.orders,
           q.pc \in PurchaseSteps =>
              \/ request[r].pc \in PurchaseSteps
              \/ Cardinality(InProgress(PurchaseSteps)) < mode.purchases
    PROVE  AtOnce'
  <1>1. mode' = mode /\ mode.orders \in Nat /\ mode.purchases \in Nat
    BY DonateAssumption DEF Moves, TypeOK, DonateAssumption
  <1>2. ASSUME NEW steps, NEW most \in Nat, Cardinality(InProgress(steps)) <= most,
               q.pc \in steps => request[r].pc \in steps
                                 \/ Cardinality(InProgress(steps)) < most
        PROVE  Cardinality(InProgress(steps)') <= most
    <2>1. /\ q.pc \notin steps \/ request[r].pc \in steps =>
                Cardinality(InProgress(steps)') <= Cardinality(InProgress(steps))
          /\ Cardinality(InProgress(steps)') <= Cardinality(InProgress(steps)) + 1
          /\ IsFiniteSet(InProgress(steps)')
      BY InProgressMoves
    <2>2. /\ Cardinality(InProgress(steps)') \in Nat
          /\ Cardinality(InProgress(steps)) \in Nat
      BY <2>1, InProgressFinite, FS_CardinalityType
    <2> QED
      BY <1>2, <2>1, <2>2
  <1>3. Cardinality(InProgress(OrderSteps)') <= mode.orders
    BY <1>1, <1>2 DEF AtOnce
  <1>4. Cardinality(InProgress(PurchaseSteps)') <= mode.purchases
    BY <1>1, <1>2 DEF AtOnce
  <1>5. OrderSteps' = OrderSteps /\ PurchaseSteps' = PurchaseSteps
    BY DEF OrderSteps, PurchaseSteps
  <1> QED
    BY <1>1, <1>3, <1>4, <1>5 DEF AtOnce, InProgress

LEMMA QuietAtOnce ==
    ASSUME TypeOK, AtOnce, NEW r \in Requests, NEW q, QuietStep(r, q)
    PROVE  AtOnce'
  <1>1. Moves(r, q)
    BY DEF QuietStep
  <1>2. /\ q.pc = "orderUsed?" => Cardinality(InProgress(OrderSteps)) < mode.orders
        /\ q.pc = "donated?" => Cardinality(InProgress(PurchaseSteps)) < mode.purchases
    BY RequestFacts DEF QuietStep, Refuses, OrderRequest, OrderSteps, PurchaseSteps
  <1>3. /\ q.pc \in OrderSteps => q.pc = "orderUsed?" \/ request[r].pc \in OrderSteps
        /\ q.pc \in PurchaseSteps =>
              q.pc = "donated?" \/ request[r].pc \in PurchaseSteps
    BY QuietFacts DEF OrderSteps, PurchaseSteps
  <1> QED
    BY <1>1, <1>2, <1>3, AtOnceMoves

LEMMA QuietCovered ==
    ASSUME TypeOK, Finite, Covered, NEW r \in Requests, NEW q, QuietStep(r, q)
    PROVE  Covered'
  <1>1. Moves(r, q) /\ donate' = donate
    BY DEF QuietStep
  <1>2. \A u : DonatedIn(HistoryOf(u)') = DonatedIn(HistoryOf(u))
    <2>1. \A u : HistoryOf(u)' = HistoryOf(u)
      BY DEF QuietStep, HistoryOf
    <2> QED
      BY <2>1, Zenon
  <1>3. /\ request'[r] = q
        /\ \A s \in Requests \ {r} : request'[s] = request[s]
    BY <1>1, MovesFacts
  <1>4. q.pc = "update" => q.sum <= DonatedIn(HistoryOf(q.uid))
    <2> SUFFICES ASSUME q.pc = "update"
                 PROVE  q.sum <= DonatedIn(HistoryOf(q.uid))
      OBVIOUS
    <2>1. q.uid = request[r].uid /\ request[r].pc = "sum"
      BY QuietFacts
    <2>2. q.sum = DonatedIn(HistoryOf(q.uid)) \/ q.sum = 0
      BY <2>1 DEF QuietStep, Refuses
    <2>3. DonatedIn(HistoryOf(q.uid)) \in Nat
      BY TableFacts
    <2> QED
      BY <2>2, <2>3
  <1>5. q.pc \in {"enough?", "buy"} => q.donate <= DonatedIn(HistoryOf(q.uid))
    <2>1. CASE q.pc = "enough?"
      <3>1. /\ request[r].pc = "donated?" /\ q.uid = request[r].uid
            /\ donate[q.uid] # None /\ q.donate = donate[q.uid]
        <4>1. request[r].pc = "donated?"
          BY <2>1, QuietFacts
        <4> QED
          BY <2>1, <4>1 DEF QuietStep, Refuses
      <3>2. q.uid \in Uids
        BY <3>1, RequestFacts
      <3> QED
        BY <3>1, <3>2 DEF Covered
    <2>2. CASE q.pc = "buy"
      <3>1. request[r].pc = "enough?" /\ q = [request[r] EXCEPT !.pc = "buy"]
        BY <2>2, QuietFacts
      <3>2. q.uid = request[r].uid /\ q.donate = request[r].donate
        BY <3>1, RequestFacts
      <3> QED
        BY <3>1, <3>2 DEF Covered
    <2> QED
      BY <2>1, <2>2
  <1>6. ASSUME NEW s \in Requests
        PROVE  /\ request'[s].pc = "update" =>
                     request'[s].sum <= DonatedIn(HistoryOf(request'[s].uid))
               /\ request'[s].pc \in {"enough?", "buy"} =>
                     request'[s].donate <= DonatedIn(HistoryOf(request'[s].uid))
    BY <1>3, <1>4, <1>5 DEF Covered
  <1>7. \A u : DonatedIn(HistoryOf(u))' = DonatedIn(HistoryOf(u))
    BY <1>2
  <1> QED
    BY <1>1, <1>6, <1>7 DEF Covered

\* Requests that move elsewhere than to "record" add to no order.
LEMMA RecordingMoves ==
    ASSUME TypeOK, NEW r \in Requests, NEW q, Moves(r, q),
           q.pc # "record", NEW o
    PROVE  /\ Recording(o)' = Recording(o) \ {r}
           /\ IsFiniteSet(Recording(o)) /\ IsFiniteSet(Recording(o)')
           /\ Cardinality(Recording(o)') <= Cardinality(Recording(o))
           /\ Cardinality(Recording(o)) \in Nat
           /\ Cardinality(Recording(o)') \in Nat
  <1>1. Recording(o)' = Recording(o) \ {r}
    BY MovesFacts DEF Recording, InProgress
  <1>2. Recording(o) \subseteq Requests
    BY DEF Recording, InProgress
  <1>3. IsFiniteSet(Recording(o))
    BY <1>2, DonateAssumption, FS_Subset DEF DonateAssumption
  <1>4. /\ IsFiniteSet(Recording(o)')
        /\ Cardinality(Recording(o)') <= Cardinality(Recording(o))
    BY <1>1, <1>3, FS_Subset
  <1> QED
    BY <1>1, <1>3, <1>4, FS_CardinalityType

LEMMA QuietOrders ==
    ASSUME TypeOK, Finite, AtOnce', OrdersCounted,
           NEW r \in Requests, NEW q, QuietStep(r, q)
    PROVE  OrdersCounted'
  <1>1. Moves(r, q) /\ history' = history /\ mode' = mode
    BY DEF QuietStep, Moves
  <1>2. mode.orders \in Nat
    BY DonateAssumption DEF TypeOK, DonateAssumption
  <1>3. SUFFICES ASSUME NEW o \in Orders
                 PROVE  Cardinality({h \in history : h.order = o})
                           + Cardinality(Recording(o)') <= mode.orders
    BY <1>1 DEF OrdersCounted
  <1> DEFINE Rows == {h \in history : h.order = o}
  <1>4. IsFiniteSet(Rows) /\ Cardinality(Rows) \in Nat
    BY FS_Subset, FS_CardinalityType DEF Finite
  <1>5. Cardinality(Rows) + Cardinality(Recording(o)) <= mode.orders
    BY DEF OrdersCounted
  <1>6. CASE q.pc # "record"
    <2>1. /\ Cardinality(Recording(o)') <= Cardinality(Recording(o))
          /\ Cardinality(Recording(o)') \in Nat /\ Cardinality(Recording(o)) \in Nat
      BY <1>1, <1>6, RecordingMoves
    <2> HIDE DEF Rows
    <2>2. Cardinality(Rows) + Cardinality(Recording(o)') <= mode.orders
      BY <1>2, <1>4, <1>5, <2>1
    <2> QED
      BY <2>2 DEF Rows
  <1>7. CASE q.pc = "record"
    <2>1. /\ request[r].pc = "orderUsed?" /\ q = [request[r] EXCEPT !.pc = "record"]
          /\ \A h \in history : h.order # request[r].order
      <3>1. request[r].pc = "orderUsed?" /\ q = [request[r] EXCEPT !.pc = "record"]
        BY <1>7, QuietFacts
      <3> QED
        BY <1>7, <3>1 DEF QuietStep, Refuses
    <2>2. q.order = request[r].order
      <3>1. request[r] \in OrderRequest
        BY <2>1, RequestFacts DEF OrderSteps
      <3> QED
        BY <2>1, <3>1 DEF OrderRequest
    <2>3. /\ request'[r] = q
          /\ \A s \in Requests \ {r} : request'[s] = request[s]
      BY <1>1, MovesFacts
    <2>4. CASE o = q.order
      <3>1. Rows = {}
        BY <2>1, <2>2, <2>4
      <3>2. Cardinality(Rows) = 0
        BY <3>1, FS_EmptySet
      <3>3. Recording(o)' \subseteq InProgress(OrderSteps)'
        BY DEF Recording, InProgress, OrderSteps
      <3>4. /\ IsFiniteSet(InProgress(OrderSteps)')
            /\ Cardinality(InProgress(OrderSteps)') \in Nat
        BY <1>1, InProgressMoves, FS_CardinalityType
      <3>5. /\ Cardinality(Recording(o)') <= Cardinality(InProgress(OrderSteps)')
            /\ Cardinality(Recording(o)') \in Nat
        BY <3>3, <3>4, FS_Subset, FS_CardinalityType
      <3>6. Cardinality(InProgress(OrderSteps)') <= mode.orders
        BY <1>1 DEF AtOnce
      <3> QED
        BY <1>2, <3>2, <3>4, <3>5, <3>6
    <2>5. CASE o # q.order
      <3>1. Recording(o)' = Recording(o)
        <4>1. request[r].pc # "record"
          BY <2>1
        <4> QED
          BY <2>3, <2>5, <4>1 DEF Recording, InProgress
      <3> QED
        BY <1>5, <3>1, Zenon
    <2> QED
      BY <2>4, <2>5
  <1> QED
    BY <1>6, <1>7

LEMMA BoughtFacts ==
    ASSUME TypeOK, Finite, NEW u
    PROVE  /\ Bought(u) \subseteq ConsumeRow /\ IsFiniteSet(Bought(u))
           /\ IsFiniteSet({PurchaseOf(s) : s \in Buying(u)})
           /\ {PurchaseOf(s) : s \in Buying(u)} \subseteq ConsumeRow
           /\ Cardinality({PurchaseOf(s) : s \in Buying(u)})
                 <= Cardinality(Buying(u))
  <1> DEFINE T == {PurchaseOf(s) : s \in Buying(u)}
  <1>1. Buying(u) \subseteq InProgress(PurchaseSteps)
    BY DEF Buying, InProgress, PurchaseSteps
  <1>2. IsFiniteSet(Buying(u))
    BY <1>1, InProgressFinite, FS_Subset
  <1>3. [s \in Buying(u) |-> PurchaseOf(s)] \in Surjection(Buying(u), T)
    BY DEF Surjection
  <1>4. IsFiniteSet(T) /\ Cardinality(T) <= Cardinality(Buying(u))
    BY <1>2, <1>3, FS_Surjection
  <1>5. T \subseteq ConsumeRow
    <2>1. ASSUME NEW s \in Buying(u)
          PROVE  PurchaseOf(s) \in ConsumeRow
      <3>1. s \in Requests /\ request[s].pc = "buy"
        BY DEF Buying, InProgress
      <3>2. request[s].uid \in Uids /\ request[s].cost \in Costs
        BY <3>1, RequestFacts
      <3> QED
        BY <3>1, <3>2 DEF PurchaseOf, ConsumeRow
    <2> QED
      BY <2>1
  <1> HIDE DEF T
  <1>6. IsFiniteSet(ConsumeOf(u) \union T) /\ ConsumeOf(u) \union T \subseteq ConsumeRow
    BY <1>4, <1>5, TableFacts, FS_Union
  <1> QED
    BY <1>4, <1>5, <1>6 DEF T, Bought

LEMMA BoughtTyped ==
    TypeOK /\ Finite => \A u : Bought(u) \subseteq ConsumeRow /\ IsFiniteSet(Bought(u))
  BY BoughtFacts

LEMMA BoughtTypedNext ==
    (TypeOK /\ Finite => \A u : Bought(u) \subseteq ConsumeRow /\ IsFiniteSet(Bought(u)))'
  BY BoughtTyped, PTL

\* Purchases decided on by others than r are as they were.
LEMMA BuyingMoves ==
    ASSUME TypeOK, NEW r \in Requests, NEW q, Moves(r, q), NEW u
    PROVE  /\ \A s \in Buying(u) \ {r} : s \in Buying(u)' /\ PurchaseOf(s)' = PurchaseOf(s)
           /\ \A s \in Buying(u)' \ {r} : s \in Buying(u) /\ PurchaseOf(s)' = PurchaseOf(s)
  BY MovesFacts DEF Buying, InProgress, PurchaseOf

\* A purchase that is found payable: its price fits beside what was bought, and
\* the purchases decided on before it cost at most the highest price each.
LEMMA PayableFits ==
    ASSUME TypeOK, Finite, AtOnce', Covered, ~mode.readFaults,
           NEW r \in Requests, NEW q, QuietStep(r, q), q.pc = "buy"
    PROVE  SpentIn(Bought(q.uid)')
              <= DonatedIn(HistoryOf(q.uid)) + (mode.purchases - 1) * Max(Costs)
  <1>1. /\ Moves(r, q) /\ history' = history /\ consume' = consume /\ mode' = mode
        /\ request[r].pc = "enough?" /\ q = [request[r] EXCEPT !.pc = "buy"]
    BY QuietFacts DEF QuietStep, Moves
  <1>u. PICK u : u = request[r].uid
    OBVIOUS
  <1>c. PICK c : c = [req |-> r, uid |-> u, cost |-> request[r].cost]
    OBVIOUS
  <1> DEFINE T == {PurchaseOf(s) : s \in Buying(u)}
  <1>2. request[r].donate - SpentIn(ConsumeOf(u)) >= request[r].cost
    BY <1>1, <1>u DEF QuietStep, Refuses
  <1>3. /\ u \in Uids /\ request[r].cost \in Costs /\ request[r].donate \in Nat
        /\ q.uid = u /\ q.cost = request[r].cost
    BY <1>1, <1>u, RequestFacts
  <1>4. c \in ConsumeRow /\ c.cost = request[r].cost
    BY <1>3, <1>c DEF ConsumeRow
  <1>5. /\ ConsumeOf(u) \subseteq ConsumeRow /\ IsFiniteSet(ConsumeOf(u))
        /\ DonatedIn(HistoryOf(u)) \in Nat
    BY TableFacts
  <1>6. /\ T \subseteq ConsumeRow /\ IsFiniteSet(T)
        /\ Cardinality(T) <= Cardinality(Buying(u))
    BY BoughtFacts
  <1>7. Cardinality(T) \in Nat /\ Cardinality(T) <= mode.purchases - 1
    <2>1. Buying(u) \subseteq InProgress(PurchaseSteps)' \ {r}
      <3>1. \A s \in Requests \ {r} : request'[s] = request[s]
        BY <1>1, MovesFacts
      <3>2. request[r].pc # "buy"
        BY <1>1
      <3> QED
        BY <3>1, <3>2 DEF Buying, InProgress, PurchaseSteps
    <2>2. r \in InProgress(PurchaseSteps)'
      BY <1>1, MovesFacts DEF InProgress, PurchaseSteps
    <2>3. IsFiniteSet(InProgress(PurchaseSteps)')
      BY <1>1, InProgressMoves
    <2>4. /\ IsFiniteSet(InProgress(PurchaseSteps)' \ {r})
          /\ Cardinality(InProgress(PurchaseSteps)' \ {r})
                = Cardinality(InProgress(PurchaseSteps)') - 1
      BY <2>2, <2>3, FS_RemoveElement
    <2>5. Cardinality(Buying(u)) <= Cardinality(InProgress(PurchaseSteps)') - 1
      BY <2>1, <2>4, FS_Subset
    <2>6. IsFiniteSet(Buying(u))
      BY <2>1, <2>4, FS_Subset
    <2>7. /\ Cardinality(Buying(u)) \in Nat /\ Cardinality(T) \in Nat
          /\ Cardinality(InProgress(PurchaseSteps)') \in Nat
      BY <1>6, <2>3, <2>6, FS_CardinalityType
    <2>8. /\ Cardinality(InProgress(PurchaseSteps)') <= mode.purchases
          /\ mode.purchases \in Nat
      BY <1>1, DonateAssumption DEF AtOnce, TypeOK, DonateAssumption
    <2> QED
      BY <1>6, <2>5, <2>7, <2>8
  <1>8. Bought(u)' = ConsumeOf(u) \union {c} \union T
    <2>1. /\ \A s \in Buying(u) \ {r} :
                s \in Buying(u)' /\ PurchaseOf(s)' = PurchaseOf(s)
          /\ \A s \in Buying(u)' \ {r} :
                s \in Buying(u) /\ PurchaseOf(s)' = PurchaseOf(s)
      BY <1>1, BuyingMoves
    <2>2. request'[r] = q
      BY <1>1, MovesFacts
    <2>3. r \notin Buying(u)
      BY <1>1 DEF Buying, InProgress
    <2>4. r \in Buying(u)' /\ PurchaseOf(r)' = c
      <3>1. request'[r].pc = "buy" /\ request'[r].uid = u
            /\ request'[r].cost = request[r].cost
        BY <1>3, <2>2
      <3> QED
        BY <1>c, <3>1 DEF Buying, InProgress, PurchaseOf
    <2>5. ConsumeOf(u)' = ConsumeOf(u)
      BY <1>1 DEF ConsumeOf
    <2>6. {PurchaseOf(s)' : s \in Buying(u)'} = {c} \union T
      BY <2>1, <2>3, <2>4
    <2>7. Bought(u)' = ConsumeOf(u)' \union {PurchaseOf(s)' : s \in Buying(u)'}
      BY DEF Bought
    <2> HIDE DEF T
    <2> QED
      BY <2>5, <2>6, <2>7
  <1> HIDE DEF T
  <1>9. /\ SpentIn(ConsumeOf(u) \union {c} \union T)
              <= SpentIn(ConsumeOf(u)) + c.cost + Cardinality(T) * Max(Costs)
        /\ SpentIn(ConsumeOf(u)) \in Nat
    BY <1>4, <1>5, <1>6, SpentInBeside
  <1>10. SpentIn(Bought(u)')
            <= SpentIn(ConsumeOf(u)) + c.cost + Cardinality(T) * Max(Costs)
    <2>1. SpentIn(Bought(u)') = SpentIn(ConsumeOf(u) \union {c} \union T)
      BY <1>8, Zenon
    <2> QED
      BY <1>9, <2>1
  <1>11. Cardinality(T) * Max(Costs) <= (mode.purchases - 1) * Max(Costs)
    <2>1. Max(Costs) \in Nat
      BY DonateAssumption, MaxExists DEF DonateAssumption
    <2>2. mode.purchases \in Nat
      BY DonateAssumption DEF TypeOK, DonateAssumption
    <2>3. \A a, b, m \in Nat : a <= b - 1 => a * m <= (b - 1) * m
      OBVIOUS
    <2> QED
      BY <1>7, <2>1, <2>2, <2>3
  <1>12. request[r].donate <= DonatedIn(HistoryOf(u))
    BY <1>1, <1>u DEF Covered
  <1>13. /\ SpentIn(Bought(u)') \in Nat
         /\ Cardinality(T) * Max(Costs) \in Nat
         /\ (mode.purchases - 1) * Max(Costs) \in Int
    <2>1. Max(Costs) \in Nat /\ mode.purchases \in Nat
      BY DonateAssumption, MaxExists DEF TypeOK, DonateAssumption
    <2>2. ConsumeOf(u) \union {c} \union T \subseteq ConsumeRow
          /\ IsFiniteSet(ConsumeOf(u) \union {c} \union T)
      <3>1. IsFiniteSet(ConsumeOf(u) \union {c})
        BY <1>5, FS_AddElement
      <3>2. IsFiniteSet((ConsumeOf(u) \union {c}) \union T)
        BY <1>6, <3>1, FS_Union
      <3> QED
        BY <1>4, <1>5, <1>6, <3>2
    <2>3. SpentIn(ConsumeOf(u) \union {c} \union T) \in Nat
      BY <2>2, SpentInMore
    <2>4. SpentIn(Bought(u)') \in Nat
      BY <1>8, <2>3
    <2> QED
      BY <1>7, <2>1, <2>4
  <1>14. SpentIn(Bought(u)')
            <= DonatedIn(HistoryOf(u)) + (mode.purchases - 1) * Max(Costs)
    <2>1. c.cost \in Nat
      BY <1>3, <1>4, DonateAssumption DEF DonateAssumption
    <2> DEFINE most == (mode.purchases - 1) * Max(Costs)
               some == Cardinality(T) * Max(Costs)
    <2> HIDE DEF most, some
    <2> QED
      BY <1>2, <1>3, <1>4, <1>5, <1>9, <1>10, <1>11, <1>12, <1>13, <2>1 DEF most, some
  <1> QED
    BY <1>3, <1>14

\* When r does not come to "buy", nobody is found able to pay for more.
LEMMA BoughtMoves ==
    ASSUME TypeOK, Finite, OverspendCounted, NEW r \in Requests, NEW q, Moves(r, q),
           q.pc # "buy", NEW u \in Uids, ~mode.readFaults,
           ConsumeOf(u)' \subseteq Bought(u)
    PROVE  SpentIn(Bought(u)')
              <= DonatedIn(HistoryOf(u)) + (mode.purchases - 1) * Max(Costs)
  <1>1. request'[r] = q
    BY MovesFacts
  <1>2. r \notin Buying(u)'
    BY <1>1 DEF Buying, InProgress
  <1>3. \A s \in Buying(u)' : s \in Buying(u) /\ PurchaseOf(s)' = PurchaseOf(s)
    BY <1>2, BuyingMoves
  <1>4. Bought(u)' = ConsumeOf(u)' \union {PurchaseOf(s)' : s \in Buying(u)'}
    BY DEF Bought
  <1>5. Bought(u)' \subseteq Bought(u)
    <2>1. {PurchaseOf(s)' : s \in Buying(u)'} \subseteq Bought(u)
      BY <1>3 DEF Bought
    <2> QED
      BY <1>4, <2>1
  <1>6. /\ SpentIn(Bought(u)') <= SpentIn(Bought(u))
        /\ SpentIn(Bought(u)') \in Nat /\ SpentIn(Bought(u)) \in Nat
    BY <1>5, BoughtFacts, SpentInMore
  <1>7. DonatedIn(HistoryOf(u)) + (mode.purchases - 1) * Max(Costs) \in Int
    <2>1. mode.purchases \in Nat /\ Max(Costs) \in Nat
      BY DonateAssumption, MaxExists DEF TypeOK, DonateAssumption
    <2>2. \A a, b \in Nat : (a - 1) * b \in Int
      OBVIOUS
    <2>3. DonatedIn(HistoryOf(u)) \in Nat
      BY TableFacts
    <2> QED
      BY <2>1, <2>2, <2>3
  <1>8. SpentIn(Bought(u))
           <= DonatedIn(HistoryOf(u)) + (mode.purchases - 1) * Max(Costs)
    BY DEF OverspendCounted
  <1> QED
    BY <1>6, <1>7, <1>8

LEMMA QuietOverspend ==
    ASSUME TypeOK, Finite, AtOnce', Covered, OverspendCounted,
           NEW r \in Requests, NEW q, QuietStep(r, q)
    PROVE  OverspendCounted'
  <1>1. /\ Moves(r, q) /\ mode' = mode
        /\ \A u : HistoryOf(u)' = HistoryOf(u) /\ ConsumeOf(u)' = ConsumeOf(u)
    BY DEF QuietStep, Moves, HistoryOf, ConsumeOf
  <1>2. ASSUME ~mode.readFaults, NEW u \in Uids
        PROVE  SpentIn(Bought(u)')
                  <= DonatedIn(HistoryOf(u)) + (mode.purchases - 1) * Max(Costs)
    <2>1. CASE q.pc # "buy"
      <3>1. ConsumeOf(u)' \subseteq Bought(u)
        BY <1>1 DEF Bought
      <3> QED
        BY <1>1, <1>2, <2>1, <3>1, BoughtMoves
    <2>2. CASE q.pc = "buy" /\ q.uid = u
      BY <1>2, <2>2, PayableFits
    <2>3. CASE q.pc = "buy" /\ q.uid # u
      <3>1. r \notin Buying(u)' /\ r \notin Buying(u)
        <4>1. request'[r].uid # u
          BY <1>1, <2>3, MovesFacts
        <4>2. request[r].pc # "buy"
          BY <2>3, QuietFacts
        <4> QED
          BY <4>1, <4>2 DEF Buying, InProgress
      <3>2. /\ Buying(u)' = Buying(u)
            /\ \A s \in Buying(u) : PurchaseOf(s)' = PurchaseOf(s)
        BY <1>1, <3>1, BuyingMoves
      <3>3. /\ Bought(u)' = ConsumeOf(u)' \union {PurchaseOf(s)' : s \in Buying(u)'}
            /\ Bought(u) = ConsumeOf(u) \union {PurchaseOf(s) : s \in Buying(u)}
        BY DEF Bought
      <3>4. {PurchaseOf(s)' : s \in Buying(u)'} = {PurchaseOf(s) : s \in Buying(u)}
        BY <3>2
      <3>5. Bought(u)' = Bought(u)
        BY <1>1, <3>3, <3>4
      <3>6. SpentIn(Bought(u)') = SpentIn(Bought(u))
        BY <3>5, Zenon
      <3> QED
        BY <1>2, <3>6 DEF OverspendCounted
    <2> QED
      BY <2>1, <2>2, <2>3
  <1>3. \A u : DonatedIn(HistoryOf(u))' = DonatedIn(HistoryOf(u))
    <2>1. \A u : DonatedIn(HistoryOf(u)') = DonatedIn(HistoryOf(u))
      BY <1>1, Zenon
    <2> QED
      BY <2>1
  <1>4. \A u : SpentIn(Bought(u))' = SpentIn(Bought(u)')
    OBVIOUS
  <1> QED
    BY <1>1, <1>2, <1>3, <1>4 DEF OverspendCounted

LEMMA QuietSums ==
    ASSUME TypeOK, SumsFresh, NEW r \in Requests, NEW q, QuietStep(r, q)
    PROVE  SumsFresh'
  <1>1. Moves(r, q) /\ mode' = mode
    BY DEF QuietStep, Moves
  <1>2. \A u : DonatedIn(HistoryOf(u))' = DonatedIn(HistoryOf(u))
    <2>1. \A u : HistoryOf(u)' = HistoryOf(u)
      BY DEF QuietStep, HistoryOf
    <2>2. \A u : DonatedIn(HistoryOf(u)') = DonatedIn(HistoryOf(u))
      BY <2>1, Zenon
    <2> QED
      BY <2>2
  <1>3. /\ request'[r] = q
        /\ \A s \in Requests \ {r} : request'[s] = request[s]
    BY <1>1, MovesFacts
  <1>4. ~mode.readFaults /\ q.pc = "update" => q.sum = DonatedIn(HistoryOf(q.uid))
    <2> SUFFICES ASSUME ~mode.readFaults, q.pc = "update"
                 PROVE  q.sum = DonatedIn(HistoryOf(q.uid))
      OBVIOUS
    <2>1. request[r].pc = "sum" /\ q.uid = request[r].uid
      BY QuietFacts
    <2> QED
      BY <2>1 DEF QuietStep, Refuses
  <1>5. ASSUME mode.orders = 1 /\ ~mode.readFaults,
               NEW s \in Requests, request'[s].pc = "update"
        PROVE  request'[s].sum = DonatedIn(HistoryOf(request'[s].uid))
    BY <1>3, <1>4, <1>5 DEF SumsFresh
  <1> QED
    BY <1>1, <1>2, <1>5 DEF SumsFresh

\* When no answer "ok" comes or goes for the rows of u, his accepted orders stay.
LEMMA AcceptedMoves ==
    ASSUME TypeOK, NEW r \in Requests, NEW q, Moves(r, q), NEW u,
           \/ request[r].pc # "answered" /\ (q.pc = "answered" => q.result # "ok")
           \/ request[r].pc # "answered" /\ \A h \in RowsOf(r) : h.uid # u,
           HistoryOf(u)' = HistoryOf(u)
    PROVE  AcceptedOf(u)' = AcceptedOf(u)
  <1>1. /\ request'[r] = q
        /\ \A s \in Requests \ {r} : request'[s] = request[s]
    BY MovesFacts
  <1>2. \A h \in HistoryOf(u) : h.req \in Requests /\ h.uid = u /\ h \in history
    BY DEF HistoryOf, TypeOK, HistoryRow
  <1> DEFINE ok == [pc |-> "answered", result |-> "ok"]
  <1>3. ok.pc = "answered" /\ ok.result = "ok"
    OBVIOUS
  <1> HIDE DEF ok
  <1>4. ASSUME NEW h \in HistoryOf(u)
        PROVE  request'[h.req] = ok <=> request[h.req] = ok
    <2>1. CASE h.req # r
      BY <1>1, <1>2, <2>1
    <2>2. CASE h.req = r
      <3>1. h \in RowsOf(r)
        BY <1>2, <2>2 DEF RowsOf
      <3> QED
        BY <1>1, <1>2, <1>3, <2>2, <3>1
    <2> QED
      BY <2>1, <2>2
  <1>5. /\ AcceptedOf(u) = {h \in HistoryOf(u) : request[h.req] = ok}
        /\ AcceptedOf(u)' = {h \in HistoryOf(u)' : request'[h.req] = ok}
    BY DEF AcceptedOf, ok
  <1> QED
    BY <1>4, <1>5

\* The balances and the accepted orders of all players are as they were.
LEMMA CreditedStays ==
    ASSUME Credited, mode' = mode, donate' = donate,
           \A u \in Uids : AcceptedOf(u)' = AcceptedOf(u)
    PROVE  Credited'
  <1>1. \A u \in Uids : DonatedIn(AcceptedOf(u)') = DonatedIn(AcceptedOf(u))
    BY Zenon
  <1>2. \A u \in Uids : DonatedIn(AcceptedOf(u))' = DonatedIn(AcceptedOf(u))
    BY <1>1
  <1> QED
    BY <1>2 DEF Credited

LEMMA QuietCredited ==
    ASSUME TypeOK, Credited, NEW r \in Requests, NEW q, QuietStep(r, q)
    PROVE  Credited'
  <1>1. /\ Moves(r, q) /\ mode' = mode /\ donate' = donate
        /\ \A u : HistoryOf(u)' = HistoryOf(u)
    BY DEF QuietStep, Moves, HistoryOf
  <1>2. request[r].pc # "answered" /\ (q.pc = "answered" => q.result # "ok")
    BY QuietFacts DEF Refuses
  <1>3. \A u \in Uids : AcceptedOf(u)' = AcceptedOf(u)
    BY <1>1, <1>2, AcceptedMoves
  <1> QED
    BY <1>1, <1>3, CreditedStays

LEMMA QuietLedger ==
    ASSUME LedgerInv, NEW r \in Requests, NEW q, QuietStep(r, q)
    PROVE  LedgerInv'
  <1>1. TypeOK' /\ Finite'
    BY QuietTyped DEF LedgerInv
  <1>2. RowsRecorded' /\ AtOnce' /\ Covered'
    BY QuietRows, QuietAtOnce, QuietCovered DEF LedgerInv
  <1>3. OrdersCounted' /\ OverspendCounted'
    BY <1>2, QuietOrders, QuietOverspend DEF LedgerInv
  <1>4. SumsFresh' /\ Credited'
    BY QuietSums, QuietCredited DEF LedgerInv
  <1> QED
    BY <1>1, <1>2, <1>3, <1>4 DEF LedgerInv

-----------------------------------------------------------------------------
(* An order is recorded *)

Records(r) ==
    /\ request[r].pc = "record"
    /\ history' = history \union {RowOf(r)}
    /\ Continue(r, "balance?")
    /\ UNCHANGED <<donate, consume, mode>>

LEMMA RecordFacts ==
    ASSUME TypeOK, Finite, RowsRecorded, NEW r \in Requests, Records(r)
    PROVE  /\ request[r] \in OrderRequest
           /\ RowOf(r) \in HistoryRow
           /\ Moves(r, [request[r] EXCEPT !.pc = "balance?"])
           /\ request'[r].pc = "balance?" /\ RowOf(r)' = RowOf(r)
           /\ \A s \in Requests \ {r} : request'[s] = request[s]
           /\ DOMAIN request' = Requests
           /\ RowsOf(r) = {} /\ RowOf(r) \notin history
           /\ TypeOK' /\ Finite'
  <1>1. request[r].pc = "record" /\ UNCHANGED <<donate, consume, mode>>
    BY DEF Records
  <1>2. request[r] \in OrderRequest
    BY <1>1, RequestFacts DEF OrderSteps
  <1>3. RowOf(r) \in HistoryRow
    BY <1>2 DEF OrderRequest, RowOf, HistoryRow
  <1> DEFINE q == [request[r] EXCEPT !.pc = "balance?"]
  <1>4. Moves(r, q)
    BY <1>1, ContinueFacts DEF Records
  <1>5. request'[r] = q /\ DOMAIN request' = Requests
        /\ \A s \in Requests \ {r} : request'[s] = request[s]
    BY <1>4, MovesFacts
  <1>6. q.pc = "balance?" /\ RowOf(r)' = RowOf(r) /\ q \in OrderRequest
    BY <1>2, <1>5 DEF OrderRequest, RowOf
  <1>7. RowsOf(r) = {} /\ RowOf(r) \notin history
    <2>1. RowsOf(r) = {}
      BY <1>1 DEF RowsRecorded
    <2> QED
      BY <2>1 DEF RowsOf, RowOf
  <1> HIDE DEF q
  <1>8. Requesting(q)
    BY <1>6 DEF Requesting, OrderRequest
  <1>9. \A s \in Requests : Requesting(request'[s])
    BY <1>5, <1>8 DEF TypeOK
  <1>10. TypeOK'
    BY <1>1, <1>3, <1>5, <1>9 DEF TypeOK, Records
  <1>11. Finite'
    BY <1>1, FS_AddElement DEF Finite, Records
  <1> QED
    BY <1>2, <1>3, <1>4, <1>5, <1>6, <1>7, <1>10, <1>11 DEF q

LEMMA RecordRows ==
    ASSUME TypeOK, Finite, RowsRecorded, NEW r \in Requests, Records(r)
    PROVE  RowsRecorded'
  <1>1. /\ request'[r].pc = "balance?" /\ RowOf(r)' = RowOf(r) /\ RowsOf(r) = {}
        /\ \A s \in Requests \ {r} : request'[s] = request[s]
    BY RecordFacts
  <1>2. RowsOf(r)' = {RowOf(r)}
    BY <1>1 DEF Records, RowsOf, RowOf
  <1>3. ASSUME NEW s \in Requests, s # r
        PROVE  RowsOf(s)' = RowsOf(s) /\ RowOf(s)' = RowOf(s)
    BY <1>1, <1>3 DEF Records, RowsOf, RowOf
  <1> QED
    BY <1>1, <1>2, <1>3 DEF RowsRecorded, PurchaseSteps

LEMMA RecordSums ==
    ASSUME TypeOK, Finite, RowsRecorded, NEW r \in Requests, Records(r), NEW u
    PROVE  /\ HistoryOf(u) \subseteq HistoryOf(u)'
           /\ DonatedIn(HistoryOf(u)) <= DonatedIn(HistoryOf(u)')
           /\ DonatedIn(HistoryOf(u)) \in Nat /\ DonatedIn(HistoryOf(u)') \in Nat
  <1>1. HistoryOf(u) \subseteq HistoryOf(u)'
    BY DEF HistoryOf, Records
  <1>2. HistoryOf(u)' \subseteq HistoryRow /\ IsFiniteSet(HistoryOf(u)')
    <2>1. TypeOK' /\ Finite'
      BY RecordFacts
    <2>2. HistoryOf(u)' \subseteq history'
      BY DEF HistoryOf
    <2> QED
      BY <2>1, <2>2, FS_Subset DEF TypeOK, Finite
  <1> QED
    BY <1>1, <1>2, DonatedInMore

LEMMA RecordCovered ==
    ASSUME TypeOK, Finite, RowsRecorded, Covered, NEW r \in Requests, Records(r)
    PROVE  Covered'
  <1>1. /\ request'[r].pc = "balance?"
        /\ \A s \in Requests \ {r} : request'[s] = request[s]
    BY RecordFacts
  <1>2. \A u : /\ DonatedIn(HistoryOf(u)) <= DonatedIn(HistoryOf(u)')
               /\ DonatedIn(HistoryOf(u)) \in Nat /\ DonatedIn(HistoryOf(u)') \in Nat
    BY RecordSums
  <1>3. ASSUME NEW u \in Uids, donate[u] # None
        PROVE  donate[u] <= DonatedIn(HistoryOf(u)')
    <2>1. donate[u] \in Nat /\ donate[u] <= DonatedIn(HistoryOf(u))
      BY <1>3 DEF Covered, TypeOK
    <2> QED
      BY <1>2, <2>1
  <1>4. ASSUME NEW s \in Requests, NEW u, u = request'[s].uid
        PROVE  /\ request'[s].pc = "update" =>
                     request'[s].sum <= DonatedIn(HistoryOf(u)')
               /\ request'[s].pc \in {"enough?", "buy"} =>
                     request'[s].donate <= DonatedIn(HistoryOf(u)')
    <2>1. CASE s = r
      BY <1>1, <2>1
    <2>2. CASE s # r
      <3>1. request'[s] = request[s]
        BY <1>1, <2>2
      <3>2. CASE request[s].pc = "update"
        <4>1. /\ request[s].sum \in Nat
              /\ request[s].sum <= DonatedIn(HistoryOf(request[s].uid))
          BY <3>2, RequestFacts DEF Covered
        <4> QED
          BY <1>2, <1>4, <3>1, <3>2, <4>1
      <3>3. CASE request[s].pc \in {"enough?", "buy"}
        <4>1. /\ request[s].donate \in Nat
              /\ request[s].donate <= DonatedIn(HistoryOf(request[s].uid))
          BY <3>3, RequestFacts DEF Covered
        <4> QED
          BY <1>2, <1>4, <3>1, <3>3, <4>1
      <3> QED
        BY <3>1, <3>2, <3>3
    <2> QED
      BY <2>1, <2>2
  <1>5. \A u : DonatedIn(HistoryOf(u))' = DonatedIn(HistoryOf(u)')
    OBVIOUS
  <1> QED
    BY <1>3, <1>4, <1>5 DEF Covered, Records

LEMMA RecordOrders ==
    ASSUME TypeOK, Finite, RowsRecorded, OrdersCounted, NEW r \in Requests, Records(r)
    PROVE  OrdersCounted'
  <1> DEFINE q == [request[r] EXCEPT !.pc = "balance?"]
  <1>1. /\ Moves(r, q) /\ request[r] \in OrderRequest /\ RowOf(r) \notin history
        /\ mode' = mode /\ history' = history \union {RowOf(r)}
        /\ r \in Recording(request[r].order)
    BY RecordFacts DEF Records, Recording, InProgress
  <1>2. q.pc # "record"
    BY <1>1 DEF OrderRequest
  <1> HIDE DEF q
  <1>3. SUFFICES ASSUME NEW o \in Orders
                 PROVE  Cardinality({h \in history' : h.order = o})
                           + Cardinality(Recording(o)') <= mode.orders
    BY <1>1 DEF OrdersCounted
  <1> DEFINE Rows == {h \in history : h.order = o}
             NextRows == {h \in history' : h.order = o}
  <1>4. /\ IsFiniteSet(Rows) /\ Cardinality(Rows) \in Nat
        /\ Cardinality(Rows) + Cardinality(Recording(o)) <= mode.orders
        /\ mode.orders \in Nat
    <2>1. IsFiniteSet(Rows) /\ Cardinality(Rows) \in Nat
      BY FS_Subset, FS_CardinalityType DEF Finite
    <2>2. Cardinality(Rows) + Cardinality(Recording(o)) <= mode.orders
      BY DEF OrdersCounted
    <2>3. mode.orders \in Nat
      BY DonateAssumption DEF TypeOK, DonateAssumption
    <2> QED
      BY <2>1, <2>2, <2>3
  <1>5. /\ Recording(o)' = Recording(o) \ {r}
        /\ IsFiniteSet(Recording(o))
        /\ Cardinality(Recording(o)') <= Cardinality(Recording(o))
        /\ Cardinality(Recording(o)) \in Nat /\ Cardinality(Recording(o)') \in Nat
    BY <1>1, <1>2, RecordingMoves
  <1>6. CASE o = request[r].order
    <2>1. /\ NextRows = Rows \union {RowOf(r)} /\ RowOf(r) \notin Rows
      BY <1>1, <1>6 DEF RowOf
    <2> HIDE DEF Rows, NextRows
    <2>2. Cardinality(Rows \union {RowOf(r)}) = Cardinality(Rows) + 1
      BY <1>4, <2>1, FS_AddElement
    <2>3. Cardinality(NextRows) = Cardinality(Rows) + 1
      BY <2>1, <2>2, Zenon
    <2>4. Cardinality(Recording(o) \ {r}) = Cardinality(Recording(o)) - 1
      BY <1>1, <1>5, <1>6, FS_RemoveElement
    <2>5. Cardinality(Recording(o)') = Cardinality(Recording(o)) - 1
      BY <1>5, <2>4, Zenon
    <2>6. Cardinality(NextRows) + Cardinality(Recording(o)') <= mode.orders
      BY <1>4, <1>5, <2>3, <2>5
    <2> QED
      BY <2>6 DEF NextRows
  <1>7. CASE o # request[r].order
    <2>1. NextRows = Rows
      BY <1>1, <1>7 DEF RowOf
    <2> HIDE DEF Rows, NextRows
    <2>2. Cardinality(NextRows) = Cardinality(Rows)
      BY <2>1, Zenon
    <2>3. Cardinality(NextRows) + Cardinality(Recording(o)') <= mode.orders
      BY <1>4, <1>5, <2>2
    <2> QED
      BY <2>3 DEF NextRows
  <1> QED
    BY <1>6, <1>7

LEMMA RecordAtOnce ==
    ASSUME TypeOK, Finite, RowsRecorded, AtOnce, NEW r \in Requests, Records(r)
    PROVE  AtOnce'
  <1> DEFINE q == [request[r] EXCEPT !.pc = "balance?"]
  <1>1. /\ Moves(r, q) /\ request[r] \in OrderRequest /\ request[r].pc \in OrderSteps
    BY RecordFacts DEF Records, OrderSteps
  <1>2. q.pc \notin PurchaseSteps
    BY <1>1 DEF OrderRequest, PurchaseSteps
  <1> HIDE DEF q
  <1> QED
    BY <1>1, <1>2, AtOnceMoves

LEMMA RecordOverspend ==
    ASSUME TypeOK, Finite, RowsRecorded, OverspendCounted,
           NEW r \in Requests, Records(r)
    PROVE  OverspendCounted'
  <1> DEFINE q == [request[r] EXCEPT !.pc = "balance?"]
  <1>1. /\ Moves(r, q) /\ request[r] \in OrderRequest
        /\ mode' = mode /\ consume' = consume
    BY RecordFacts DEF Records
  <1>2. q.pc # "buy"
    BY <1>1 DEF OrderRequest
  <1> HIDE DEF q
  <1>3. ASSUME ~mode.readFaults, NEW u \in Uids
        PROVE  SpentIn(Bought(u)')
                  <= DonatedIn(HistoryOf(u)') + (mode.purchases - 1) * Max(Costs)
    <2>1. ConsumeOf(u)' \subseteq Bought(u)
      BY <1>1 DEF Bought, ConsumeOf
    <2>2. SpentIn(Bought(u)')
             <= DonatedIn(HistoryOf(u)) + (mode.purchases - 1) * Max(Costs)
      BY <1>1, <1>2, <1>3, <2>1, BoughtMoves
    <2>3. /\ DonatedIn(HistoryOf(u)) <= DonatedIn(HistoryOf(u)')
          /\ DonatedIn(HistoryOf(u)) \in Nat /\ DonatedIn(HistoryOf(u)') \in Nat
      BY RecordSums
    <2>4. mode.purchases \in Nat /\ Max(Costs) \in Nat
      BY DonateAssumption, MaxExists DEF TypeOK, DonateAssumption
    <2>5. (mode.purchases - 1) * Max(Costs) \in Int
      BY <2>4
    <2>6. SpentIn(Bought(u)') \in Nat
      <3>1. TypeOK' /\ Finite'
        BY RecordFacts
      <3>2. (Bought(u) \subseteq ConsumeRow /\ IsFiniteSet(Bought(u)))'
        BY <3>1, BoughtTypedNext
      <3> QED
        BY <3>2, SpentInMore
    <2> DEFINE most == (mode.purchases - 1) * Max(Costs)
    <2> HIDE DEF most
    <2> QED
      BY <2>2, <2>3, <2>5, <2>6 DEF most
  <1>4. \A u : /\ DonatedIn(HistoryOf(u))' = DonatedIn(HistoryOf(u)')
               /\ SpentIn(Bought(u))' = SpentIn(Bought(u)')
    OBVIOUS
  <1> QED
    BY <1>1, <1>3, <1>4 DEF OverspendCounted

LEMMA RecordFresh ==
    ASSUME TypeOK, Finite, RowsRecorded, AtOnce, NEW r \in Requests, Records(r)
    PROVE  SumsFresh'
  <1>1. /\ request'[r].pc = "balance?" /\ mode' = mode
        /\ \A s \in Requests \ {r} : request'[s] = request[s]
        /\ r \in InProgress(OrderSteps)
    BY RecordFacts DEF Records, InProgress, OrderSteps
  <1>2. ASSUME mode.orders = 1, NEW s \in Requests, request'[s].pc = "update"
        PROVE  FALSE
    <2>1. s # r /\ s \in InProgress(OrderSteps)
      BY <1>1, <1>2 DEF InProgress, OrderSteps
    <2>2. IsFiniteSet(InProgress(OrderSteps))
      BY InProgressFinite
    <2>3. /\ IsFiniteSet(InProgress(OrderSteps) \ {r})
          /\ Cardinality(InProgress(OrderSteps) \ {r})
                = Cardinality(InProgress(OrderSteps)) - 1
      BY <1>1, <2>2, FS_RemoveElement
    <2>4. Cardinality(InProgress(OrderSteps)) <= 1
      BY <1>2 DEF AtOnce
    <2>5. /\ Cardinality(InProgress(OrderSteps)) \in Nat
          /\ Cardinality(InProgress(OrderSteps) \ {r}) \in Nat
      BY <2>2, <2>3, FS_CardinalityType
    <2>6. Cardinality(InProgress(OrderSteps) \ {r}) = 0
      BY <2>3, <2>4, <2>5
    <2>7. InProgress(OrderSteps) \ {r} = {}
      BY <2>3, <2>6, FS_EmptySet
    <2> QED
      BY <2>1, <2>7
  <1> QED
    BY <1>1, <1>2 DEF SumsFresh

LEMMA RecordCredited ==
    ASSUME TypeOK, Finite, RowsRecorded, Credited, NEW r \in Requests, Records(r)
    PROVE  Credited'
  <1>1. /\ request'[r].pc = "balance?" /\ RowOf(r).req = r
        /\ request[r].pc = "record"
        /\ \A s \in Requests \ {r} : request'[s] = request[s]
        /\ mode' = mode /\ donate' = donate
        /\ history' = history \union {RowOf(r)}
    BY RecordFacts DEF Records, RowOf
  <1> DEFINE ok == [pc |-> "answered", result |-> "ok"]
  <1>2. request'[r] # ok /\ request[r] # ok
    BY <1>1
  <1> HIDE DEF ok
  <1>3. \A h \in history : h.req \in Requests
    BY DEF TypeOK, HistoryRow
  <1>4. ASSUME NEW u
        PROVE  AcceptedOf(u)' = AcceptedOf(u)
    <2>1. AcceptedOf(u) = {h \in HistoryOf(u) : request[h.req] = ok}
      BY DEF AcceptedOf, ok
    <2>2. AcceptedOf(u)' = {h \in HistoryOf(u)' : request'[h.req] = ok}
      BY DEF AcceptedOf, ok
    <2>3. HistoryOf(u) \subseteq HistoryOf(u)'
          /\ HistoryOf(u)' \subseteq HistoryOf(u) \union {RowOf(r)}
          /\ HistoryOf(u) \subseteq history
      BY <1>1 DEF HistoryOf
    <2>4. \A h \in HistoryOf(u) : request'[h.req] = ok <=> request[h.req] = ok
      BY <1>1, <1>2, <1>3, <2>3
    <2> QED
      BY <1>1, <1>2, <2>1, <2>2, <2>3, <2>4
  <1> QED
    BY <1>1, <1>4, CreditedStays

LEMMA RecordLedger ==
    ASSUME LedgerInv, NEW r \in Requests, Records(r)
    PROVE  LedgerInv'
  <1>1. TypeOK' /\ Finite' /\ RowsRecorded'
    BY RecordFacts, RecordRows DEF LedgerInv
  <1>2. AtOnce' /\ Covered' /\ OrdersCounted'
    BY RecordAtOnce, RecordCovered, RecordOrders DEF LedgerInv
  <1>3. OverspendCounted' /\ SumsFresh' /\ Credited'
    BY RecordOverspend, RecordFresh, RecordCredited DEF LedgerInv
  <1> QED
    BY <1>1, <1>2, <1>3 DEF LedgerInv

-----------------------------------------------------------------------------
(* A request is answered "ok" *)

Done == [pc |-> "answered", result |-> "ok"]

Succeeds(r) ==
    /\ request[r].pc \in {"open", "update", "buy"}
    /\ Answer(r, "ok")
    /\ UNCHANGED <<history, mode>>

LEMMA SucceedsFacts ==
    ASSUME TypeOK, NEW r \in Requests, Succeeds(r)
    PROVE  /\ Moves(r, Done) /\ Done.pc = "answered" /\ Requesting(Done)
           /\ request'[r] = Done
           /\ \A s \in Requests \ {r} : request'[s] = request[s]
           /\ DOMAIN request' = Requests
           /\ \A s \in Requests : Requesting(request'[s])
           /\ history' = history /\ mode' = mode
           /\ \A u : HistoryOf(u)' = HistoryOf(u)
           /\ \A u : DonatedIn(HistoryOf(u))' = DonatedIn(HistoryOf(u))
  <1>1. Moves(r, Done) /\ Done.pc = "answered" /\ Requesting(Done)
    BY AnswerFacts, AnswerTyped DEF Succeeds, Done, Results
  <1>2. /\ request'[r] = Done /\ DOMAIN request' = Requests
        /\ \A s \in Requests \ {r} : request'[s] = request[s]
    BY <1>1, MovesFacts
  <1>3. \A s \in Requests : Requesting(request'[s])
    BY <1>1, <1>2 DEF TypeOK
  <1>4. \A u : HistoryOf(u)' = HistoryOf(u)
    BY DEF Succeeds, HistoryOf
  <1>5. \A u : DonatedIn(HistoryOf(u)') = DonatedIn(HistoryOf(u))
    BY <1>4, Zenon
  <1> QED
    BY <1>1, <1>2, <1>3, <1>4, <1>5 DEF Succeeds

\* The parts of the invariant that any such step keeps.
LEMMA SucceedsKeeps ==
    ASSUME LedgerInv, NEW r \in Requests, Succeeds(r)
    PROVE  RowsRecorded' /\ AtOnce' /\ OrdersCounted' /\ SumsFresh'
  <1>1. /\ Moves(r, Done) /\ Done.pc = "answered"
        /\ request'[r] = Done
        /\ \A s \in Requests \ {r} : request'[s] = request[s]
        /\ history' = history /\ mode' = mode
        /\ \A u : DonatedIn(HistoryOf(u))' = DonatedIn(HistoryOf(u))
        /\ TypeOK /\ Finite
    BY SucceedsFacts DEF LedgerInv
  <1>2. RowsRecorded'
    <2>1. \A s : RowsOf(s)' = RowsOf(s)
      BY <1>1 DEF RowsOf
    <2>2. \A s \in Requests \ {r} : RowOf(s)' = RowOf(s)
      BY <1>1 DEF RowOf
    <2> QED
      BY <1>1, <2>1, <2>2 DEF RowsRecorded, LedgerInv, PurchaseSteps
  <1>3. AtOnce'
    BY <1>1, AtOnceMoves DEF LedgerInv, OrderSteps, PurchaseSteps
  <1>4. OrdersCounted'
    <2>1. ASSUME NEW o \in Orders
          PROVE  Cardinality({h \in history : h.order = o})
                    + Cardinality(Recording(o)') <= mode.orders
      <3> DEFINE Rows == {h \in history : h.order = o}
      <3>1. /\ Cardinality(Recording(o)') <= Cardinality(Recording(o))
            /\ Cardinality(Recording(o)') \in Nat /\ Cardinality(Recording(o)) \in Nat
        BY <1>1, RecordingMoves
      <3>2. Cardinality(Rows) \in Nat
        BY <1>1, FS_Subset, FS_CardinalityType DEF Finite
      <3>3. Cardinality(Rows) + Cardinality(Recording(o)) <= mode.orders
        BY DEF LedgerInv, OrdersCounted
      <3>4. mode.orders \in Nat
        BY <1>1, DonateAssumption DEF TypeOK, DonateAssumption
      <3> HIDE DEF Rows
      <3>5. Cardinality(Rows) + Cardinality(Recording(o)') <= mode.orders
        BY <3>1, <3>2, <3>3, <3>4
      <3> QED
        BY <3>5 DEF Rows
    <2> QED
      BY <1>1, <2>1 DEF OrdersCounted
  <1>5. SumsFresh'
    BY <1>1 DEF SumsFresh, LedgerInv
  <1> QED
    BY <1>2, <1>3, <1>4, <1>5

LEMMA SucceedsOverspend ==
    ASSUME LedgerInv, NEW r \in Requests, Succeeds(r),
           \A u : ConsumeOf(u)' \subseteq Bought(u)
    PROVE  OverspendCounted'
  <1>1. /\ Moves(r, Done) /\ Done.pc = "answered" /\ mode' = mode
        /\ \A u : DonatedIn(HistoryOf(u))' = DonatedIn(HistoryOf(u))
        /\ TypeOK /\ Finite /\ OverspendCounted
    BY SucceedsFacts DEF LedgerInv
  <1>2. ASSUME ~mode.readFaults, NEW u \in Uids
        PROVE  SpentIn(Bought(u)')
                  <= DonatedIn(HistoryOf(u)) + (mode.purchases - 1) * Max(Costs)
    BY <1>1, <1>2, BoughtMoves
  <1>3. \A u : SpentIn(Bought(u))' = SpentIn(Bought(u)')
    OBVIOUS
  <1> QED
    BY <1>1, <1>2, <1>3 DEF OverspendCounted

\* Balances are covered when the one that changes is.
LEMMA SucceedsCovered ==
    ASSUME LedgerInv, NEW r \in Requests, Succeeds(r),
           \A u \in Uids : \/ donate'[u] = donate[u]
                           \/ donate'[u] <= DonatedIn(HistoryOf(u))
    PROVE  Covered'
  <1>1. /\ Done.pc = "answered" /\ request'[r] = Done
        /\ \A s \in Requests \ {r} : request'[s] = request[s]
        /\ \A u : DonatedIn(HistoryOf(u))' = DonatedIn(HistoryOf(u))
        /\ Covered
    BY SucceedsFacts DEF LedgerInv
  <1> QED
    BY <1>1 DEF Covered

-----------------------------------------------------------------------------
(* A balance is opened, written over, or drawn on *)

Opens(r) ==
    /\ request[r].pc = "open" /\ donate[request[r].uid] = None
    /\ donate' = [donate EXCEPT ![request[r].uid] = request[r].money]
    /\ Answer(r, "ok")
    /\ UNCHANGED <<history, consume, mode>>

\* Whose rows those of r are, once it has come to "open" or "update".
LEMMA RowsOfOthers ==
    ASSUME RowsRecorded, NEW r \in Requests, request[r].pc \in {"open", "update"},
           NEW u, u # request[r].uid
    PROVE  \A h \in RowsOf(r) : h.uid # u
  <1>1. CASE request[r].pc = "open"
    <2>1. RowsOf(r) = {RowOf(r)}
      BY <1>1 DEF RowsRecorded
    <2> QED
      BY <2>1 DEF RowOf
  <1>2. CASE request[r].pc = "update"
    BY <1>2 DEF RowsRecorded
  <1> QED
    BY <1>1, <1>2

LEMMA OpenLedger ==
    ASSUME LedgerInv, NEW r \in Requests, Opens(r)
    PROVE  LedgerInv'
  <1> USE DEF LedgerInv
  <1>1. Succeeds(r) /\ request[r].pc = "open" /\ consume' = consume
    BY DEF Opens, Succeeds
  <1>2. /\ Moves(r, Done) /\ request'[r] = Done /\ DOMAIN request' = Requests
        /\ \A s \in Requests \ {r} : request'[s] = request[s]
        /\ \A s \in Requests : Requesting(request'[s])
        /\ history' = history /\ mode' = mode
        /\ \A u : HistoryOf(u)' = HistoryOf(u)
    BY <1>1, SucceedsFacts
  <1>u. PICK u : u = request[r].uid
    OBVIOUS
  <1>h. PICK h : h = RowOf(r)
    OBVIOUS
  <1>3. /\ u \in Uids /\ request[r].money \in Nat /\ request[r].money # None
        /\ h \in HistoryRow /\ h.donate = request[r].money
        /\ h.req = r /\ h.uid = u
    <2>1. request[r] \in OrderRequest
      BY <1>1, RequestFacts DEF OrderSteps
    <2> QED
      BY <1>u, <1>h, <2>1, DonateAssumption
      DEF OrderRequest, RowOf, HistoryRow, DonateAssumption
  <1>4. /\ donate'[u] = request[r].money /\ donate[u] = None
        /\ \A v \in Uids \ {u} : donate'[v] = donate[v]
        /\ donate' \in [Uids -> Nat \union {None}]
    BY <1>3, <1>u DEF Opens, TypeOK
  <1>5. RowsOf(r) = {h} /\ h \in HistoryOf(u)
    <2>1. RowsOf(r) = {h}
      BY <1>1, <1>h DEF RowsRecorded
    <2> QED
      BY <1>3, <2>1 DEF RowsOf, HistoryOf
  <1>6. DonatedIn({h}) = request[r].money
    BY <1>3, DonatedInOne
  <1>7. donate'[u] <= DonatedIn(HistoryOf(u))
    <2>1. {h} \subseteq HistoryOf(u)
      BY <1>5
    <2>2. DonatedIn({h}) <= DonatedIn(HistoryOf(u))
      BY <2>1, TableFacts, DonatedInMore
    <2> QED
      BY <1>4, <1>6, <2>2
  <1>8. TypeOK' /\ Finite'
    BY <1>1, <1>2, <1>4 DEF TypeOK, Finite
  <1>9. Covered'
    BY <1>1, <1>4, <1>7, SucceedsCovered
  <1>10. OverspendCounted'
    <2>1. \A v : ConsumeOf(v)' \subseteq Bought(v)
      BY <1>1 DEF ConsumeOf, Bought
    <2> QED
      BY <1>1, <2>1, SucceedsOverspend
  <1>11. ASSUME mode.orders = 1 /\ ~mode.readFaults, NEW v \in Uids,
                AcceptedOf(v)' # {}
         PROVE  donate'[v] # None /\ donate'[v] >= DonatedIn(AcceptedOf(v)')
    <2>1. CASE v # u
      <3>1. AcceptedOf(v)' = AcceptedOf(v)
        <4>1. \A k \in RowsOf(r) : k.uid # v
          BY <1>3, <1>5, <2>1
        <4> QED
          BY <1>1, <1>2, <4>1, AcceptedMoves
      <3>2. DonatedIn(AcceptedOf(v)') = DonatedIn(AcceptedOf(v))
        BY <3>1, Zenon
      <3>3. donate[v] # None /\ donate[v] >= DonatedIn(AcceptedOf(v))
        BY <1>11, <3>1 DEF Credited
      <3> QED
        BY <1>4, <2>1, <3>2, <3>3
    <2>2. CASE v = u
      <3>1. AcceptedOf(u) = {}
        BY <1>3, <1>4, <1>11 DEF Credited
      <3>2. AcceptedOf(u)' = {h}
        <4>1. /\ AcceptedOf(u) = {k \in HistoryOf(u) : request[k.req] = Done}
              /\ AcceptedOf(u)' = {k \in HistoryOf(u) : request'[k.req] = Done}
          BY <1>2 DEF AcceptedOf, Done
        <4>2. \A k \in HistoryOf(u) : k \in history /\ k.req \in Requests
          BY DEF HistoryOf, TypeOK, HistoryRow
        <4>3. \A k \in HistoryOf(u) : k.req = r <=> k = h
          BY <1>3, <1>5, <4>2 DEF RowsOf
        <4> QED
          BY <1>2, <1>5, <3>1, <4>1, <4>2, <4>3
      <3>3. DonatedIn(AcceptedOf(u)') = DonatedIn({h})
        BY <3>2, Zenon
      <3> QED
        BY <1>3, <1>4, <1>6, <2>2, <3>3
    <2> QED
      BY <2>1, <2>2
  <1>12. Credited'
    <2>1. \A v : DonatedIn(AcceptedOf(v))' = DonatedIn(AcceptedOf(v)')
      OBVIOUS
    <2> QED
      BY <1>2, <1>11, <2>1 DEF Credited
  <1> QED
    BY <1>1, <1>8, <1>9, <1>10, <1>12, SucceedsKeeps

Updates(r) ==
    /\ request[r].pc = "update"
    /\ donate' = [donate EXCEPT ![request[r].uid] = request[r].sum]
    /\ Answer(r, "ok")
    /\ UNCHANGED <<history, consume, mode>>

LEMMA UpdateLedger ==
    ASSUME LedgerInv, NEW r \in Requests, Updates(r)
    PROVE  LedgerInv'
  <1> USE DEF LedgerInv
  <1>1. Succeeds(r) /\ request[r].pc = "update" /\ consume' = consume
    BY DEF Updates, Succeeds
  <1>2. /\ Moves(r, Done) /\ request'[r] = Done /\ DOMAIN request' = Requests
        /\ \A s \in Requests \ {r} : request'[s] = request[s]
        /\ \A s \in Requests : Requesting(request'[s])
        /\ history' = history /\ mode' = mode
        /\ \A u : HistoryOf(u)' = HistoryOf(u)
    BY <1>1, SucceedsFacts
  <1>u. PICK u : u = request[r].uid
    OBVIOUS
  <1>3. u \in Uids /\ request[r].sum \in Nat /\ request[r].sum # None
    BY <1>1, <1>u, RequestFacts, DonateAssumption DEF DonateAssumption
  <1>4. /\ donate'[u] = request[r].sum
        /\ \A v \in Uids \ {u} : donate'[v] = donate[v]
        /\ donate' \in [Uids -> Nat \union {None}]
    BY <1>3, <1>u DEF Updates, TypeOK
  <1>5. donate'[u] <= DonatedIn(HistoryOf(u))
    BY <1>1, <1>4, <1>u DEF Covered
  <1>6. TypeOK' /\ Finite'
    BY <1>1, <1>2, <1>4 DEF TypeOK, Finite
  <1>7. Covered'
    BY <1>1, <1>4, <1>5, SucceedsCovered
  <1>8. OverspendCounted'
    <2>1. \A v : ConsumeOf(v)' \subseteq Bought(v)
      BY <1>1 DEF ConsumeOf, Bought
    <2> QED
      BY <1>1, <2>1, SucceedsOverspend
  <1>9. ASSUME mode.orders = 1 /\ ~mode.readFaults, NEW v \in Uids,
               AcceptedOf(v)' # {}
        PROVE  donate'[v] # None /\ donate'[v] >= DonatedIn(AcceptedOf(v)')
    <2>1. CASE v # u
      <3>1. AcceptedOf(v)' = AcceptedOf(v)
        <4>1. \A k \in RowsOf(r) : k.uid # v
          BY <1>1, <1>u, <2>1, RowsOfOthers
        <4> QED
          BY <1>1, <1>2, <4>1, AcceptedMoves
      <3>2. DonatedIn(AcceptedOf(v)') = DonatedIn(AcceptedOf(v))
        BY <3>1, Zenon
      <3>3. donate[v] # None /\ donate[v] >= DonatedIn(AcceptedOf(v))
        BY <1>9, <3>1 DEF Credited
      <3> QED
        BY <1>4, <2>1, <3>2, <3>3
    <2>2. CASE v = u
      <3>1. request[r].sum = DonatedIn(HistoryOf(u))
        BY <1>1, <1>9, <1>u DEF SumsFresh
      <3>2. AcceptedOf(u)' \subseteq HistoryOf(u)
        BY <1>2 DEF AcceptedOf
      <3>3. /\ DonatedIn(AcceptedOf(u)') <= DonatedIn(HistoryOf(u))
            /\ DonatedIn(AcceptedOf(u)') \in Nat /\ DonatedIn(HistoryOf(u)) \in Nat
        BY <3>2, TableFacts, DonatedInMore
      <3> QED
        BY <1>3, <1>4, <2>2, <3>1, <3>3
    <2> QED
      BY <2>1, <2>2
  <1>10. Credited'
    <2>1. \A v : DonatedIn(AcceptedOf(v))' = DonatedIn(AcceptedOf(v)')
      OBVIOUS
    <2> QED
      BY <1>2, <1>9, <2>1 DEF Credited
  <1> QED
    BY <1>1, <1>6, <1>7, <1>8, <1>10, SucceedsKeeps

Buys(r) ==
    /\ request[r].pc = "buy"
    /\ consume' = consume \union {PurchaseOf(r)}
    /\ Answer(r, "ok")
    /\ UNCHANGED <<history, donate, mode>>

\* What a purchase records was found payable: what u has bought stays the same.
LEMMA BuyLedger ==
    ASSUME LedgerInv, NEW r \in Requests, Buys(r)
    PROVE  LedgerInv'
  <1> USE DEF LedgerInv
  <1>1. Succeeds(r) /\ request[r].pc = "buy" /\ donate' = donate
    BY DEF Buys, Succeeds
  <1>2. /\ Moves(r, Done) /\ request'[r] = Done /\ DOMAIN request' = Requests
        /\ \A s \in Requests : Requesting(request'[s])
        /\ history' = history /\ mode' = mode
        /\ \A u : HistoryOf(u)' = HistoryOf(u)
    BY <1>1, SucceedsFacts
  <1>c. PICK c : c = PurchaseOf(r)
    OBVIOUS
  <1>3. c \in ConsumeRow /\ c.uid = request[r].uid
    <2>1. request[r].uid \in Uids /\ request[r].cost \in Costs
      BY <1>1, RequestFacts
    <2> QED
      BY <1>c, <2>1 DEF PurchaseOf, ConsumeRow
  <1>4. consume' = consume \union {c}
    BY <1>c DEF Buys
  <1>5. TypeOK' /\ Finite'
    BY <1>1, <1>2, <1>3, <1>4, FS_AddElement DEF TypeOK, Finite
  <1>6. Covered'
    BY <1>1, SucceedsCovered
  <1>7. OverspendCounted'
    <2>1. ASSUME NEW u
          PROVE  ConsumeOf(u)' \subseteq Bought(u)
      <3>1. ConsumeOf(u)' \subseteq ConsumeOf(u) \union (IF c.uid = u THEN {c} ELSE {})
        BY <1>4 DEF ConsumeOf
      <3>2. c.uid = u => r \in Buying(u)
        BY <1>1, <1>3 DEF Buying, InProgress
      <3>3. c.uid = u => c \in Bought(u)
        BY <1>c, <3>2 DEF Bought
      <3> QED
        BY <3>1, <3>3 DEF Bought
    <2> QED
      BY <1>1, <2>1, SucceedsOverspend
  <1>8. Credited'
    <2>1. RowsOf(r) = {}
      BY <1>1 DEF RowsRecorded, PurchaseSteps
    <2>2. \A u \in Uids : AcceptedOf(u)' = AcceptedOf(u)
      BY <1>1, <1>2, <2>1, AcceptedMoves
    <2> QED
      BY <1>1, <1>2, <2>2, CreditedStays
  <1> QED
    BY <1>1, <1>5, <1>6, <1>7, <1>8, SucceedsKeeps

-----------------------------------------------------------------------------
(* The process dies *)

LEMMA CrashLedger ==
    ASSUME LedgerInv, Crash
    PROVE  LedgerInv'
  <1> USE DEF LedgerInv
  <1> DEFINE lost == [pc |-> "answered", result |-> None]
  <1>1. /\ history' = history /\ donate' = donate /\ consume' = consume
        /\ mode' = mode /\ DOMAIN request' = Requests
        /\ \A r \in Requests :
              request'[r] = IF r \in Active THEN lost ELSE request[r]
    BY DEF Crash
  <1>2. lost.pc = "answered" /\ lost # Done /\ Requesting(lost)
    <2>1. None \in Results /\ None # "ok"
      BY DonateAssumption DEF Results, DonateAssumption
    <2> QED
      BY <2>1, AnswerTyped DEF Done
  <1> HIDE DEF lost
  <1>3. ASSUME NEW r \in Requests
        PROVE  /\ r \in Active <=> request[r].pc \in OrderSteps \union PurchaseSteps
               /\ request'[r].pc \notin OrderSteps \union PurchaseSteps
               /\ request'[r].pc = "idle" => request'[r] = request[r]
               /\ request'[r] = Done <=> request[r] = Done
    <2>1. r \in Active <=> request[r].pc \in OrderSteps \union PurchaseSteps
      BY DEF Active, InProgress
    <2>2. Done.pc = "answered"
      BY DEF Done
    <2> QED
      BY <1>1, <1>2, <2>1, <2>2 DEF OrderSteps, PurchaseSteps
  <1>4. TypeOK' /\ Finite'
    BY <1>1, <1>2 DEF TypeOK, Finite
  <1>5. \A u : HistoryOf(u)' = HistoryOf(u) /\ ConsumeOf(u)' = ConsumeOf(u)
    BY <1>1 DEF HistoryOf, ConsumeOf
  <1>6. \A u : DonatedIn(HistoryOf(u))' = DonatedIn(HistoryOf(u))
    <2>1. \A u : DonatedIn(HistoryOf(u)') = DonatedIn(HistoryOf(u))
      BY <1>5, Zenon
    <2> QED
      BY <2>1
  <1>7. RowsRecorded'
    <2>1. \A r \in Requests : RowsOf(r)' = RowsOf(r)
      BY <1>1 DEF RowsOf
    <2> QED
      BY <1>3, <2>1 DEF RowsRecorded, OrderSteps, PurchaseSteps
  <1>8. AtOnce'
    <2>1. (InProgress(OrderSteps))' = {} /\ (InProgress(PurchaseSteps))' = {}
      BY <1>3 DEF InProgress, OrderSteps, PurchaseSteps
    <2>2. Cardinality(InProgress(OrderSteps)') = 0
          /\ Cardinality(InProgress(PurchaseSteps)') = 0
      BY <2>1, FS_EmptySet
    <2>3. mode.orders \in Nat /\ mode.purchases \in Nat
      BY DonateAssumption DEF TypeOK, DonateAssumption
    <2> QED
      BY <1>1, <2>2, <2>3 DEF AtOnce
  <1>9. Covered'
    BY <1>1, <1>3, <1>6 DEF Covered, OrderSteps, PurchaseSteps
  <1>10. OrdersCounted'
    <2>1. ASSUME NEW o \in Orders
          PROVE  Cardinality({h \in history : h.order = o})
                    + Cardinality(Recording(o)') <= mode.orders
      <3> DEFINE Rows == {h \in history : h.order = o}
      <3>1. Recording(o)' = {}
        BY <1>3 DEF Recording, InProgress, OrderSteps
      <3>2. Cardinality(Recording(o)') = 0
        BY <3>1, FS_EmptySet
      <3>3. IsFiniteSet(Recording(o))
        <4>1. Recording(o) \subseteq Requests
          BY DEF Recording, InProgress
        <4> QED
          BY <4>1, DonateAssumption, FS_Subset DEF DonateAssumption
      <3>4. Cardinality(Recording(o)) \in Nat /\ Cardinality(Rows) \in Nat
        BY <3>3, FS_Subset, FS_CardinalityType DEF Finite
      <3>5. Cardinality(Rows) + Cardinality(Recording(o)) <= mode.orders
        BY DEF OrdersCounted
      <3>6. mode.orders \in Nat
        BY DonateAssumption DEF TypeOK, DonateAssumption
      <3> HIDE DEF Rows
      <3>7. Cardinality(Rows) + Cardinality(Recording(o)') <= mode.orders
        BY <3>2, <3>4, <3>5, <3>6
      <3> QED
        BY <3>7 DEF Rows
    <2> QED
      BY <1>1, <2>1 DEF OrdersCounted
  <1>11. OverspendCounted'
    <2>1. ASSUME ~mode.readFaults, NEW u \in Uids
          PROVE  SpentIn(Bought(u)')
                    <= DonatedIn(HistoryOf(u)) + (mode.purchases - 1) * Max(Costs)
      <3>1. Buying(u)' = {}
        BY <1>3 DEF Buying, InProgress, PurchaseSteps
      <3>2. Bought(u)' = ConsumeOf(u)' \union {PurchaseOf(s)' : s \in Buying(u)'}
        BY DEF Bought
      <3>3. Bought(u)' \subseteq Bought(u)
        BY <1>5, <3>1, <3>2 DEF Bought
      <3>4. /\ SpentIn(Bought(u)') <= SpentIn(Bought(u))
            /\ SpentIn(Bought(u)') \in Nat /\ SpentIn(Bought(u)) \in Nat
        BY <3>3, BoughtFacts, SpentInMore
      <3>5. mode.purchases \in Nat /\ Max(Costs) \in Nat
        BY DonateAssumption, MaxExists DEF TypeOK, DonateAssumption
      <3>6. (mode.purchases - 1) * Max(Costs) \in Int
        BY <3>5
      <3>7. DonatedIn(HistoryOf(u)) \in Nat
        BY TableFacts
      <3>8. SpentIn(Bought(u))
               <= DonatedIn(HistoryOf(u)) + (mode.purchases - 1) * Max(Costs)
        BY <2>1 DEF OverspendCounted
      <3> QED
        BY <3>4, <3>6, <3>7, <3>8
    <2>2. \A u : SpentIn(Bought(u))' = SpentIn(Bought(u)')
      OBVIOUS
    <2> QED
      BY <1>1, <1>6, <2>1, <2>2 DEF OverspendCounted
  <1>12. SumsFresh'
    BY <1>3 DEF SumsFresh, OrderSteps
  <1>13. Credited'
    <2>1. ASSUME NEW u
          PROVE  AcceptedOf(u)' = AcceptedOf(u)
      <3>1. /\ AcceptedOf(u) = {h \in HistoryOf(u) : request[h.req] = Done}
            /\ AcceptedOf(u)' = {h \in HistoryOf(u)' : request'[h.req] = Done}
        BY DEF AcceptedOf, Done
      <3>2. \A h \in HistoryOf(u) : h.req \in Requests
        BY DEF HistoryOf, TypeOK, HistoryRow
      <3> QED
        BY <1>3, <1>5, <3>1, <3>2
    <2> QED
      BY <1>1, <2>1, CreditedStays
  <1> QED
    BY <1>4, <1>7, <1>8, <1>9, <1>10, <1>11, <1>12, <1>13

-----------------------------------------------------------------------------
(* The invariant *)

LEMMA InitLedger ==
    Init => LedgerInv
  <1> SUFFICES ASSUME Init PROVE LedgerInv
    OBVIOUS
  <1>1. /\ mode \in Modes /\ history = {} /\ consume = {}
        /\ donate = [u \in Uids |-> None]
        /\ request = [r \in Requests |-> Idle]
    BY DEF Init
  <1>2. \A r \in Requests : request[r] = Idle /\ request[r].pc = "idle"
    BY <1>1 DEF Idle
  <1>3. TypeOK
    BY <1>1, <1>2 DEF TypeOK, Requesting
  <1>4. Finite
    BY <1>1, FS_EmptySet DEF Finite
  <1>5. RowsRecorded
    BY <1>1, <1>2 DEF RowsRecorded, RowsOf, PurchaseSteps
  <1>6. \A steps : "idle" \notin steps => InProgress(steps) = {}
    BY <1>2 DEF InProgress
  <1>7. /\ mode.orders \in Nat /\ mode.purchases \in Nat /\ mode.purchases >= 1
        /\ Max(Costs) \in Nat
    <2>1. /\ mode.orders \in Nat \ {0} /\ mode.purchases \in Nat \ {0}
      BY <1>1, DonateAssumption DEF DonateAssumption
    <2>2. Max(Costs) \in Nat
      BY DonateAssumption, MaxExists DEF DonateAssumption
    <2> QED
      BY <2>1, <2>2
  <1>8. AtOnce
    <2>1. InProgress(OrderSteps) = {} /\ InProgress(PurchaseSteps) = {}
      BY <1>6 DEF OrderSteps, PurchaseSteps
    <2>2. /\ Cardinality(InProgress(OrderSteps)) = 0
          /\ Cardinality(InProgress(PurchaseSteps)) = 0
      BY <2>1, FS_EmptySet
    <2> QED
      BY <1>7, <2>2 DEF AtOnce
  <1>9. Covered
    BY <1>1, <1>2 DEF Covered
  <1>10. OrdersCounted
    <2>1. ASSUME NEW o \in Orders
          PROVE  Cardinality({h \in history : h.order = o})
                    + Cardinality(Recording(o)) <= mode.orders
      <3>1. {h \in history : h.order = o} = {} /\ Recording(o) = {}
        BY <1>1, <1>2 DEF Recording, InProgress
      <3>2. /\ Cardinality({h \in history : h.order = o}) = 0
            /\ Cardinality(Recording(o)) = 0
        BY <3>1, FS_EmptySet
      <3> QED
        BY <1>7, <3>2
    <2> QED
      BY <2>1 DEF OrdersCounted
  <1>11. OverspendCounted
    <2>1. ASSUME NEW u \in Uids
          PROVE  SpentIn(Bought(u))
                    <= DonatedIn(HistoryOf(u)) + (mode.purchases - 1) * Max(Costs)
      <3>1. Bought(u) = {}
        BY <1>1, <1>2 DEF Bought, ConsumeOf, Buying, InProgress
      <3>2. SpentIn(Bought(u)) = 0
        <4>1. SpentIn({}) = 0
          BY SpentIsWorth, WorthOfNothing, FS_EmptySet DEF SpentIn
        <4> QED
          BY <3>1, <4>1
      <3>3. DonatedIn(HistoryOf(u)) \in Nat
        BY <1>3, <1>4, TableFacts
      <3>4. (mode.purchases - 1) * Max(Costs) \in Nat
        <4>1. mode.purchases - 1 \in Nat
          BY <1>7
        <4> QED
          BY <1>7, <4>1
      <3> QED
        BY <3>2, <3>3, <3>4
    <2> QED
      BY <2>1 DEF OverspendCounted
  <1>12. SumsFresh
    BY <1>2 DEF SumsFresh
  <1>13. Credited
    <2>1. \A u : AcceptedOf(u) = {}
      BY <1>1 DEF AcceptedOf, HistoryOf
    <2> QED
      BY <2>1 DEF Credited
  <1> QED
    BY <1>3, <1>4, <1>5, <1>8, <1>9, <1>10, <1>11, <1>12, <1>13 DEF LedgerInv

\* A statement that records or credits an order, or fails to.
LEMMA OrderWrites ==
    ASSUME TypeOK, NEW r \in Requests,
           \/ dbInsertUserDonateHistory(r)
           \/ dbInsertUserDonateInfoEx(r)
           \/ UpdateDonate(r)
           \/ dbInsertUserDonateConsume(r)
    PROVE  \/ \E q : QuietStep(r, q)
           \/ Records(r)
           \/ Opens(r)
           \/ Updates(r)
           \/ Buys(r)
  <1>1. CASE Answer(r, "failed") /\ UNCHANGED <<history, donate, consume, mode>>
    <2>1. request[r].pc \in OrderSteps \union PurchaseSteps
      BY DEF dbInsertUserDonateHistory, dbInsertUserDonateInfoEx, UpdateDonate,
             dbInsertUserDonateConsume, OrderSteps, PurchaseSteps
    <2> QED
      BY <1>1, <2>1, RefusesFacts DEF Results
  <1>2. CASE dbInsertUserDonateHistory(r)
    BY <1>1, <1>2 DEF dbInsertUserDonateHistory, Records, RowOf
  <1>3. CASE dbInsertUserDonateInfoEx(r)
    BY <1>1, <1>3 DEF dbInsertUserDonateInfoEx, Opens
  <1>4. CASE UpdateDonate(r)
    BY <1>1, <1>4 DEF UpdateDonate, Updates
  <1>5. CASE dbInsertUserDonateConsume(r)
    BY <1>1, <1>5 DEF dbInsertUserDonateConsume, Buys, PurchaseOf
  <1> QED
    BY <1>2, <1>3, <1>4, <1>5

LEMMA StepLedger ==
    LedgerInv /\ [Next]_vars => LedgerInv'
  <1> SUFFICES ASSUME LedgerInv, [Next]_vars
               PROVE  LedgerInv'
    OBVIOUS
  <1>1. TypeOK /\ Finite
    BY DEF LedgerInv
  <1>2. ASSUME NEW r \in Requests,
               \/ \E u \in Uids, o \in Orders, m \in Amounts : AddDonate(r, u, o, m)
               \/ \E u \in Uids, c \in Costs : BuyItem(r, u, c)
               \/ CheckOrder(r)
               \/ dbIsUserDonateExists(r)
               \/ SumHistory(r)
               \/ GetDonate(r)
               \/ CheckLeft(r)
        PROVE  LedgerInv'
    <2>1. \E q : QuietStep(r, q)
      BY <1>1, <1>2, OrderQuiet, SumQuiet, PurchaseQuiet
    <2> QED
      BY <2>1, QuietLedger
  <1>3. ASSUME NEW r \in Requests,
               \/ dbInsertUserDonateHistory(r)
               \/ dbInsertUserDonateInfoEx(r)
               \/ UpdateDonate(r)
               \/ dbInsertUserDonateConsume(r)
        PROVE  LedgerInv'
    BY <1>1, <1>3, OrderWrites, QuietLedger, RecordLedger, OpenLedger, UpdateLedger,
       BuyLedger
  <1>4. CASE Crash
    BY <1>4, CrashLedger
  <1>5. CASE UNCHANGED vars
    <2>1. /\ history' = history /\ donate' = donate /\ consume' = consume
          /\ request' = request /\ mode' = mode
      BY <1>5 DEF vars
    <2>2. TypeOK' /\ Finite' /\ RowsRecorded'
      BY <2>1
      DEF LedgerInv, TypeOK, Finite, RowsRecorded, RowsOf, RowOf
    <2>3. \A steps : InProgress(steps)' = InProgress(steps)
      BY <2>1 DEF InProgress
    <2>4. /\ \A u : HistoryOf(u)' = HistoryOf(u) /\ ConsumeOf(u)' = ConsumeOf(u)
          /\ \A u : Buying(u)' = Buying(u)
          /\ \A o : Recording(o)' = Recording(o)
          /\ \A r : PurchaseOf(r)' = PurchaseOf(r)
      BY <2>1, <2>3 DEF HistoryOf, ConsumeOf, Buying, Recording, PurchaseOf
    <2>5. \A u : Bought(u)' = Bought(u)
      BY <2>4 DEF Bought
    <2>6. \A u : /\ DonatedIn(HistoryOf(u)') = DonatedIn(HistoryOf(u))
                 /\ SpentIn(Bought(u)') = SpentIn(Bought(u))
      BY <2>4, <2>5, Zenon
    <2>7. \A u : /\ DonatedIn(HistoryOf(u))' = DonatedIn(HistoryOf(u))
                 /\ SpentIn(Bought(u))' = SpentIn(Bought(u))
      BY <2>6
    <2>8. AtOnce'
      <3>1. AtOnce
        BY DEF LedgerInv
      <3> QED
        BY <2>1, <3>1 DEF AtOnce, InProgress, OrderSteps, PurchaseSteps
    <2>9. OrdersCounted' /\ OverspendCounted'
      BY <2>1, <2>4, <2>7 DEF LedgerInv, OrdersCounted, OverspendCounted
    <2>10. Covered' /\ SumsFresh'
      BY <2>1, <2>7 DEF LedgerInv, Covered, SumsFresh
    <2>11. Credited'
      <3>1. \A u : AcceptedOf(u)' = AcceptedOf(u)
        BY <2>1, <2>4 DEF AcceptedOf
      <3> QED
        BY <2>1, <3>1, CreditedStays DEF LedgerInv
    <2> QED
      BY <2>2, <2>8, <2>9, <2>10, <2>11 DEF LedgerInv
  <1>6. CASE Finished
    BY <1>5, <1>6 DEF Finished
  <1> QED
    BY <1>2, <1>3, <1>4, <1>5, <1>6 DEF Next

\* The strengthened invariant holds: what the theorems below follow from.
THEOREM LedgerKept ==
    Spec => []LedgerInv
  BY InitLedger, StepLedger, PTL DEF Spec

\* The tables and the requests hold what their columns and statements allow.
THEOREM LedgerTyped ==
    Spec => []TypeOK
  <1>1. LedgerInv => TypeOK
    BY DEF LedgerInv
  <1> QED
    BY <1>1, LedgerKept, PTL

\* A balance in userdonate, or read from it by a purchase (dbOnConsumeDonate) or
\* about to be written (dbIncUserDonateInfoEx), never exceeds what the rows of
\* userdonatehistory add up to, however the requests interleave or fail.
THEOREM NoMoneyMade ==
    Spec => []NoMoneyInvented
  <1>1. LedgerInv => NoMoneyInvented
    BY SumsRead DEF LedgerInv, Covered, NoMoneyInvented
  <1> QED
    BY <1>1, LedgerKept, PTL

\* An order id gets at most as many rows as operators enter orders at a time:
\* dbIncUserDonateInfoEx looks the id up before it records it.
THEOREM OrdersRecordedOnce ==
    Spec => []OrderRowsBounded
  <1>1. LedgerInv => OrderRowsBounded
    <2> SUFFICES ASSUME LedgerInv, NEW o \in Orders
                 PROVE  Cardinality({h \in history : h.order = o}) <= mode.orders
      BY DEF OrderRowsBounded
    <2> DEFINE Rows == {h \in history : h.order = o}
    <2>1. /\ Cardinality(Rows) + Cardinality(Recording(o)) <= mode.orders
          /\ mode.orders \in Nat
      BY DonateAssumption DEF LedgerInv, OrdersCounted, TypeOK, DonateAssumption
    <2>2. IsFiniteSet(Recording(o))
      <3>1. Recording(o) \subseteq Requests
        BY DEF Recording, InProgress
      <3> QED
        BY <3>1, DonateAssumption, FS_Subset DEF DonateAssumption
    <2>3. Cardinality(Recording(o)) \in Nat /\ Cardinality(Rows) \in Nat
      BY <2>2, FS_Subset, FS_CardinalityType DEF LedgerInv, Finite
    <2> HIDE DEF Rows
    <2>4. Cardinality(Rows) <= mode.orders
      BY <2>1, <2>3
    <2> QED
      BY <2>4 DEF Rows
  <1> QED
    BY <1>1, LedgerKept, PTL

\* With one order entered at a time and no failing query, an order answered
\* without an error is in the player's balance from then on.
THEOREM OrdersCredited ==
    Spec => []AcceptedIsCredited
  <1>1. LedgerInv => AcceptedIsCredited
    BY DEF LedgerInv, Credited, AcceptedIsCredited, DonatedIn
  <1> QED
    BY <1>1, LedgerKept, PTL

\* What a player has bought exceeds what he donated by at most the highest price
\* for each other purchase under way: dbOnConsumeDonate checks the price, then
\* records the purchase, and nothing keeps another request from doing the same.
THEOREM OverspendLimited ==
    Spec => []OverspendBounded
  <1>1. LedgerInv => OverspendBounded
    <2> SUFFICES ASSUME LedgerInv, ~mode.readFaults, NEW u \in Uids
                 PROVE  dbGetUserDonateConsumeSum(u) <=
                           dbGetUserDonateHistorySum(u)
                              + (mode.purchases - 1) * Max(Costs)
      BY DEF OverspendBounded
    <2>1. TypeOK /\ Finite
      BY DEF LedgerInv
    <2>2. SpentIn(Bought(u))
             <= DonatedIn(HistoryOf(u)) + (mode.purchases - 1) * Max(Costs)
      BY DEF LedgerInv, OverspendCounted
    <2>3. /\ SpentIn(ConsumeOf(u)) <= SpentIn(Bought(u))
          /\ SpentIn(ConsumeOf(u)) \in Nat /\ SpentIn(Bought(u)) \in Nat
      <3>1. ConsumeOf(u) \subseteq Bought(u)
        BY DEF Bought
      <3> QED
        BY <2>1, <3>1, BoughtFacts, SpentInMore
    <2>4. mode.purchases \in Nat /\ Max(Costs) \in Nat
      BY <2>1, DonateAssumption, MaxExists DEF TypeOK, DonateAssumption
    <2>5. (mode.purchases - 1) * Max(Costs) \in Int
      BY <2>4
    <2>6. DonatedIn(HistoryOf(u)) \in Nat
      BY <2>1, TableFacts
    <2>7. SpentIn(ConsumeOf(u))
             <= DonatedIn(HistoryOf(u)) + (mode.purchases - 1) * Max(Costs)
      BY <2>2, <2>3, <2>5, <2>6
    <2> QED
      BY <2>7, SumsRead
  <1> QED
    BY <1>1, LedgerKept, PTL
=============================================================================
