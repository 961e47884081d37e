--------------------------- MODULE PaymentsProofs ---------------------------
(***************************************************************************)
(* Proofs about Payments: where the numbers fit an int64, what Review      *)
(* plans is what the comments of PlanSpend and MaxAmount promise, and no   *)
(* process that ends, write that fails, fork or plan that is out of date   *)
(* loses the change of a payment, nor pays that of two payments to one     *)
(* address unless one of them expired or its block was orphaned.  They     *)
(* hold for any coins, requests, widths and troubles.                      *)
(***************************************************************************)
EXTENDS Payments, FunctionTheorems, KeepingProofs

(***************************************************************************)
(* Coins and sizes                                                         *)
(***************************************************************************)

\* The weights of coins are their values.
IsWorth(w, coins) == \A c \in coins : w[c] = c.value

\* ValueOf adds up the values.
LEMMA ValueIsSum ==
  ASSUME NEW S, IsFiniteSet(S), NEW w, IsWorth(w, S)
  PROVE  ValueOf(S) = SumOf(w, S)
  <1> DEFINE eq(g) == g = [s \in SUBSET S |->
                             IF s = {} THEN 0
                             ELSE (CHOOSE x \in s : TRUE).value + g[s \ {CHOOSE x \in s : TRUE}]]
  <1>1. ASSUME NEW g PROVE eq(g) <=> AddsUp(g, w, S)
    <2>1. \A s \in SUBSET S : s # {} => AnyOf(s) \in s
      BY DEF AnyOf
    <2>2. \A s \in SUBSET S : s # {} => w[AnyOf(s)] = AnyOf(s).value
      BY <2>1 DEF IsWorth
    <2>3. [s \in SUBSET S |-> IF s = {} THEN 0 ELSE w[AnyOf(s)] + g[s \ {AnyOf(s)}]]
          = [s \in SUBSET S |-> IF s = {} THEN 0 ELSE AnyOf(s).value + g[s \ {AnyOf(s)}]]
      BY <2>2
    <2> QED BY <2>3 DEF AddsUp, AnyOf
  <1>2. \E g : AddsUp(g, w, S)
    BY AddsUpExists
  <1> DEFINE h == CHOOSE g : eq(g)
  <1>3. eq(h)
    <2>1. PICK g : AddsUp(g, w, S)
      BY <1>2
    <2>2. eq(g)
      BY <1>1, <2>1
    <2> HIDE DEF eq
    <2> QED BY <2>2
  <1>4. AddsUp(h, w, S)
    BY <1>1, <1>3
  <1>5. ValueOf(S) = h[S]
    BY DEF ValueOf, MapThenSumSet, MapThenFoldSet
  <1> HIDE DEF h, eq
  <1> QED BY <1>4, <1>5, AddsUpSum

\* Sets of coins as the wallet lists them: finitely many, told apart by id.
IsCoinSet(coins) ==
  /\ IsFiniteSet(coins) /\ coins \subseteq CoinRecords
  /\ \A c, d \in coins : c.id = d.id => c = d

\* A coin set has the parts that are coin sets.
LEMMA CoinSubset ==
  ASSUME NEW coins, IsCoinSet(coins), NEW part \in SUBSET coins
  PROVE  IsCoinSet(part)
  BY FS_Subset DEF IsCoinSet

\* What a set of coins is worth.
LEMMA ValueFacts ==
  ASSUME NEW coins, IsCoinSet(coins)
  PROVE  \E w : /\ \A c \in coins : w[c] = c.value /\ w[c] \in Nat
                /\ \A part \in SUBSET coins : ValueOf(part) = SumOf(w, part) /\ ValueOf(part) \in Nat
  <1> DEFINE w == [c \in coins |-> c.value]
  <1>1. IsFiniteSet(coins)
    BY DEF IsCoinSet
  <1>2. \A c \in coins : w[c] = c.value /\ w[c] \in Nat
    BY DEF IsCoinSet, CoinRecords
  <1> HIDE DEF w
  <1>3. ASSUME NEW part \in SUBSET coins PROVE ValueOf(part) = SumOf(w, part) /\ ValueOf(part) \in Nat
    <2>1. IsFiniteSet(part) /\ IsWorth(w, part)
      BY <1>1, <1>2, FS_Subset DEF IsWorth
    <2>2. ValueOf(part) = SumOf(w, part)
      BY <2>1, ValueIsSum
    <2>3. SumOf(w, part) \in Nat
      BY <1>1, <1>2, SumFacts
    <2> QED BY <2>2, <2>3
  <1> QED BY <1>2, <1>3

\* The order of the candidates is a strict order in which no two are alike.
LEMMA BeforeOrder ==
  ASSUME NEW coins, IsCoinSet(coins), NEW c \in coins, NEW d \in coins
  PROVE  /\ ~Before(c, c)
         /\ c # d => Before(c, d) \/ Before(d, c)
         /\ \A e \in coins : Before(c, d) /\ Before(d, e) => Before(c, e)
  <1>1. \A x \in coins : x.id \in Nat /\ x.value \in Nat /\ x.confirmed \in BOOLEAN
    BY DEF IsCoinSet, CoinRecords
  <1>2. ~Before(c, c)
    BY <1>1 DEF Before
  <1>3. ASSUME c # d PROVE Before(c, d) \/ Before(d, c)
    <2>1. c.id # d.id
      BY <1>3 DEF IsCoinSet
    <2>2. c.id < d.id \/ d.id < c.id
      BY <1>1, <2>1
    <2>3. c.value > d.value \/ d.value > c.value \/ c.value = d.value
      BY <1>1
    <2> QED BY <1>1, <2>2, <2>3 DEF Before
  <1>4. ASSUME NEW e \in coins, Before(c, d), Before(d, e) PROVE Before(c, e)
    BY <1>1, <1>4 DEF Before
  <1> QED BY <1>2, <1>3, <1>4

\* There are n first coins, and each comes before all others.
LEMMA FirstFacts ==
  ASSUME NEW coins, IsCoinSet(coins), NEW n \in 0..Cardinality(coins)
  PROVE  /\ FirstCoins(coins, n) \in SUBSET coins
         /\ Cardinality(FirstCoins(coins, n)) = n
         /\ \A c \in FirstCoins(coins, n), d \in coins \ FirstCoins(coins, n) : Before(c, d)
         /\ \A m \in 0..n : FirstCoins(coins, m) \subseteq FirstCoins(coins, n)
  <1> DEFINE N == Cardinality(coins)
             before(c) == {d \in coins : Before(d, c)}
             r == [c \in coins |-> Cardinality(before(c))]
             A == FirstCoins(coins, n)
  <1>1. IsFiniteSet(coins) /\ N \in Nat
    BY FS_CardinalityType DEF IsCoinSet
  <1>2. ASSUME NEW c \in coins
        PROVE  r[c] \in 0..(N - 1) /\ IsFiniteSet(before(c)) /\ Cardinality(before(c)) \in Nat
    <2>1. before(c) \in SUBSET coins /\ c \notin before(c)
      BY BeforeOrder
    <2>2. IsFiniteSet(before(c)) /\ Cardinality(before(c)) <= N /\ Cardinality(before(c)) # N
      <3> HIDE DEF before
      <3> QED BY <1>1, <2>1, FS_Subset
    <2>3. Cardinality(before(c)) \in Nat
      <3> HIDE DEF before
      <3> QED BY <2>2, FS_CardinalityType
    <2>4. Cardinality(before(c)) \in 0..(N - 1)
      <3> HIDE DEF before, N
      <3> QED BY <1>1, <2>2, <2>3
    <2> QED BY <2>2, <2>3, <2>4
  <1>3. ASSUME NEW c \in coins, NEW d \in coins, Before(c, d) PROVE r[c] < r[d]
    <2>1. before(c) \in SUBSET before(d) /\ c \in before(d) /\ c \notin before(c)
      BY <1>3, BeforeOrder
    <2>2. Cardinality(before(c)) <= Cardinality(before(d)) /\ Cardinality(before(c)) # Cardinality(before(d))
      <3>1. IsFiniteSet(before(d))
        BY <1>2
      <3> HIDE DEF before
      <3> QED BY <2>1, <3>1, FS_Subset
    <2>3. Cardinality(before(c)) < Cardinality(before(d))
      <3>1. Cardinality(before(c)) \in Nat /\ Cardinality(before(d)) \in Nat
        BY <1>2
      <3> HIDE DEF before
      <3> QED BY <2>2, <3>1
    <2> QED BY <2>3
  <1>4. A = {c \in coins : r[c] < n}
    BY DEF FirstCoins
  <1>5. r \in [coins -> 0..(N - 1)]
    <2>1. \A c \in coins : r[c] \in 0..(N - 1)
      BY <1>2
    <2> HIDE DEF N, before
    <2> QED BY <2>1
  <1> HIDE DEF r, A, N
  <1>6. \A c, d \in coins : r[c] = r[d] => c = d
    <2> SUFFICES ASSUME NEW c \in coins, NEW d \in coins, c # d PROVE r[c] # r[d]
      OBVIOUS
    <2>1. Before(c, d) \/ Before(d, c)
      BY BeforeOrder
    <2>2. r[c] < r[d] \/ r[d] < r[c]
      BY <1>3, <2>1
    <2> QED BY <1>5, <2>2
  <1>7. r \in Injection(coins, 0..(N - 1))
    BY <1>5, <1>6 DEF Injection, IsInjective
  <1>8. IsFiniteSet(0..(N - 1)) /\ Cardinality(0..(N - 1)) = N
    <2>1. \A a, b \in Int : IsFiniteSet(a..b) /\ Cardinality(a..b) = IF a > b THEN 0 ELSE b - a + 1
      BY FS_Interval
    <2>2. 0 \in Int /\ N - 1 \in Int
      BY <1>1
    <2>3. Cardinality(0..(N - 1)) = IF 0 > N - 1 THEN 0 ELSE (N - 1) - 0 + 1
      BY <2>1, <2>2
    <2> QED BY <1>1, <2>1, <2>2, <2>3
  <1>9. r \in Surjection(coins, 0..(N - 1))
    BY <1>1, <1>7, <1>8, FS_Injection DEF N
  <1>10. \A k \in 0..(N - 1) : \E c \in coins : r[c] = k
    BY <1>9 DEF Surjection
  <1>11. n \in 0..N
    BY DEF N
  <1>12. Cardinality(A) = n
    <2> DEFINE f == [c \in A |-> r[c]]
    <2>1. f \in [A -> 0..(n - 1)]
      BY <1>4, <1>5, <1>11
    <2>2. \A k \in 0..(n - 1) : \E c \in A : f[c] = k
      <3> SUFFICES ASSUME NEW k \in 0..(n - 1) PROVE \E c \in A : f[c] = k
        OBVIOUS
      <3>1. k \in 0..(N - 1) /\ k < n
        BY <1>1, <1>11
      <3>2. PICK c \in coins : r[c] = k
        BY <1>10, <3>1
      <3> QED BY <1>4, <3>1, <3>2
    <2>3. \A c, d \in A : f[c] = f[d] => c = d
      BY <1>4, <1>6
    <2> HIDE DEF f
    <2>4. f \in Bijection(A, 0..(n - 1))
      BY <2>1, <2>2, <2>3 DEF Bijection, Injection, IsInjective, Surjection
    <2>5. IsFiniteSet(A)
      BY <1>1, <1>4, FS_Subset
    <2>6. Cardinality(0..(n - 1)) = Cardinality(A)
      BY <2>4, <2>5, FS_Bijection DEF ExistsBijection
    <2>7. Cardinality(0..(n - 1)) = n
      <3>1. \A a, b \in Int : Cardinality(a..b) = IF a > b THEN 0 ELSE b - a + 1
        BY FS_Interval
      <3>2. 0 \in Int /\ n - 1 \in Int /\ n \in Nat
        BY <1>11
      <3>3. Cardinality(0..(n - 1)) = IF 0 > n - 1 THEN 0 ELSE (n - 1) - 0 + 1
        BY <3>1, <3>2
      <3> QED BY <3>2, <3>3
    <2> QED BY <2>6, <2>7
  <1>13. ASSUME NEW c \in A, NEW d \in coins \ A PROVE Before(c, d)
    <2>1. c \in coins /\ r[c] < n /\ ~(r[d] < n)
      BY <1>4
    <2>2. ~(r[d] < r[c])
      BY <1>5, <1>11, <2>1
    <2>3. c # d /\ ~Before(d, c)
      BY <1>3, <2>1, <2>2
    <2> QED BY <2>1, <2>3, BeforeOrder
  <1>14. A \in SUBSET coins
    BY <1>4
  <1>15. ASSUME NEW m \in 0..n PROVE FirstCoins(coins, m) \subseteq A
    <2>1. FirstCoins(coins, m) = {c \in coins : r[c] < m}
      BY DEF FirstCoins, r
    <2>2. ASSUME NEW c \in coins, r[c] < m PROVE r[c] < n
      BY <1>5, <1>11, <2>2
    <2> QED BY <1>4, <2>1, <2>2
  <1> QED BY <1>12, <1>13, <1>14, <1>15 DEF A

\* The kinds of scripts.
Kinds == {"p2wpkh", "p2tr", "p2pkh", "blank"}

\* The size of a payment that has no inputs.
BaseSize(dest) == 11 + OutputSize(dest)
BaseWithChange(dest) == 11 + OutputSize(dest) + OutputSize(ChangeScript)

\* An output has a size.
LEMMA OutputSizeFacts ==
  ASSUME NEW dest \in Kinds
  PROVE  OutputSize(dest) \in 1..50 /\ ChangeScript \in Kinds
  <1>1. dest \in {"p2wpkh", "p2tr", "p2pkh", "blank"}
    BY DEF Kinds
  <1>2. ScriptLength[dest] \in {22, 34, 25}
    <2>1. CASE dest = "p2wpkh"
      BY <2>1 DEF ScriptLength
    <2>2. CASE dest = "p2tr"
      BY <2>2 DEF ScriptLength
    <2>3. CASE dest = "p2pkh"
      BY <2>3 DEF ScriptLength
    <2>4. CASE dest = "blank"
      BY <2>4 DEF ScriptLength
    <2> QED BY <1>1, <2>1, <2>2, <2>3, <2>4
  <1>3. \A n \in {22, 34, 25} : 8 + 1 + n \in 1..50
    OBVIOUS
  <1>4. ChangeScript \in Kinds
    BY DEF ChangeScript, Kinds
  <1> QED BY <1>2, <1>3, <1>4 DEF OutputSize

\* The sizes EstimateVSize gives: each input takes 68 vbytes.
LEMMA SizeFacts ==
  ASSUME NEW dest \in Kinds, NEW n \in Nat
  PROVE  /\ EstimateVSize(n, ToDest(dest)) = BaseSize(dest) + 68 * n
         /\ EstimateVSize(n, WithChange(dest)) = BaseWithChange(dest) + 68 * n
         /\ BaseSize(dest) \in Nat /\ BaseWithChange(dest) \in Nat
  <1> DEFINE u == OutputSize(dest)
             v == OutputSize(ChangeScript)
  <1>1. u \in 1..50 /\ v \in 1..50
    BY OutputSizeFacts
  <1>2. OutputsWeight(ToDest(dest)) = u * 4 + 0
    <2>1. Len(ToDest(dest)) = 1 /\ ToDest(dest)[1] = dest
      BY DEF ToDest
    <2>2. Len(ToDest(dest)) # 2
      BY <2>1
    <2> QED BY <2>1, <2>2 DEF OutputsWeight
  <1>3. OutputsWeight(WithChange(dest)) = u * 4 + v * 4
    <2>1. Len(WithChange(dest)) = 2 /\ WithChange(dest)[1] = dest /\ WithChange(dest)[2] = ChangeScript
      BY DEF WithChange
    <2> QED BY <2>1 DEF OutputsWeight
  <1>12. EstimateVSize(n, ToDest(dest)) = (42 + n * 272 + OutputsWeight(ToDest(dest)) + 3) \div 4
    <2>1. TxOverheadWeight = 42 /\ P2WPKHInputWeight = 272
      BY DEF TxOverheadWeight, P2WPKHInputWeight
    <2> QED BY <2>1 DEF EstimateVSize
  <1>13. EstimateVSize(n, WithChange(dest)) = (42 + n * 272 + OutputsWeight(WithChange(dest)) + 3) \div 4
    <2>1. TxOverheadWeight = 42 /\ P2WPKHInputWeight = 272
      BY DEF TxOverheadWeight, P2WPKHInputWeight
    <2> QED BY <2>1 DEF EstimateVSize
  <1> HIDE DEF u, v
  <1>14. OutputsWeight(ToDest(dest)) = u * 4 /\ OutputsWeight(WithChange(dest)) = v * 4 + u * 4
    <2>1. u * 4 \in Nat /\ v * 4 \in Nat
      BY <1>1
    <2> QED BY <1>2, <1>3, <2>1
  <1>15. \A m \in Nat, x \in Nat : (42 + m * 272 + x * 4 + 3) \div 4 = 11 + x + 68 * m
    OBVIOUS
  <1>16. (42 + n * 272 + u * 4 + 3) \div 4 = 11 + u + 68 * n
    BY <1>1, <1>15
  <1>17. (42 + n * 272 + (v * 4 + u * 4) + 3) \div 4 = 11 + u + v + 68 * n
    <2>1. v * 4 + u * 4 = (u + v) * 4 /\ u + v \in Nat
      BY <1>1
    <2>2. (42 + n * 272 + (u + v) * 4 + 3) \div 4 = 11 + (u + v) + 68 * n
      BY <1>15, <2>1
    <2>3. 11 + (u + v) = 11 + u + v
      BY <1>1
    <2> QED BY <2>1, <2>2, <2>3
  <1>18. BaseSize(dest) = 11 + u /\ BaseWithChange(dest) = 11 + u + v
    BY DEF BaseSize, BaseWithChange, u, v
  <1>19. 11 + u \in Nat /\ 11 + u + v \in Nat
    BY <1>1
  <1> QED BY <1>12, <1>13, <1>14, <1>16, <1>17, <1>18, <1>19

\* Some number of a set is the least.
LEMMA MinFacts ==
  ASSUME NEW n \in Nat, NEW S \in SUBSET (0..(n - 1)), S # {}
  PROVE  Min(S) \in S /\ \A k \in S : Min(S) <= k
  <1> DEFINE I == {i \in 1..n : i - 1 \in S}
  <1>1. I \in SUBSET (1..n) /\ I # {}
    <2>1. PICK x \in S : TRUE
      OBVIOUS
    <2>2. x + 1 \in I
      BY <2>1
    <2> QED BY <2>2
  <1> HIDE DEF I
  <1>2. /\ IsFiniteSet(I) /\ Cardinality(I) \in 0..n
        /\ \A i \in I : Rank(I, i) \in 1..Cardinality(I)
        /\ \A i, j \in I : i < j => Rank(I, i) < Rank(I, j)
    BY <1>1, RankFacts
  <1>3. Cardinality(I) # 0
    BY <1>1, <1>2, FS_EmptySet
  <1>4. Kth(I, 1) \in I /\ Rank(I, Kth(I, 1)) = 1
    <2>1. \A k \in 1..Cardinality(I) : Kth(I, k) \in I /\ Rank(I, Kth(I, k)) = k
      BY <1>1, KthFacts
    <2>2. 1 \in 1..Cardinality(I)
      BY <1>2, <1>3
    <2> QED BY <2>1, <2>2
  <1> DEFINE k == Kth(I, 1)
  <1> HIDE DEF k
  <1>5. k \in I /\ Rank(I, k) = 1
    BY <1>4 DEF k
  <1>6. ASSUME NEW j \in I PROVE k <= j
    <2>1. Rank(I, j) \in 1..Cardinality(I) /\ j \in 1..n /\ k \in 1..n
      BY <1>1, <1>2, <1>5
    <2>2. ~(Rank(I, j) < Rank(I, k))
      BY <1>2, <1>5, <2>1
    <2>3. ~(j < k)
      BY <1>2, <1>5, <2>2
    <2> QED BY <2>1, <2>3
  <1>7. k - 1 \in S /\ \A y \in S : k - 1 <= y
    <2>1. k - 1 \in S /\ k \in 1..n
      BY <1>1, <1>5 DEF I
    <2>2. ASSUME NEW y \in S PROVE k - 1 <= y
      <3>1. y \in 0..(n - 1) /\ y + 1 \in 1..n /\ (y + 1) - 1 = y
        OBVIOUS
      <3>2. y + 1 \in I
        BY <3>1 DEF I
      <3>3. k <= y + 1
        BY <1>6, <3>2
      <3> QED BY <2>1, <3>1, <3>3
    <2> QED BY <2>1, <2>2
  <1> QED BY <1>7 DEF Min

(***************************************************************************)
(* Planning a payment                                                      *)
(***************************************************************************)

\* An int64 holds what fits it.
LEMMA WrapFacts ==
  ASSUME NEW x \in Int
  PROVE  /\ Wrap(x) \in Int
         /\ x <= IntMax /\ x + IntMax + 1 >= 0 => Wrap(x) = x
  <1> DEFINE m == IntMax + 1
  <1>1. IntMax \in Nat /\ m \in Nat /\ m > 0
    BY IntAssumption
  <1>2. Wrap(x) = ((x + IntMax + 1) % (2 * m)) - m
    BY DEF Wrap
  <1>3. \A a \in Int, b \in Nat : b > 0 => a % b \in 0..(b - 1) /\ (a \in 0..(b - 1) => a % b = a)
    OBVIOUS
  <1>4. x + IntMax + 1 \in Int /\ 2 * m \in Nat /\ 2 * m > 0
    BY <1>1
  <1>5. (x + IntMax + 1) % (2 * m) \in Int
    BY <1>3, <1>4
  <1>6. ASSUME x <= IntMax, x + IntMax + 1 >= 0 PROVE (x + IntMax + 1) % (2 * m) = x + m
    <2>1. x + IntMax + 1 \in 0..(2 * m - 1) /\ x + IntMax + 1 = x + m
      BY <1>1, <1>6
    <2> QED BY <1>3, <1>4, <2>1
  <1> HIDE DEF m
  <1> QED BY <1>1, <1>2, <1>5, <1>6

\* What PlanSpend is given: coins, a destination, an amount and a rate.
IsOrder(coins, dest, amount, rate) ==
  IsCoinSet(coins) /\ dest \in Kinds /\ amount \in Nat /\ rate \in Nat \ {0}

\* The numbers of coins that suffice.
Enough(coins, useAll, dest, amount, rate) ==
  {n \in IF useAll THEN {Cardinality(coins)} ELSE 1..Cardinality(coins) :
     \/ HasChange(FirstCoins(coins, n), dest, amount, rate)
     \/ CoversFee(FirstCoins(coins, n), dest, amount, rate)}

\* The numbers that come up fit an int64.
InRange(coins, dest, amount, rate) ==
  /\ ValueOf(coins) <= IntMax
  /\ amount + EstimateVSize(Cardinality(coins), WithChange(dest)) * rate <= IntMax

\* Outputs below some positive limit are dust.
LEMMA DustFacts ==
  ASSUME NEW dest \in Kinds
  PROVE  DustLimit(dest) \in Nat \ {0}
  <1>1. OutputSize(dest) \in 1..50
    BY OutputSizeFacts
  <1>2. SpendSize(dest) \in 1..200
    <2>1. 107 \div 4 \in 1..100
      OBVIOUS
    <2> DEFINE k == 107 \div 4
    <2> HIDE DEF k
    <2>2. k \in 1..100
      BY <2>1 DEF k
    <2>3. SpendSize(dest) = 32 + 4 + 1 + (IF IsWitnessProgram(dest) THEN k ELSE 107) + 4
      BY DEF SpendSize, k
    <2> QED BY <2>2, <2>3
  <1>3. \A a \in 1..50, b \in 1..200 : (a + b) * 3 \in Nat \ {0}
    OBVIOUS
  <1> QED BY <1>1, <1>2, <1>3 DEF DustLimit

\* PlanSpend refuses, or takes the least number of coins that suffices.
LEMMA PlanCases ==
  ASSUME NEW coins, IsFiniteSet(coins), NEW useAll, NEW dest, NEW amount, NEW rate \in Nat \ {0}
  PROVE  LET enough == Enough(coins, useAll, dest, amount, rate)
             s == PlanSpend(coins, useAll, dest, amount, rate)
         IN  \/ s = NoSpend /\ (amount < DustLimit(dest) \/ enough = {})
             \/ /\ ~(amount < DustLimit(dest))
                /\ \E n \in enough : /\ \A k \in enough : n <= k
                                     /\ s = Spend(FirstCoins(coins, n), dest, amount, rate)
  <1> DEFINE enough == Enough(coins, useAll, dest, amount, rate)
             s == PlanSpend(coins, useAll, dest, amount, rate)
  <1>1. s = IF amount < DustLimit(dest) \/ rate < 1 \/ enough = {}
            THEN NoSpend ELSE Spend(FirstCoins(coins, Min(enough)), dest, amount, rate)
    BY DEF PlanSpend, Enough
  <1>2. enough # {} => Min(enough) \in enough /\ \A k \in enough : Min(enough) <= k
    <2>1. Cardinality(coins) \in Nat
      BY FS_CardinalityType
    <2>2. enough \in SUBSET (0..((Cardinality(coins) + 1) - 1))
      <3>1. enough \in SUBSET (0..Cardinality(coins))
        BY <2>1 DEF Enough
      <3>2. (Cardinality(coins) + 1) - 1 = Cardinality(coins)
        BY <2>1
      <3> QED BY <3>1, <3>2
    <2>3. Cardinality(coins) + 1 \in Nat
      BY <2>1
    <2> HIDE DEF enough
    <2> QED BY <2>2, <2>3, MinFacts
  <1>3. ~(rate < 1)
    OBVIOUS
  <1> HIDE DEF s, enough
  <1>4. CASE amount < DustLimit(dest) \/ enough = {}
    BY <1>1, <1>4 DEF s, enough
  <1>5. CASE ~(amount < DustLimit(dest)) /\ enough # {}
    BY <1>1, <1>2, <1>3, <1>5 DEF s, enough
  <1> QED BY <1>4, <1>5

\* Where they fit, fees and change are what they say.
LEMMA Unwrapped ==
  ASSUME NEW coins, NEW dest, NEW amount, NEW rate, IsOrder(coins, dest, amount, rate),
         InRange(coins, dest, amount, rate), NEW inputs \in SUBSET coins
  PROVE  LET v == ValueOf(inputs)
             n == Cardinality(inputs)
             e0 == EstimateVSize(n, ToDest(dest))
             e1 == EstimateVSize(n, WithChange(dest))
         IN  /\ v \in Nat /\ e0 \in Nat /\ e1 \in Nat
             /\ FeeOf(inputs, ToDest(dest), rate) = e0 * rate
             /\ FeeOf(inputs, WithChange(dest), rate) = e1 * rate
             /\ Remainder(inputs, amount) = v - amount
             /\ Rest(inputs, dest, amount, rate) = v - amount - e1 * rate
  <1> DEFINE v == ValueOf(inputs)
             n == Cardinality(inputs)
             k == Cardinality(coins)
             e0 == EstimateVSize(n, ToDest(dest))
             e1 == EstimateVSize(n, WithChange(dest))
             e2 == EstimateVSize(k, WithChange(dest))
  <1>1. amount \in Nat /\ rate \in Nat /\ dest \in Kinds /\ IntMax \in Nat
    BY IntAssumption DEF IsOrder
  <1>2. v \in Nat /\ v <= IntMax
    <2>1. PICK w : /\ \A c \in coins : w[c] = c.value /\ w[c] \in Nat
                   /\ \A part \in SUBSET coins : ValueOf(part) = SumOf(w, part) /\ ValueOf(part) \in Nat
      BY ValueFacts DEF IsOrder
    <2>2. SumOf(w, coins) = SumOf(w, inputs) + SumOf(w, coins \ inputs)
      BY <2>1, SumSplit DEF IsOrder, IsCoinSet
    <2>3. coins \in SUBSET coins /\ inputs \in SUBSET coins /\ coins \ inputs \in SUBSET coins
      OBVIOUS
    <2>4. ValueOf(coins) = v + ValueOf(coins \ inputs)
          /\ v \in Nat /\ ValueOf(coins) \in Nat /\ ValueOf(coins \ inputs) \in Nat
      BY <2>1, <2>2, <2>3
    <2>5. ValueOf(coins) <= IntMax
      BY DEF InRange
    <2> HIDE DEF v
    <2> QED BY <1>1, <2>4, <2>5
  <1>3. n \in Nat /\ k \in Nat /\ n <= k
    BY FS_Subset, FS_CardinalityType DEF IsOrder, IsCoinSet
  <1>4. /\ e0 = BaseSize(dest) + 68 * n /\ e1 = BaseWithChange(dest) + 68 * n
        /\ e2 = BaseWithChange(dest) + 68 * k
        /\ BaseSize(dest) \in Nat /\ BaseWithChange(dest) \in Nat
    <2> HIDE DEF n, k
    <2> QED BY <1>1, <1>3, SizeFacts
  <1>5. BaseSize(dest) <= BaseWithChange(dest)
    <2>1. OutputSize(dest) \in 1..50 /\ OutputSize(ChangeScript) \in 1..50
      BY <1>1, OutputSizeFacts
    <2> QED BY <2>1 DEF BaseSize, BaseWithChange
  <1>6. amount + e2 * rate <= IntMax
    BY DEF InRange
  <1> HIDE DEF v, n, k, e0, e1, e2
  <1>7. e0 \in Nat /\ e1 \in Nat /\ e2 \in Nat /\ e0 <= e1 /\ e1 <= e2
    BY <1>3, <1>4, <1>5
  <1>8. \A a, b, c \in Nat : a <= b => a * c \in Nat /\ b * c \in Nat /\ a * c <= b * c
    OBVIOUS
  <1>9. /\ e0 * rate \in Nat /\ e1 * rate \in Nat /\ e2 * rate \in Nat
        /\ e0 * rate <= e1 * rate /\ e1 * rate <= e2 * rate
    BY <1>1, <1>7, <1>8
  <1> DEFINE f0 == e0 * rate
             f1 == e1 * rate
             f2 == e2 * rate
  <1>10. FeeOf(inputs, ToDest(dest), rate) = Wrap(f0) /\ FeeOf(inputs, WithChange(dest), rate) = Wrap(f1)
    BY DEF FeeOf, e0, e1, n
  <1>11. /\ Remainder(inputs, amount) = Wrap(v - amount)
         /\ Rest(inputs, dest, amount, rate) = Wrap(v - amount - FeeOf(inputs, WithChange(dest), rate))
    BY DEF Remainder, Rest, v
  <1>12. f0 \in Nat /\ f1 \in Nat /\ f2 \in Nat /\ f0 <= f1 /\ f1 <= f2 /\ amount + f2 <= IntMax
    BY <1>6, <1>9
  <1> HIDE DEF f0, f1, f2
  <1>13. Wrap(f0) = f0 /\ Wrap(f1) = f1
    <2>1. f0 \in Int /\ f1 \in Int /\ f0 <= IntMax /\ f1 <= IntMax
          /\ f0 + IntMax + 1 >= 0 /\ f1 + IntMax + 1 >= 0
      BY <1>1, <1>12
    <2> QED BY <2>1, WrapFacts
  <1>14. Wrap(v - amount) = v - amount
    <2>1. v - amount \in Int /\ v - amount <= IntMax /\ (v - amount) + IntMax + 1 >= 0
      BY <1>1, <1>2, <1>12
    <2> QED BY <2>1, WrapFacts
  <1>15. Wrap(v - amount - f1) = v - amount - f1
    <2>1. v - amount - f1 \in Int /\ v - amount - f1 <= IntMax /\ (v - amount - f1) + IntMax + 1 >= 0
      BY <1>1, <1>2, <1>12
    <2> QED BY <2>1, WrapFacts
  <1> QED BY <1>2, <1>7, <1>10, <1>11, <1>13, <1>14, <1>15 DEF v, n, e0, e1, f0, f1

\* A Spend made from coins that suffice adds up.
LEMMA SpendFacts ==
  ASSUME NEW coins, NEW dest, NEW amount, NEW rate, IsOrder(coins, dest, amount, rate),
         InRange(coins, dest, amount, rate), NEW inputs \in SUBSET coins,
         HasChange(inputs, dest, amount, rate) \/ CoversFee(inputs, dest, amount, rate)
  PROVE  LET s == Spend(inputs, dest, amount, rate)
             n == Cardinality(inputs)
             size == EstimateVSize(n, IF s.change > 0 THEN WithChange(dest) ELSE ToDest(dest))
         IN  /\ s.inputs = inputs /\ s.amount = amount /\ s.change \in Nat
             /\ ValueOf(inputs) = s.amount + s.fee + s.change
             /\ s.change = 0 \/ s.change >= DustLimit(ChangeScript)
             /\ s.fee >= rate * size
             /\ s.fee < rate * EstimateVSize(n, WithChange(dest)) + DustLimit(ChangeScript)
  <1> DEFINE s == Spend(inputs, dest, amount, rate)
             n == Cardinality(inputs)
             v == ValueOf(inputs)
             e0 == EstimateVSize(n, ToDest(dest))
             e1 == EstimateVSize(n, WithChange(dest))
             d == DustLimit(ChangeScript)
             rest == Rest(inputs, dest, amount, rate)
  <1>1. amount \in Nat /\ rate \in Nat /\ dest \in Kinds
    BY DEF IsOrder
  <1>2. v \in Nat
    BY ValueFacts DEF IsOrder
  <1>3. e0 \in Nat /\ e1 \in Nat
    <2>1. n \in Nat
      BY FS_Subset, FS_CardinalityType DEF IsOrder, IsCoinSet
    <2>2. \A b \in Nat : b + 68 * n \in Nat
      BY <2>1
    <2> QED BY <1>1, <2>1, <2>2, SizeFacts
  <1>4. d \in Nat \ {0}
    BY OutputSizeFacts, DustFacts, <1>1
  <1>5. /\ rest = v - amount - e1 * rate
        /\ HasChange(inputs, dest, amount, rate) <=> rest >= d
        /\ CoversFee(inputs, dest, amount, rate) <=> v - amount >= e0 * rate
        /\ FeeOf(inputs, WithChange(dest), rate) = e1 * rate
        /\ Remainder(inputs, amount) = v - amount
    BY Unwrapped DEF HasChange, CoversFee
  <1>6. e0 * rate \in Nat /\ e1 * rate \in Nat /\ e0 * rate = rate * e0 /\ e1 * rate = rate * e1
    BY <1>1, <1>3
  <1>7. s = IF rest >= d THEN [inputs |-> inputs, amount |-> amount, fee |-> e1 * rate, change |-> rest]
            ELSE [inputs |-> inputs, amount |-> amount, fee |-> v - amount, change |-> 0]
    BY <1>5 DEF Spend
  <1>8. rest >= d \/ v - amount >= e0 * rate
    BY <1>5
  <1>9. rest = v - amount - e1 * rate
    BY <1>5
  <1> HIDE DEF s, v, e0, e1, d, rest
  <1>10. rest \in Int
    BY <1>1, <1>2, <1>6, <1>9
  <1>11. CASE rest >= d
    <2>1. s.inputs = inputs /\ s.amount = amount /\ s.fee = e1 * rate /\ s.change = rest
      BY <1>7, <1>11
    <2>2. rest > 0 /\ rest \in Nat
      BY <1>4, <1>10, <1>11
    <2>3. v = amount + e1 * rate + rest
      BY <1>1, <1>2, <1>6, <1>9
    <2>4. e1 * rate >= rate * e1 /\ e1 * rate < rate * e1 + d
      BY <1>4, <1>6
    <2> QED BY <1>11, <2>1, <2>2, <2>3, <2>4 DEF s, v, e0, e1, d
  <1>12. CASE ~(rest >= d)
    <2>1. s.inputs = inputs /\ s.amount = amount /\ s.fee = v - amount /\ s.change = 0
      BY <1>7, <1>12
    <2>2. v = amount + (v - amount) + 0
      BY <1>1, <1>2
    <2>3. v - amount >= rate * e0
      BY <1>6, <1>8, <1>12
    <2>4. v - amount < rate * e1 + d
      BY <1>1, <1>2, <1>4, <1>6, <1>9, <1>12
    <2>5. ~(0 > 0) /\ 0 \in Nat
      OBVIOUS
    <2> QED BY <2>1, <2>2, <2>3, <2>4, <2>5 DEF s, v, e0, e1, d
  <1> QED BY <1>11, <1>12

\* A finite set has as many elements as a part and the rest.
LEMMA PartCardinality ==
  ASSUME NEW S, IsFiniteSet(S), NEW T \in SUBSET S
  PROVE  /\ IsFiniteSet(T) /\ IsFiniteSet(S \ T)
         /\ Cardinality(T) \in Nat /\ Cardinality(S \ T) \in Nat
         /\ Cardinality(S) = Cardinality(T) + Cardinality(S \ T)
  <1>1. IsFiniteSet(T) /\ IsFiniteSet(S \ T)
    BY FS_Subset
  <1>2. T \cup (S \ T) = S /\ T \cap (S \ T) = {}
    OBVIOUS
  <1>3. Cardinality(S) = Cardinality(T) + Cardinality(S \ T) - Cardinality({})
    BY <1>1, <1>2, FS_Union
  <1>4. Cardinality(T) \in Nat /\ Cardinality(S \ T) \in Nat /\ Cardinality({}) = 0
    BY <1>1, FS_CardinalityType, FS_EmptySet
  <1>5. Cardinality(S) = Cardinality(T) + Cardinality(S \ T)
    BY <1>3, <1>4
  <1> QED BY <1>1, <1>4, <1>5

\* The first coins are the most valuable ones where confirmed ones can do.
LEMMA FirstAreBest ==
  ASSUME NEW coins, IsCoinSet(coins), NEW others \in SUBSET coins, AllConfirmed(others)
  PROVE  LET first == FirstCoins(coins, Cardinality(others))
         IN  AllConfirmed(first) /\ ValueOf(first) >= ValueOf(others)
  <1> DEFINE n == Cardinality(others)
             first == FirstCoins(coins, n)
  <1>1. IsFiniteSet(coins) /\ IsFiniteSet(others)
    BY FS_Subset DEF IsCoinSet
  <1>2. n \in 0..Cardinality(coins)
    <2>1. n \in Nat /\ Cardinality(coins) \in Nat /\ n <= Cardinality(coins)
      BY <1>1, FS_Subset, FS_CardinalityType
    <2> QED BY <2>1
  <1>3. /\ first \in SUBSET coins /\ Cardinality(first) = n
        /\ \A c \in first, d \in coins \ first : Before(c, d)
    BY <1>2, FirstFacts
  <1> HIDE DEF first
  <1>4. IsFiniteSet(first)
    BY <1>1, <1>3, FS_Subset
  <1>5. AllConfirmed(first)
    <2> SUFFICES ASSUME NEW c \in first, ~c.confirmed PROVE FALSE
      BY DEF AllConfirmed
    <2>1. ASSUME NEW d \in others PROVE d \in first
      <3>1. ASSUME d \notin first PROVE FALSE
        <4>1. Before(c, d) /\ d.confirmed
          BY <1>3, <3>1 DEF AllConfirmed
        <4>2. c.confirmed # d.confirmed
          BY <4>1
        <4> QED BY <4>1, <4>2 DEF Before
      <3> QED BY <3>1
    <2>2. c \notin others
      BY DEF AllConfirmed
    <2>3. others = first
      BY <1>3, <1>4, <2>1, FS_Subset
    <2> QED BY <2>2, <2>3
  <1>6. PICK w : /\ \A c \in coins : w[c] = c.value /\ w[c] \in Nat
                 /\ \A part \in SUBSET coins : ValueOf(part) = SumOf(w, part) /\ ValueOf(part) \in Nat
    BY ValueFacts
  <1> DEFINE A == first \ others
             B == others \ first
             C == first \cap others
  <1>7. IsFiniteSet(A) /\ IsFiniteSet(B) /\ Cardinality(A) = Cardinality(B)
    <2>1. C \in SUBSET first /\ C \in SUBSET others /\ first \ C = A /\ others \ C = B
      OBVIOUS
    <2>2. \A S : IsFiniteSet(S) => \A T \in SUBSET S :
             IsFiniteSet(T) /\ IsFiniteSet(S \ T) /\ Cardinality(S) = Cardinality(T) + Cardinality(S \ T)
      BY PartCardinality
    <2> HIDE DEF A, B, C
    <2>3. IsFiniteSet(C) /\ IsFiniteSet(A) /\ IsFiniteSet(B)
      BY <1>1, <1>4, <2>1, <2>2
    <2>4. n = Cardinality(C) + Cardinality(A) /\ n = Cardinality(C) + Cardinality(B)
      BY <1>1, <1>3, <1>4, <2>1, <2>2
    <2>5. Cardinality(A) \in Nat /\ Cardinality(B) \in Nat /\ Cardinality(C) \in Nat
      BY <2>3, FS_CardinalityType
    <2>6. Cardinality(A) = Cardinality(B)
      BY <2>4, <2>5
    <2> QED BY <2>3, <2>6
  <1>8. \A x \in A, y \in B : w[x] >= w[y]
    <2> SUFFICES ASSUME NEW x \in A, NEW y \in B PROVE x.value >= y.value
      BY <1>3, <1>6
    <2>1. Before(x, y) /\ x.confirmed /\ y.confirmed
      BY <1>3, <1>5 DEF AllConfirmed
    <2>2. x.confirmed = y.confirmed
      <3>1. x.confirmed \in BOOLEAN /\ y.confirmed \in BOOLEAN
        BY <1>3 DEF IsCoinSet, CoinRecords
      <3> QED BY <2>1, <3>1
    <2>3. x.value > y.value \/ x.value = y.value
      BY <2>1, <2>2 DEF Before
    <2>4. x.value \in Nat /\ y.value \in Nat
      BY <1>3 DEF IsCoinSet, CoinRecords
    <2> QED BY <2>3, <2>4
  <1>9. SumOf(w, A) >= SumOf(w, B)
    <2>1. \A x \in A \cup B : w[x] \in Nat
      BY <1>3, <1>6
    <2> HIDE DEF A, B
    <2> QED BY <1>7, <1>8, <2>1, SumCompare
  <1>10. SumOf(w, first) = SumOf(w, C) + SumOf(w, A)
    <2>1. C \in SUBSET first /\ first \ C = A /\ \A x \in first : w[x] \in Nat
      BY <1>3, <1>6
    <2> HIDE DEF A, C
    <2> QED BY <1>4, <2>1, SumSplit
  <1>11. SumOf(w, others) = SumOf(w, C) + SumOf(w, B)
    <2>1. C \in SUBSET others /\ others \ C = B /\ \A x \in others : w[x] \in Nat
      BY <1>6
    <2> HIDE DEF B, C
    <2> QED BY <1>1, <2>1, SumSplit
  <1>12. /\ SumOf(w, A) \in Nat /\ SumOf(w, B) \in Nat /\ SumOf(w, C) \in Nat
         /\ ValueOf(first) = SumOf(w, first) /\ ValueOf(others) = SumOf(w, others)
    <2>1. A \in SUBSET coins /\ B \in SUBSET coins /\ C \in SUBSET coins
      BY <1>3
    <2> HIDE DEF A, B, C
    <2> QED BY <1>3, <1>6, <2>1
  <1>13. ValueOf(first) >= ValueOf(others)
    <2> HIDE DEF A, B, C
    <2> QED BY <1>9, <1>10, <1>11, <1>12
  <1> QED BY <1>5, <1>13 DEF first

\* Coins that pay the amount without change cover the fee.
LEMMA CanPayCovers ==
  ASSUME NEW coins, NEW r, NEW amount, IsOrder(coins, r.dest, amount, r.rate),
         InRange(coins, r.dest, amount, r.rate),
         NEW others \in SUBSET coins, NEW inputs \in SUBSET coins, CanPay(others, r, amount),
         Cardinality(inputs) = Cardinality(others), ValueOf(inputs) >= ValueOf(others)
  PROVE  CoversFee(inputs, r.dest, amount, r.rate) /\ Cardinality(others) \in 1..Cardinality(coins)
  <1> DEFINE n == Cardinality(others)
             size == EstimateVSize(n, ToDest(r.dest))
  <1>1. n \in Nat /\ n # 0 /\ n <= Cardinality(coins) /\ Cardinality(coins) \in Nat
    <2>1. IsFiniteSet(coins) /\ IsFiniteSet(others) /\ n <= Cardinality(coins)
      BY FS_Subset DEF IsOrder, IsCoinSet
    <2> QED BY <2>1, FS_CardinalityType, FS_EmptySet DEF CanPay
  <1>2. ValueOf(others) \in Nat /\ ValueOf(inputs) \in Nat
    BY ValueFacts DEF IsOrder
  <1>3. size \in Nat
    <2>1. size = BaseSize(r.dest) + 68 * n /\ BaseSize(r.dest) \in Nat
      BY <1>1, SizeFacts DEF IsOrder
    <2> HIDE DEF size
    <2> QED BY <1>1, <2>1
  <1>4. ValueOf(others) >= amount + r.rate * size
    BY DEF CanPay
  <1>5. amount \in Nat /\ r.rate \in Nat
    BY DEF IsOrder
  <1>6. CoversFee(inputs, r.dest, amount, r.rate) <=> ValueOf(inputs) - amount >= size * r.rate
    BY Unwrapped DEF CoversFee
  <1> HIDE DEF n, size
  <1>7. r.rate * size = size * r.rate /\ r.rate * size \in Nat
    BY <1>3, <1>5
  <1>8. ValueOf(inputs) - amount >= size * r.rate
    BY <1>2, <1>4, <1>5, <1>7
  <1> QED BY <1>1, <1>6, <1>8 DEF n

\* As many coins as confirmed ones that can pay suffice.
LEMMA ConfirmedSuffice ==
  ASSUME NEW coins, NEW r, NEW amount, IsOrder(coins, r.dest, amount, r.rate),
         InRange(coins, r.dest, amount, r.rate),
         NEW others \in SUBSET coins, CanPay(others, r, amount), AllConfirmed(others)
  PROVE  /\ Cardinality(others) \in Enough(coins, FALSE, r.dest, amount, r.rate)
         /\ AllConfirmed(FirstCoins(coins, Cardinality(others)))
  <1> DEFINE n == Cardinality(others)
             first == FirstCoins(coins, n)
  <1>1. AllConfirmed(first) /\ ValueOf(first) >= ValueOf(others)
    BY FirstAreBest DEF IsOrder
  <1>2. n \in 0..Cardinality(coins)
    <2>1. IsFiniteSet(coins) /\ IsFiniteSet(others) /\ n <= Cardinality(coins)
      BY FS_Subset DEF IsOrder, IsCoinSet
    <2>2. n \in Nat /\ Cardinality(coins) \in Nat
      BY <2>1, FS_CardinalityType
    <2> QED BY <2>1, <2>2
  <1>3. first \in SUBSET coins /\ Cardinality(first) = n
    BY <1>2, FirstFacts DEF IsOrder
  <1>4. CoversFee(first, r.dest, amount, r.rate) /\ n \in 1..Cardinality(coins)
    <2> HIDE DEF first
    <2> QED BY <1>1, <1>3, CanPayCovers
  <1> QED BY <1>1, <1>4 DEF Enough

\* All coins together suffice if they can pay.
LEMMA AllSuffice ==
  ASSUME NEW coins, NEW r, NEW amount, IsOrder(coins, r.dest, amount, r.rate),
         InRange(coins, r.dest, amount, r.rate),
         CanPay(coins, r, amount), NEW useAll \in BOOLEAN
  PROVE  Enough(coins, useAll, r.dest, amount, r.rate) # {}
  <1> DEFINE n == Cardinality(coins)
  <1>1. IsFiniteSet(coins) /\ n \in Nat /\ n \in 0..n
    BY FS_CardinalityType DEF IsOrder, IsCoinSet
  <1>2. FirstCoins(coins, n) = coins
    <2>1. FirstCoins(coins, n) \in SUBSET coins /\ Cardinality(FirstCoins(coins, n)) = n
      BY <1>1, FirstFacts DEF IsOrder
    <2> QED BY <1>1, <2>1, FS_Subset
  <1>3. CoversFee(coins, r.dest, amount, r.rate) /\ n \in 1..n
    <2>1. ValueOf(coins) >= ValueOf(coins)
      <3>1. ValueOf(coins) \in Nat
        BY ValueFacts DEF IsOrder
      <3> QED BY <3>1
    <2> QED BY <2>1, CanPayCovers
  <1>4. n \in Enough(coins, useAll, r.dest, amount, r.rate)
    BY <1>2, <1>3 DEF Enough
  <1> QED BY <1>4

\* Coins each worth more than its fee only help.
LEMMA WorthHelps ==
  ASSUME NEW coins, NEW r, NEW amount, IsOrder(coins, r.dest, amount, r.rate),
         NEW others \in SUBSET coins, CanPay(others, r, amount), \A c \in coins : Worth(c, r)
  PROVE  CanPay(coins, r, amount)
  <1> DEFINE rest == coins \ others
             k == r.rate * 68
             n == Cardinality(others)
             m == Cardinality(rest)
             base == BaseSize(r.dest)
  <1>1. /\ IsFiniteSet(rest) /\ n \in Nat /\ m \in Nat /\ Cardinality(coins) = n + m
    BY PartCardinality DEF IsOrder, IsCoinSet
  <1>2. r.rate \in Nat /\ amount \in Nat /\ k \in Nat
    BY DEF IsOrder
  <1>3. PICK w : /\ \A c \in coins : w[c] = c.value /\ w[c] \in Nat
                 /\ \A part \in SUBSET coins : ValueOf(part) = SumOf(w, part) /\ ValueOf(part) \in Nat
    BY ValueFacts DEF IsOrder
  <1>4. \A c \in rest : w[c] \in Nat /\ w[c] >= k
    <2> SUFFICES ASSUME NEW c \in rest PROVE w[c] >= k
      BY <1>3
    <2>1. w[c] * 4 > r.rate * 272 /\ w[c] \in Nat
      <3>1. P2WPKHInputWeight = 272
        BY DEF P2WPKHInputWeight
      <3> QED BY <1>3, <3>1 DEF Worth
    <2>2. \A v, a \in Nat : v * 4 > a * 272 => v >= a * 68
      OBVIOUS
    <2> QED BY <1>2, <2>1, <2>2
  <1>5. SumOf(w, rest) >= m * k
    <2> HIDE DEF rest, k
    <2> QED BY <1>1, <1>2, <1>4, SumAtLeast DEF m
  <1>6. ValueOf(coins) = ValueOf(others) + ValueOf(rest) /\ ValueOf(others) \in Nat /\ ValueOf(rest) \in Nat
    <2>1. SumOf(w, coins) = SumOf(w, others) + SumOf(w, rest)
      BY <1>3, SumSplit DEF IsOrder, IsCoinSet
    <2>2. coins \in SUBSET coins /\ rest \in SUBSET coins
      OBVIOUS
    <2> HIDE DEF rest
    <2> QED BY <1>3, <2>1, <2>2
  <1>7. ValueOf(rest) >= m * k
    <2>1. rest \in SUBSET coins
      OBVIOUS
    <2> HIDE DEF rest
    <2> QED BY <1>3, <1>5, <2>1
  <1>8. /\ EstimateVSize(n, ToDest(r.dest)) = base + 68 * n
        /\ EstimateVSize(n + m, ToDest(r.dest)) = base + 68 * (n + m)
        /\ base \in Nat
    <2>1. r.dest \in Kinds /\ n + m \in Nat
      BY <1>1 DEF IsOrder
    <2> HIDE DEF n, m, base
    <2> QED BY <1>1, <2>1, SizeFacts DEF base
  <1>9. ValueOf(others) >= amount + r.rate * (base + 68 * n)
    BY <1>8 DEF CanPay
  <1>10. \A a, b, x, y \in Nat : a * (b + 68 * (x + y)) = a * (b + 68 * x) + y * (a * 68)
    OBVIOUS
  <1>11. r.rate * (base + 68 * (n + m)) = r.rate * (base + 68 * n) + m * k
    <2> HIDE DEF n, m, base
    <2> QED BY <1>1, <1>2, <1>8, <1>10 DEF k
  <1>12. r.rate * (base + 68 * n) \in Nat /\ m * k \in Nat
    <2> HIDE DEF n, m, base, k
    <2>1. base + 68 * n \in Nat
      BY <1>1, <1>8
    <2>2. \A a, b \in Nat : a * b \in Nat
      OBVIOUS
    <2> QED BY <1>1, <1>2, <2>1, <2>2
  <1>13. ValueOf(coins) >= amount + r.rate * (base + 68 * (n + m))
    <2> HIDE DEF n, m, base, k, rest
    <2>1. \A v, u, x, a, p, q, t \in Nat :
             v = u + x /\ x >= q /\ u >= a + p /\ t = p + q => v >= a + t
      OBVIOUS
    <2> DEFINE t == r.rate * (base + 68 * (n + m))
               p == r.rate * (base + 68 * n)
               q == m * k
    <2>2. t = p + q /\ p \in Nat /\ q \in Nat
      BY <1>11, <1>12
    <2>3. t \in Nat
      <3> HIDE DEF t, p, q
      <3> QED BY <2>2
    <2>4. ValueOf(rest) >= q /\ ValueOf(others) >= amount + p
      BY <1>7, <1>9
    <2> HIDE DEF t, p, q
    <2>5. ValueOf(coins) >= amount + t
      <3>1. ValueOf(coins) \in Nat
        BY <1>6
      <3> QED BY <1>2, <1>6, <2>1, <2>2, <2>3, <2>4, <3>1
    <2> QED BY <2>5 DEF t
  <1>14. coins # {}
    BY DEF CanPay
  <1>15. EstimateVSize(Cardinality(coins), ToDest(r.dest)) = base + 68 * (n + m)
    BY <1>1, <1>8
  <1> HIDE DEF n, m, base, rest, k
  <1> QED BY <1>13, <1>14, <1>15 DEF CanPay

\* A payment that is planned is a good one.
LEMMA PlannedIsGood ==
  ASSUME NEW coins, NEW r, NEW amount, IsOrder(coins, r.dest, amount, r.rate),
         InRange(coins, r.dest, amount, r.rate), NEW useAll \in BOOLEAN,
         PlanSpend(coins, useAll, r.dest, amount, r.rate) # NoSpend
  PROVE  GoodPlan(PlanSpend(coins, useAll, r.dest, amount, r.rate), r, amount, coins, useAll)
  <1> DEFINE s == PlanSpend(coins, useAll, r.dest, amount, r.rate)
             enough == Enough(coins, useAll, r.dest, amount, r.rate)
  <1>1. IsFiniteSet(coins) /\ Cardinality(coins) \in Nat /\ amount \in Nat /\ DustLimit(r.dest) \in Nat
    BY FS_CardinalityType, DustFacts DEF IsOrder, IsCoinSet
  <1>2. /\ ~(amount < DustLimit(r.dest))
        /\ \E n \in enough : /\ \A k \in enough : n <= k
                             /\ s = Spend(FirstCoins(coins, n), r.dest, amount, r.rate)
    <2>1. r.rate \in Nat \ {0}
      BY DEF IsOrder
    <2> QED BY <1>1, <2>1, PlanCases
  <1>3. PICK n \in enough : /\ \A k \in enough : n <= k
                            /\ s = Spend(FirstCoins(coins, n), r.dest, amount, r.rate)
    BY <1>2
  <1> DEFINE inputs == FirstCoins(coins, n)
  <1>4. /\ n \in (IF useAll THEN {Cardinality(coins)} ELSE 1..Cardinality(coins))
        /\ HasChange(inputs, r.dest, amount, r.rate) \/ CoversFee(inputs, r.dest, amount, r.rate)
    BY DEF Enough
  <1>5. n \in 0..Cardinality(coins)
    BY <1>1, <1>4
  <1>6. /\ inputs \in SUBSET coins /\ Cardinality(inputs) = n
        /\ \A m \in n..Cardinality(coins) : inputs \subseteq FirstCoins(coins, m)
    <2>1. inputs \in SUBSET coins /\ Cardinality(inputs) = n
      BY <1>5, FirstFacts DEF IsOrder
    <2>2. ASSUME NEW m \in n..Cardinality(coins) PROVE inputs \subseteq FirstCoins(coins, m)
      <3>1. m \in 0..Cardinality(coins) /\ n \in 0..m
        BY <1>1, <1>5
      <3> QED BY <3>1, FirstFacts DEF IsOrder
    <2> QED BY <2>1, <2>2
  <1> HIDE DEF s, enough, inputs
  <1>7. s = Spend(inputs, r.dest, amount, r.rate)
    BY <1>3 DEF inputs
  <1>8. /\ s.inputs = inputs /\ s.amount = amount
        /\ ValueOf(s.inputs) = s.amount + s.fee + s.change
        /\ s.change = 0 \/ s.change >= DustLimit(ChangeScript)
        /\ s.fee >= r.rate * EstimateVSize(Cardinality(s.inputs),
                        IF s.change > 0 THEN WithChange(r.dest) ELSE ToDest(r.dest))
        /\ s.fee < r.rate * EstimateVSize(Cardinality(s.inputs), WithChange(r.dest))
                     + DustLimit(ChangeScript)
    BY <1>4, <1>6, <1>7, SpendFacts
  <1>9. amount >= DustLimit(r.dest)
    BY <1>1, <1>2
  <1>10. useAll => s.inputs = coins
    <2>1. useAll => n = Cardinality(coins)
      BY <1>4
    <2> QED BY <1>1, <1>6, <1>8, <2>1, FS_Subset
  <1>11. ASSUME ~useAll, NEW others \in SUBSET coins, CanPay(others, r, amount), AllConfirmed(others)
         PROVE  AllConfirmed(s.inputs) /\ Cardinality(s.inputs) <= Cardinality(others)
    <2> DEFINE m == Cardinality(others)
    <2>1. m \in Enough(coins, FALSE, r.dest, amount, r.rate) /\ AllConfirmed(FirstCoins(coins, m))
      BY <1>11, ConfirmedSuffice
    <2>2. m \in enough
      BY <1>11, <2>1 DEF enough, Enough
    <2>3. n <= m
      BY <1>3, <2>2
    <2>4. m \in n..Cardinality(coins)
      <3>1. m \in 1..Cardinality(coins)
        BY <2>1 DEF Enough
      <3> HIDE DEF m
      <3> QED BY <1>1, <1>5, <2>3, <3>1
    <2>5. inputs \subseteq FirstCoins(coins, m)
      BY <1>6, <2>4
    <2> QED BY <1>6, <1>8, <2>1, <2>3, <2>5 DEF AllConfirmed
  <1> QED BY <1>6, <1>8, <1>9, <1>10, <1>11 DEF GoodPlan, s

\* A payment that is refused is refused rightly.
LEMMA RefusedIsRight ==
  ASSUME NEW coins, NEW r, NEW amount, IsOrder(coins, r.dest, amount, r.rate),
         InRange(coins, r.dest, amount, r.rate), NEW useAll \in BOOLEAN,
         PlanSpend(coins, useAll, r.dest, amount, r.rate) = NoSpend
  PROVE  RightlyRefused(r, amount, coins, useAll)
  <1> DEFINE enough == Enough(coins, useAll, r.dest, amount, r.rate)
  <1>1. /\ IsFiniteSet(coins) /\ Cardinality(coins) \in Nat /\ amount \in Nat /\ r.rate \in Nat \ {0}
        /\ DustLimit(r.dest) \in Nat \ {0}
    BY FS_CardinalityType, DustFacts DEF IsOrder, IsCoinSet
  <1>2. amount < DustLimit(r.dest) \/ enough = {}
    <2>1. ASSUME NEW inputs, Spend(inputs, r.dest, amount, r.rate) = NoSpend
          PROVE  amount = 0
      <3>1. Spend(inputs, r.dest, amount, r.rate).amount = amount
        BY DEF Spend
      <3>2. NoSpend.amount = 0
        BY DEF NoSpend
      <3> QED BY <2>1, <3>1, <3>2
    <2>2. CASE amount = 0
      BY <1>1, <2>2
    <2>3. CASE amount # 0
      BY <1>1, <2>1, <2>3, PlanCases
    <2> QED BY <2>2, <2>3
  <1>3. \/ amount < DustLimit(r.dest)
        \/ \A others \in (IF useAll THEN {coins} ELSE SUBSET coins) :
             CanPay(others, r, amount) =>
               ~useAll /\ ~AllConfirmed(others) /\ \E c \in coins : ~Worth(c, r)
    <2> SUFFICES ASSUME enough = {},
                        NEW others \in (IF useAll THEN {coins} ELSE SUBSET coins), CanPay(others, r, amount)
                 PROVE  ~useAll /\ ~AllConfirmed(others) /\ \E c \in coins : ~Worth(c, r)
      BY <1>2
    <2>1. ~CanPay(coins, r, amount)
      BY AllSuffice
    <2>2. ~useAll /\ others \in SUBSET coins
      BY <2>1
    <2>3. ~AllConfirmed(others)
      BY <2>2, ConfirmedSuffice DEF Enough
    <2>4. \E c \in coins : ~Worth(c, r)
      BY <2>1, <2>2, WorthHelps
    <2> QED BY <2>2, <2>3, <2>4
  <1> QED BY <1>3 DEF RightlyRefused

\* MaxAmount, where the numbers fit.
LEMMA MaxFacts ==
  ASSUME NEW coins, IsCoinSet(coins), NEW r, r.dest \in Kinds, r.rate \in Nat \ {0},
         MaxSats \in Nat, Fits(r, coins)
  PROVE  LET most == MaxAmount(coins, r.dest, r.rate)
             left == ValueOf(coins) - r.rate * EstimateVSize(Cardinality(coins), ToDest(r.dest))
         IN  /\ most \in Nat /\ left \in Int
             /\ IsOrder(coins, r.dest, most, r.rate) /\ InRange(coins, r.dest, most, r.rate)
             /\ most = IF left < DustLimit(r.dest) THEN 0 ELSE left
  <1> DEFINE v == ValueOf(coins)
             n == Cardinality(coins)
             e0 == EstimateVSize(n, ToDest(r.dest))
             e1 == EstimateVSize(n, WithChange(r.dest))
             d == DustLimit(r.dest)
             most == MaxAmount(coins, r.dest, r.rate)
  <1>1. IntMax \in Nat /\ r.rate \in Nat /\ d \in Nat
    BY IntAssumption, DustFacts
  <1>2. v \in Nat /\ v + MaxSats + e1 * r.rate <= IntMax
    BY ValueFacts DEF Fits
  <1>3. IsOrder(coins, r.dest, 0, r.rate)
    BY DEF IsOrder
  <1>4. e0 \in Nat /\ e1 \in Nat /\ e0 * r.rate \in Nat /\ e1 * r.rate \in Nat /\ e0 * r.rate = r.rate * e0
    <2>1. n \in Nat
      BY FS_CardinalityType DEF IsCoinSet
    <2>2. \A b \in Nat : b + 68 * n \in Nat
      BY <2>1
    <2>3. e0 \in Nat /\ e1 \in Nat
      BY <2>1, <2>2, SizeFacts
    <2>4. \A a, b \in Nat : a * b \in Nat /\ a * b = b * a
      OBVIOUS
    <2> HIDE DEF e0, e1
    <2> QED BY <1>1, <2>3, <2>4
  <1> HIDE DEF e1
  <1>5. InRange(coins, r.dest, 0, r.rate)
    <2>1. v <= IntMax /\ 0 + e1 * r.rate <= IntMax
      <3> HIDE DEF v
      <3> QED BY <1>1, <1>2, <1>4
    <2> QED BY <2>1 DEF InRange, e1
  <1>6. FeeOf(coins, ToDest(r.dest), r.rate) = e0 * r.rate
    BY <1>3, <1>5, Unwrapped
  <1>7. e0 * r.rate <= IntMax
    <2>1. Wrap(e0 * r.rate) = e0 * r.rate
      BY <1>6 DEF FeeOf
    <2>2. Wrap(e0 * r.rate) <= IntMax
      <3> DEFINE x == e0 * r.rate
      <3>1. x + IntMax + 1 \in Int /\ 2 * (IntMax + 1) \in Nat /\ 2 * (IntMax + 1) > 0
        BY <1>1, <1>4
      <3>2. \A a \in Int, b \in Nat : b > 0 => a % b \in 0..(b - 1)
        OBVIOUS
      <3>3. (x + IntMax + 1) % (2 * (IntMax + 1)) \in 0..(2 * (IntMax + 1) - 1)
        BY <3>1, <3>2
      <3>4. Wrap(x) = ((x + IntMax + 1) % (2 * (IntMax + 1))) - (IntMax + 1)
        BY DEF Wrap
      <3> HIDE DEF x
      <3> QED BY <1>1, <3>3, <3>4 DEF x
    <2> QED BY <2>1, <2>2
  <1>8. most = IF Wrap(v - e0 * r.rate) < d THEN 0 ELSE Wrap(v - e0 * r.rate)
    BY <1>6 DEF MaxAmount
  <1> HIDE DEF v, e0, d, most
  <1> DEFINE f == e0 * r.rate
  <1>9. f \in Nat /\ f <= IntMax
    BY <1>4, <1>7
  <1> HIDE DEF f
  <1>10. Wrap(v - f) = v - f /\ v - f \in Int
    <2>1. v - f \in Int /\ v - f <= IntMax /\ (v - f) + IntMax + 1 >= 0
      BY <1>1, <1>2, <1>4, <1>9
    <2> QED BY <2>1, WrapFacts
  <1>11. most = IF v - f < d THEN 0 ELSE v - f
    BY <1>8, <1>10 DEF f
  <1>12. most \in Nat /\ most <= v
    BY <1>1, <1>2, <1>9, <1>10, <1>11
  <1>13. IsOrder(coins, r.dest, most, r.rate)
    BY <1>12 DEF IsOrder
  <1>14. InRange(coins, r.dest, most, r.rate)
    <2>1. v <= IntMax /\ most + e1 * r.rate <= IntMax
      BY <1>1, <1>2, <1>4, <1>12
    <2> QED BY <2>1 DEF InRange, v, e1
  <1>15. f = r.rate * e0
    BY <1>4 DEF f
  <1> QED BY <1>10, <1>11, <1>12, <1>13, <1>14, <1>15 DEF v, n, e0, d, most

\* Amounts of bitcoin there are stay in the range of the numbers.
LEMMA FitsInRange ==
  ASSUME NEW coins, IsCoinSet(coins), NEW r, r.dest \in Kinds, r.rate \in Nat \ {0},
         MaxSats \in Nat, Fits(r, coins), NEW amount \in Nat, ~(amount > MaxSats)
  PROVE  InRange(coins, r.dest, amount, r.rate)
  <1> DEFINE v == ValueOf(coins)
             n == Cardinality(coins)
             e1 == EstimateVSize(n, WithChange(r.dest))
  <1>1. v \in Nat /\ v + MaxSats + e1 * r.rate <= IntMax /\ IntMax \in Nat
    BY ValueFacts, IntAssumption DEF Fits
  <1>2. e1 * r.rate \in Nat
    <2>1. n \in Nat
      BY FS_CardinalityType DEF IsCoinSet
    <2>2. \A b \in Nat : b + 68 * n \in Nat
      BY <2>1
    <2>3. e1 \in Nat
      BY <2>1, <2>2, SizeFacts
    <2>4. \A a, b \in Nat : a * b \in Nat
      OBVIOUS
    <2> HIDE DEF e1
    <2> QED BY <2>3, <2>4
  <1>3. v <= IntMax /\ amount + e1 * r.rate <= IntMax
    <2> HIDE DEF v, e1
    <2> QED BY <1>1, <1>2
  <1> QED BY <1>3 DEF InRange

\* What Max enters is right.
LEMMA MaxIsGood ==
  ASSUME NEW coins, IsCoinSet(coins), NEW r, r.dest \in Kinds, r.rate \in Nat \ {0},
         MaxSats \in Nat, Fits(r, coins), NEW useAll \in BOOLEAN
  PROVE  GoodMax(r, coins, useAll)
  <1> DEFINE v == ValueOf(coins)
             e0 == EstimateVSize(Cardinality(coins), ToDest(r.dest))
             d == DustLimit(r.dest)
             left == v - r.rate * e0
             most == MaxAmount(coins, r.dest, r.rate)
             plans == PlanSpend(coins, useAll, r.dest, most, r.rate)
  <1>1. /\ most \in Nat /\ left \in Int
        /\ IsOrder(coins, r.dest, most, r.rate) /\ InRange(coins, r.dest, most, r.rate)
        /\ most = IF left < d THEN 0 ELSE left
    BY MaxFacts
  <1>2. d \in Nat \ {0} /\ v \in Nat
    BY DustFacts, ValueFacts
  <1>3. r.rate * e0 \in Nat
    <2>1. Cardinality(coins) \in Nat
      BY FS_CardinalityType DEF IsCoinSet
    <2>2. e0 = BaseSize(r.dest) + 68 * Cardinality(coins) /\ BaseSize(r.dest) \in Nat
      BY <2>1, SizeFacts
    <2>3. \A a, b, c \in Nat : a * (b + 68 * c) \in Nat
      OBVIOUS
    <2> HIDE DEF e0
    <2> QED BY <2>1, <2>2, <2>3
  <1> HIDE DEF v, e0, d, most, plans
  <1>4. ASSUME most > 0 PROVE CanPay(coins, r, most) /\ most = left /\ ~(most < d)
    <2>1. most = left /\ ~(left < d)
      BY <1>1, <1>4
    <2>2. v >= most + r.rate * e0 /\ v > 0
      BY <1>1, <1>2, <1>3, <1>4, <2>1
    <2>3. coins # {}
      <3>1. ASSUME coins = {} PROVE FALSE
        <4>1. v = 0
          <5>1. \E w : ValueOf(coins) = SumOf(w, {}) /\ \A c \in coins : w[c] \in Nat
            BY <3>1, ValueFacts
          <5>2. IsFiniteSet(coins)
            BY DEF IsCoinSet
          <5> QED BY <3>1, <5>1, <5>2, SumFacts DEF v
        <4> QED BY <2>2, <4>1
      <3> QED BY <3>1
    <2> QED BY <2>1, <2>2, <2>3 DEF CanPay, v, e0
  <1>5. ASSUME most > 0 PROVE plans # NoSpend
    <2>1. Enough(coins, useAll, r.dest, most, r.rate) # {}
      BY <1>1, <1>4, <1>5, AllSuffice
    <2>2. \E n \in Enough(coins, useAll, r.dest, most, r.rate) :
             plans = Spend(FirstCoins(coins, n), r.dest, most, r.rate)
      <3>1. ~(most < DustLimit(r.dest))
        BY <1>4, <1>5 DEF d
      <3> QED BY <2>1, <3>1, PlanCases DEF IsCoinSet, plans
    <2>3. plans.amount = most
      BY <2>2 DEF Spend
    <2>4. NoSpend.amount = 0
      BY DEF NoSpend
    <2> QED BY <1>5, <2>3, <2>4
  <1>6. ASSUME most > 0, useAll PROVE plans.change = 0
    <2>1. GoodPlan(plans, r, most, coins, useAll)
      BY <1>1, <1>5, <1>6, PlannedIsGood DEF plans
    <2>2. plans.inputs = coins
      BY <1>6, <2>1 DEF GoodPlan
    <2>3. PICK inputs : plans = Spend(inputs, r.dest, most, r.rate)
      <3>1. plans = NoSpend \/ \E n \in Enough(coins, useAll, r.dest, most, r.rate) :
                                 plans = Spend(FirstCoins(coins, n), r.dest, most, r.rate)
        BY PlanCases DEF IsCoinSet, plans
      <3> QED BY <1>5, <1>6, <3>1
    <2>4. plans = Spend(coins, r.dest, most, r.rate)
      <3>1. plans.inputs = inputs
        BY <2>3 DEF Spend
      <3> QED BY <2>2, <2>3, <3>1
    <2> DEFINE n == Cardinality(coins)
               e1 == EstimateVSize(n, WithChange(r.dest))
    <2>5. Rest(coins, r.dest, most, r.rate) = v - most - e1 * r.rate /\ e1 \in Nat /\ e0 \in Nat
      BY <1>1, Unwrapped DEF v, e0
    <2>6. e0 <= e1
      <3>1. n \in Nat
        BY FS_CardinalityType DEF IsCoinSet
      <3>2. /\ e0 = BaseSize(r.dest) + 68 * n /\ e1 = BaseWithChange(r.dest) + 68 * n
            /\ BaseSize(r.dest) \in Nat /\ BaseWithChange(r.dest) \in Nat
        BY <3>1, SizeFacts DEF e0
      <3>3. BaseSize(r.dest) <= BaseWithChange(r.dest)
        <4>1. OutputSize(r.dest) \in 1..50 /\ OutputSize(ChangeScript) \in 1..50
          BY OutputSizeFacts
        <4> QED BY <4>1 DEF BaseSize, BaseWithChange
      <3> HIDE DEF n, e1
      <3> QED BY <3>1, <3>2, <3>3
    <2>7. r.rate * e0 <= e1 * r.rate /\ e1 * r.rate \in Nat
      <3>1. \A a, b, c \in Nat : a <= b => c * a <= b * c /\ b * c \in Nat
        OBVIOUS
      <3> HIDE DEF e1
      <3> QED BY <2>5, <2>6, <3>1
    <2>8. most = v - r.rate * e0
      BY <1>4, <1>6
    <2> HIDE DEF e1, n
    <2>9. v - most - e1 * r.rate < DustLimit(ChangeScript)
      <3>1. DustLimit(ChangeScript) \in Nat \ {0}
        BY OutputSizeFacts, DustFacts
      <3> QED BY <1>1, <1>2, <1>3, <2>7, <2>8, <3>1
    <2>10. ~HasChange(coins, r.dest, most, r.rate)
      <3>1. DustLimit(ChangeScript) \in Nat /\ v - most - e1 * r.rate \in Int
        BY <1>1, <1>2, <2>7, OutputSizeFacts, DustFacts
      <3> QED BY <2>5, <2>9, <3>1 DEF HasChange
    <2> QED BY <2>4, <2>10 DEF Spend
  <1>7. ~CanPay(coins, r, IF most = 0 THEN d ELSE most + 1)
    <2> DEFINE more == IF most = 0 THEN d ELSE most + 1
    <2> SUFFICES ASSUME CanPay(coins, r, more) PROVE FALSE
      OBVIOUS
    <2>1. v >= more + r.rate * e0
      BY DEF CanPay, v, e0
    <2>2. CASE most = 0
      <3>1. more = d /\ left < d
        BY <1>1, <1>2, <2>2
      <3> QED BY <1>2, <1>3, <2>1, <3>1
    <2>3. CASE most # 0
      <3>1. more = most + 1 /\ most = left
        BY <1>1, <2>3
      <3> QED BY <1>2, <1>3, <2>1, <3>1
    <2> QED BY <2>2, <2>3
  <1> QED BY <1>5, <1>6, <1>7 DEF GoodMax, plans, most, d

USE DEF vars, ledger, table, display, form

(***************************************************************************)
(* The inductive invariant                                                 *)
(***************************************************************************)

\* The payments of the wallet that have change.
OwnPayments == {t \in txs \cup forgotten : t.own /\ t.value > 0}

\* The payment expired, so that its address counts as unused again.
Expired(t) == \E f \in forgotten : f.id = t.id

\* A transaction has these fields.
IsTx(t) == {"id", "value", "addr", "own"} \subseteq DOMAIN t
TxsInv == \A t \in txs \cup forgotten : IsTx(t)

\* The change addresses stored are numbered without a gap.
NumberedFrom0(n) == StoredChange = {Change(i) : i \in 0..(n - 1)}
StoredInv == shown.kind # "change" /\ \E n \in Nat : NumberedFrom0(n)

\* The dialog waits while a payment is made.
DialogInv == step \in {"storeChange", "watchChange", "broadcast", "queue"} => dialog = "form"

\* A plan the user may confirm, or did, pays its change to a stored address or
\* to the next one, that no payment has unless it expired; the address is
\* stored and watched before the payment is made.
Planned == dialog = "confirm" \/ Paying
PlanInv ==
  /\ Planned /\ plan.change > 0 =>
       /\ plan.addr \in StoredChange \cup {Change(Cardinality(StoredChange))}
       /\ \A t \in OwnPayments : t.addr = plan.addr => Expired(t)
  /\ Planned /\ ~(plan.change > 0) => plan.addr = NoAddress
  /\ plan.change > 0 =>
       /\ step \in {"watchChange", "broadcast"} => plan.addr \in stored
       /\ step = "broadcast" => plan.addr \in watched

PaymentsInv == TxsInv /\ StoredInv /\ DialogInv /\ PlanInv /\ ChangeStaysOurs

(***************************************************************************)
(* Addresses                                                               *)
(***************************************************************************)

\* Addresses of one kind differ by their index.
LEMMA AddressFacts ==
  /\ \A i, j : Change(i) = Change(j) => i = j
  /\ \A i : Change(i).kind = "change" /\ Change(i).index = i
  /\ \A i : Receive(i).kind = "receive"
  /\ NoAddress.kind = "none"
  BY DEF Change, Receive, NoAddress

\* As many change addresses are stored as the next one's index says.
LEMMA NumberStored ==
  ASSUME NEW n \in Nat, NumberedFrom0(n)
  PROVE  Cardinality(StoredChange) = n
  <1> DEFINE D == 0..(n - 1)
             f == [i \in D |-> Change(i)]
  <1>1. StoredChange = {Change(i) : i \in D}
    BY DEF NumberedFrom0
  <1>2. f \in Bijection(D, StoredChange)
    BY <1>1, AddressFacts, Fun_IsBij
  <1>3. IsFiniteSet(D) /\ Cardinality(D) = n
    <2>1. \A a, b \in Int : IsFiniteSet(a..b) /\ Cardinality(a..b) = IF a > b THEN 0 ELSE b - a + 1
      BY FS_Interval
    <2>2. IsFiniteSet(0..(n - 1)) /\ Cardinality(0..(n - 1)) = IF 0 > n - 1 THEN 0 ELSE (n - 1) - 0 + 1
      BY <2>1
    <2> QED BY <2>2
  <1> HIDE DEF f, D
  <1>4. ExistsBijection(D, StoredChange)
    BY <1>2 DEF ExistsBijection
  <1> QED BY <1>3, <1>4, FS_Bijection

\* nextChange takes a stored address that no transaction pays, or the next.
LEMMA NextChangeFacts ==
  ASSUME StoredInv
  PROVE  /\ NextChange \in StoredChange \cup {Change(Cardinality(StoredChange))}
         /\ NextChange \in stored => ~IsUsed(NextChange)
  <1>1. PICK n \in Nat : NumberedFrom0(n)
    BY DEF StoredInv
  <1>2. Cardinality(StoredChange) = n /\ StoredChange = {Change(i) : i \in 0..(n - 1)}
    BY <1>1, NumberStored DEF NumberedFrom0
  <1> DEFINE free == {b \in StoredChange : ~IsUsed(b)}
             unused == {a.index : a \in free}
  <1>3. CASE unused = {}
    <2>1. NextChange = Change(n)
      BY <1>2, <1>3 DEF NextChange
    <2>2. Change(n) \notin StoredChange
      BY <1>2, AddressFacts
    <2>3. Change(n) \notin stored
      BY <2>2, AddressFacts DEF StoredChange
    <2> QED BY <1>2, <2>1, <2>3
  <1>4. CASE unused # {}
    <2>1. NextChange = Change(Min(unused))
      BY <1>4 DEF NextChange
    <2>2. unused \in SUBSET (0..(n - 1))
      BY <1>2, AddressFacts
    <2>3. Min(unused) \in unused
      BY <1>4, <2>2, MinFacts
    <2>4. PICK b \in free : Min(unused) = b.index
      BY <2>3
    <2>5. b = Change(b.index)
      BY <1>2, AddressFacts
    <2> QED BY <2>1, <2>4, <2>5
  <1> QED BY <1>3, <1>4
(***************************************************************************)
(* Steps                                                                   *)
(***************************************************************************)

\* Every step but the one that makes a payment, told by what it does to the
\* payments that have change: there are no new ones.
NoneNew == \A t \in OwnPayments' : \E u \in OwnPayments : u.id = t.id /\ u.addr = t.addr

\* The payments forgotten stay forgotten.
LEMMA ForgottenStay ==
  ASSUME [Next]_vars
  PROVE  forgotten \subseteq forgotten'
  BY DEF Next, Restart, StartSync, Crash, RotateIfUsed, EndRotate, RefreshAddress, OpenSend, FillMax, Review,
         Back, Cancel, Confirm, StoreChange, WatchChange, Broadcast, QueueToPeers, Connect,
         Disconnect, ReceivePayment, SpendElsewhere, Relayed, RelayedAgain, ConfirmTx, ExpirePending, Rewind

\* Transactions stay transactions, and no other step makes a payment.
LEMMA TxsStep ==
  ASSUME TxsInv, [Next]_vars
  PROVE  TxsInv' /\ (NoneNew \/ Broadcast)
  <1>1. CASE UNCHANGED ledger
    <2>1. OwnPayments' = OwnPayments
      BY <1>1 DEF OwnPayments
    <2> QED BY <1>1, <2>1 DEF TxsInv, NoneNew
  <1>2. CASE Broadcast
    <2>1. IsTx(Payment)
      BY DEF IsTx, Payment
    <2>2. (txs' \cup forgotten') \subseteq (txs \cup forgotten) \cup {Payment}
      BY <1>2 DEF Broadcast
    <2> QED BY <1>2, <2>1, <2>2 DEF TxsInv
  <1>3. ASSUME NEW inputs, NEW value, NEW addr, Relayed(inputs, value, addr)
        PROVE  TxsInv' /\ NoneNew
    <2> DEFINE t0 == [id |-> NewId, inputs |-> inputs, value |-> value,
                      addr |-> addr, own |-> FALSE, valid |-> TRUE, confirmed |-> FALSE]
    <2>1. txs' = txs \cup {t0} /\ forgotten' = forgotten
      BY <1>3 DEF Relayed
    <2>2. IsTx(t0) /\ ~t0.own
      BY DEF IsTx
    <2> HIDE DEF t0
    <2>3. OwnPayments' \subseteq OwnPayments
      BY <2>1, <2>2 DEF OwnPayments
    <2> QED BY <2>1, <2>2, <2>3 DEF TxsInv, NoneNew
  <1>4. ASSUME NEW t \in forgotten, RelayedAgain(t) PROVE TxsInv' /\ NoneNew
    <2>1. txs' \cup forgotten' = txs \cup forgotten
      BY <1>4 DEF RelayedAgain
    <2>2. OwnPayments' = OwnPayments
      BY <2>1 DEF OwnPayments
    <2> QED BY <2>1, <2>2 DEF TxsInv, NoneNew
  <1>5. ASSUME NEW t \in txs \cup forgotten, ConfirmTx(t) PROVE TxsInv' /\ NoneNew
    <2> DEFINE done == [t EXCEPT !.confirmed = TRUE]
    <2>1. IsTx(t)
      BY DEF TxsInv
    <2>2. /\ done.id = t.id /\ done.addr = t.addr /\ done.own = t.own /\ done.value = t.value
          /\ IsTx(done)
      <3>1. /\ DOMAIN done = DOMAIN t
            /\ \A x \in DOMAIN t : x # "confirmed" => done[x] = t[x]
        OBVIOUS
      <3> QED BY <2>1, <3>1 DEF IsTx
    <2>3. txs' \subseteq txs \cup {done} /\ forgotten' = forgotten
      BY <1>5 DEF ConfirmTx, Settled
    <2> HIDE DEF done
    <2>4. TxsInv'
      BY <2>2, <2>3 DEF TxsInv
    <2>5. NoneNew
      <3> SUFFICES ASSUME NEW x \in OwnPayments' PROVE \E u \in OwnPayments : u.id = x.id /\ u.addr = x.addr
        BY DEF NoneNew
      <3>1. CASE x = done
        <4>1. t \in OwnPayments
          BY <2>2, <3>1 DEF OwnPayments
        <4> QED BY <2>2, <3>1, <4>1
      <3>2. CASE x # done
        BY <2>3, <3>2 DEF OwnPayments
      <3> QED BY <3>1, <3>2
    <2> QED BY <2>4, <2>5
  <1>6. CASE ExpirePending
    <2>1. txs' \cup forgotten' \subseteq txs \cup forgotten
      BY <1>6 DEF ExpirePending
    <2>2. OwnPayments' \subseteq OwnPayments
      BY <2>1 DEF OwnPayments
    <2> QED BY <2>1, <2>2 DEF TxsInv, NoneNew
  <1>10. CASE Rewind
    <2>1. PICK gone \in SUBSET {t \in txs : t.confirmed} :
            /\ txs' = txs \ gone
            /\ forgotten' = forgotten \cup {[t EXCEPT !.confirmed = FALSE] : t \in gone}
      BY <1>10 DEF Rewind
    <2>2. ASSUME NEW t \in gone
          PROVE  LET u == [t EXCEPT !.confirmed = FALSE]
                 IN  IsTx(u) /\ u.id = t.id /\ u.addr = t.addr /\ u.own = t.own /\ u.value = t.value
      <3> DEFINE u == [t EXCEPT !.confirmed = FALSE]
      <3>1. IsTx(t)
        BY DEF TxsInv
      <3>2. DOMAIN u = DOMAIN t /\ \A x \in DOMAIN t : x # "confirmed" => u[x] = t[x]
        OBVIOUS
      <3> QED BY <3>1, <3>2 DEF IsTx
    <2>3. ASSUME NEW x \in txs' \cup forgotten'
          PROVE  x \in txs \cup forgotten \/ \E t \in gone : x = [t EXCEPT !.confirmed = FALSE]
      BY <2>1
    <2>4. TxsInv'
      <3> SUFFICES ASSUME NEW x \in txs' \cup forgotten' PROVE IsTx(x)
        BY DEF TxsInv
      <3> QED BY <2>2, <2>3 DEF TxsInv
    <2>5. NoneNew
      <3> SUFFICES ASSUME NEW x \in OwnPayments' PROVE \E u \in OwnPayments : u.id = x.id /\ u.addr = x.addr
        BY DEF NoneNew
      <3>1. x \in txs' \cup forgotten' /\ x.own /\ x.value > 0
        BY DEF OwnPayments
      <3>2. CASE x \in txs \cup forgotten
        BY <3>1, <3>2 DEF OwnPayments
      <3>3. ASSUME NEW t \in gone, x = [t EXCEPT !.confirmed = FALSE]
            PROVE  \E u \in OwnPayments : u.id = x.id /\ u.addr = x.addr
        <4>1. t \in OwnPayments /\ t.id = x.id /\ t.addr = x.addr
          BY <2>2, <3>1, <3>3 DEF OwnPayments
        <4> QED BY <4>1
      <3> QED BY <2>3, <3>1, <3>2, <3>3
    <2> QED BY <2>4, <2>5
  <1>7. CASE QueueToPeers \/ Connect
    <2>1. OwnPayments' = OwnPayments /\ txs' = txs /\ forgotten' = forgotten
      BY <1>7 DEF QueueToPeers, Connect, OwnPayments
    <2> QED BY <2>1 DEF TxsInv, NoneNew
  <1>8. ReceivePayment \/ SpendElsewhere => \E inputs, value, addr : Relayed(inputs, value, addr)
    BY DEF ReceivePayment, SpendElsewhere
  <1>9. \/ UNCHANGED ledger \/ Broadcast
        \/ ReceivePayment \/ SpendElsewhere
        \/ \E t \in forgotten : RelayedAgain(t)
        \/ \E t \in txs \cup forgotten : ConfirmTx(t)
        \/ ExpirePending \/ Rewind \/ QueueToPeers \/ Connect
    BY DEF Next, Restart, StartSync, Crash, RotateIfUsed, EndRotate, RefreshAddress, OpenSend, FillMax,
           Review, Back, Cancel, Confirm, StoreChange, WatchChange, Disconnect
  <1> QED BY <1>1, <1>2, <1>3, <1>4, <1>5, <1>6, <1>7, <1>8, <1>9, <1>10

\* The interface waits with the dialog for a payment.
LEMMA DialogStep ==
  ASSUME DialogInv, [Next]_vars
  PROVE  DialogInv'
  BY DEF DialogInv, Next, Restart, StartSync, Crash, RotateIfUsed, EndRotate, RefreshAddress,
         OpenSend, FillMax, Review, Back, Cancel, Confirm, StoreChange, WatchChange, Broadcast, NotSent,
         QueueToPeers, Connect, Disconnect, ReceivePayment, SpendElsewhere, Relayed, RelayedAgain,
         ConfirmTx, ExpirePending, Rewind

\* A step stores the change address of the plan, or none.
LEMMA StoredChangeStep ==
  ASSUME StoredInv, [Next]_vars
  PROVE  /\ stored \subseteq stored' /\ shown'.kind # "change"
         /\ \/ StoredChange' = StoredChange
            \/ step = "storeChange" /\ StoredChange' = StoredChange \cup ({plan.addr} \cap StoredChange')
  <1>1. CASE UNCHANGED <<stored, shown>>
    BY <1>1 DEF StoredInv, StoredChange
  <1>2. CASE RefreshAddress
    BY <1>2 DEF RefreshAddress, StoredInv, StoredChange
  <1>3. CASE StoreChange
    BY <1>3 DEF StoreChange, StoredInv, StoredChange
  <1>4. CASE Restart \/ Crash \/ RotateIfUsed
    <2>1. stored' = stored
      BY <1>4 DEF Restart, Crash, RotateIfUsed
    <2>2. shown'.kind # "change"
      BY <1>4, AddressFacts DEF Restart, Crash, RotateIfUsed, StoredInv
    <2> QED BY <2>1, <2>2 DEF StoredChange
  <1>5. \/ UNCHANGED <<stored, shown>> \/ RefreshAddress \/ StoreChange
        \/ Restart \/ Crash \/ RotateIfUsed
    BY DEF Next, StartSync, EndRotate, OpenSend, FillMax, Review, Back, Cancel, Confirm, WatchChange,
           Broadcast, QueueToPeers, Connect, Disconnect, ReceivePayment, SpendElsewhere, Relayed,
           RelayedAgain, ConfirmTx, ExpirePending, Rewind
  <1> QED BY <1>1, <1>2, <1>3, <1>4, <1>5

\* The change addresses stay numbered without a gap.
LEMMA StoredStep ==
  ASSUME StoredInv, PlanInv, [Next]_vars
  PROVE  StoredInv'
  <1>1. PICK n \in Nat : NumberedFrom0(n)
    BY DEF StoredInv
  <1>2. Cardinality(StoredChange) = n /\ StoredChange = {Change(i) : i \in 0..(n - 1)}
    BY <1>1, NumberStored DEF NumberedFrom0
  <1>3. shown'.kind # "change"
    BY StoredChangeStep
  <1>4. CASE StoredChange' = StoredChange
    <2>1. NumberedFrom0(n)'
      BY <1>2, <1>4 DEF NumberedFrom0
    <2> QED BY <1>3, <2>1 DEF StoredInv
  <1>5. CASE StoredChange' # StoredChange
    <2>1. step = "storeChange" /\ StoredChange' = StoredChange \cup {plan.addr} /\ plan.addr \notin StoredChange
      BY <1>5, StoredChangeStep
    <2>2. plan.addr \in StoredChange \cup {Change(n)}
      <3>1. CASE plan.change > 0
        BY <1>2, <2>1, <3>1 DEF PlanInv, Planned, Paying
      <3>2. CASE ~(plan.change > 0)
        <4>1. plan.addr = NoAddress
          BY <2>1, <3>2 DEF PlanInv, Planned, Paying
        <4>2. plan.addr \in StoredChange' /\ \A a \in StoredChange' : a.kind = "change"
          BY <2>1 DEF StoredChange
        <4> QED BY <4>1, <4>2, AddressFacts
      <3> QED BY <3>1, <3>2
    <2>3. StoredChange' = {Change(i) : i \in 0..n}
      <3>1. 0..n = (0..(n - 1)) \cup {n}
        OBVIOUS
      <3> QED BY <1>2, <2>1, <2>2, <3>1
    <2>4. NumberedFrom0(n + 1)'
      <3>1. (n + 1) - 1 = n
        OBVIOUS
      <3> QED BY <2>3, <3>1 DEF NumberedFrom0
    <2>5. n + 1 \in Nat
      OBVIOUS
    <2> QED BY <1>3, <2>4, <2>5 DEF StoredInv
  <1> QED BY <1>4, <1>5
\* What step the plan is at, for the steps that leave it alone.
LEMMA PlanKept ==
  ASSUME [Next]_vars, plan' = plan, ~Review
  PROVE  /\ Planned' => Planned
         /\ step' = "watchChange" /\ plan.change > 0 => plan.addr \in stored' \/ step = "watchChange"
         /\ step' = "broadcast" /\ plan.change > 0 =>
              step = "broadcast" \/ (step = "watchChange" /\ plan.addr \in watched')
  <1>1. CASE Confirm
    <2>1. step' = (IF plan.change = 0 THEN "broadcast"
                   ELSE IF plan.addr \in stored THEN "watchChange" ELSE "storeChange")
          /\ dialog = "confirm" /\ stored' = stored
      BY <1>1 DEF Confirm
    <2>2. plan.change > 0 => plan.change # 0
      <3>1. CASE plan.change = 0
        BY <3>1
      <3> QED BY <3>1
    <2> QED BY <2>1, <2>2 DEF Planned
  <1>2. CASE StoreChange
    BY <1>2 DEF StoreChange, NotSent, NoPlan, Planned, Paying
  <1>3. CASE WatchChange
    BY <1>3 DEF WatchChange, Watch, Planned, Paying
  <1>4. CASE Broadcast
    BY <1>4 DEF Broadcast, NotSent, NoPlan, Planned, Paying
  <1>5. CASE Crash \/ Cancel \/ Back \/ QueueToPeers
    BY <1>5 DEF Crash, Cancel, Back, QueueToPeers, Planned, Paying
  <1>6. CASE UNCHANGED <<dialog, step>>
    BY <1>6 DEF Planned, Paying
  <1>7. CASE RefreshAddress \/ StartSync \/ Restart \/ RotateIfUsed \/ EndRotate \/ OpenSend \/ FillMax
    BY <1>7 DEF RefreshAddress, StartSync, Restart, RotateIfUsed, EndRotate, OpenSend, FillMax, Planned, Paying
  <1> QED BY <1>1, <1>2, <1>3, <1>4, <1>5, <1>6, <1>7
          DEF Next, Connect, Disconnect, ReceivePayment, SpendElsewhere, Relayed, RelayedAgain,
              ConfirmTx, ExpirePending, Rewind
\* While the process runs the scripts watched stay so; with its start all
\* those stored are.
LEMMA WatchedStep ==
  ASSUME [Next]_vars, Running'
  PROVE  (Running /\ watched \subseteq watched') \/ watched' = stored'
  BY DEF Running, Next, Restart, StartSync, Crash, RotateIfUsed, EndRotate, RefreshAddress, Watch,
         OpenSend, FillMax, Review, Back, Cancel, Confirm, StoreChange, WatchChange, Broadcast, NotSent,
         QueueToPeers, Connect, Disconnect, ReceivePayment, SpendElsewhere, Relayed, RelayedAgain,
         ConfirmTx, ExpirePending, Rewind

\* The plan is changed by being made, dropped or carried out.
LEMMA PlanChanges ==
  ASSUME [Next]_vars, plan' # plan
  PROVE  Review \/ plan' = NoPlan \/ (Broadcast /\ step' = "queue" /\ dialog' = dialog)
  BY DEF Next, Restart, StartSync, Crash, RotateIfUsed, EndRotate, RefreshAddress,
         OpenSend, FillMax, Back, Cancel, Confirm, StoreChange, WatchChange, Broadcast, NotSent,
         QueueToPeers, Connect, Disconnect, ReceivePayment, SpendElsewhere, Relayed, RelayedAgain,
         ConfirmTx, ExpirePending, Rewind

\* A plan made anew.
LEMMA ReviewStep ==
  ASSUME PaymentsInv, Review
  PROVE  PlanInv'
  <1>1. /\ step = "idle" /\ step' = "idle" /\ txs' = txs /\ forgotten' = forgotten
        /\ stored' = stored /\ watched' = watched
    BY DEF Review
  <1>2. plan'.addr = IF plan'.change > 0 THEN NextChange ELSE NoAddress
    BY DEF Review
  <1>3. OwnPayments' = OwnPayments /\ StoredChange' = StoredChange
    BY <1>1 DEF OwnPayments, StoredChange
  <1>4. ASSUME plan'.change > 0 PROVE plan'.addr = NextChange
    BY <1>2, <1>4
  <1>5. ASSUME NEW t \in OwnPayments, t.addr = NextChange PROVE Expired(t)'
    <2>1. t.addr \in stored /\ t.addr \in watched
      BY <1>1 DEF PaymentsInv, ChangeStaysOurs, OwnPayments, Running
    <2>2. ~IsUsed(NextChange)
      BY <1>5, <2>1, NextChangeFacts DEF PaymentsInv
    <2>3. t \notin txs
      BY <1>5, <2>1, <2>2 DEF IsUsed
    <2>4. t \in forgotten'
      BY <1>1, <2>3 DEF OwnPayments
    <2> QED BY <2>4 DEF Expired
  <1>6. NextChange \in StoredChange \cup {Change(Cardinality(StoredChange))}
    BY NextChangeFacts DEF PaymentsInv
  <1>7. plan'.change > 0 => plan'.addr \in (StoredChange \cup {Change(Cardinality(StoredChange))})'
    BY <1>3, <1>4, <1>6
  <1>8. plan'.change > 0 => \A t \in OwnPayments' : t.addr = plan'.addr => Expired(t)'
    BY <1>3, <1>4, <1>5
  <1>9. ~(plan'.change > 0) => plan'.addr = NoAddress
    BY <1>2
  <1> QED BY <1>1, <1>7, <1>8, <1>9 DEF PlanInv

\* The plan stays sound while it waits and while it is carried out.
LEMMA PlanStep ==
  ASSUME PaymentsInv, [Next]_vars
  PROVE  PlanInv'
  <1>1. CASE Review
    BY <1>1, ReviewStep
  <1>2. CASE plan' = NoPlan
    <2>1. plan'.change = 0 /\ plan'.addr = NoAddress
      BY <1>2 DEF NoPlan
    <2>2. ~(plan'.change > 0)
      BY <2>1
    <2> QED BY <2>1, <2>2 DEF PlanInv
  <1>3. CASE Broadcast /\ step' = "queue" /\ dialog' = dialog
    <2>1. dialog = "form"
      BY <1>3 DEF Broadcast, PaymentsInv, DialogInv
    <2>2. ~Planned'
      BY <1>3, <2>1 DEF Planned, Paying
    <2> QED BY <1>3, <2>2 DEF PlanInv
  <1>4. CASE plan' = plan /\ ~Review /\ ~(Broadcast /\ step' = "queue")
    <2>1. /\ Planned' => Planned
          /\ step' = "watchChange" /\ plan.change > 0 => plan.addr \in stored' \/ step = "watchChange"
          /\ step' = "broadcast" /\ plan.change > 0 =>
               step = "broadcast" \/ (step = "watchChange" /\ plan.addr \in watched')
      BY <1>4, PlanKept
    <2>2. stored \subseteq stored' /\ forgotten \subseteq forgotten'
      BY StoredChangeStep, ForgottenStay DEF PaymentsInv
    <2>4. ASSUME Planned', plan.change > 0
          PROVE  plan.addr \in (StoredChange \cup {Change(Cardinality(StoredChange))})'
      <3>1. plan.addr \in StoredChange \cup {Change(Cardinality(StoredChange))}
        BY <2>1, <2>4 DEF PaymentsInv, PlanInv
      <3>2. CASE StoredChange' = StoredChange
        BY <3>1, <3>2
      <3>3. CASE StoredChange' # StoredChange
        BY <3>3, StoredChangeStep DEF PaymentsInv
      <3> QED BY <3>2, <3>3
    <2>5. ASSUME Planned', plan.change > 0, NEW t \in OwnPayments', t.addr = plan.addr
          PROVE  Expired(t)'
      <3>1. NoneNew
        <4>1. CASE Broadcast
          BY <1>4, <4>1 DEF Broadcast, NoneNew, OwnPayments
        <4> QED BY <4>1, TxsStep DEF PaymentsInv
      <3>2. PICK u \in OwnPayments : u.id = t.id /\ u.addr = t.addr
        BY <3>1 DEF NoneNew
      <3>3. Expired(u)
        BY <2>1, <2>5, <3>2 DEF PaymentsInv, PlanInv
      <3> QED BY <2>2, <3>2, <3>3 DEF Expired
    <2>6. ASSUME Planned', ~(plan.change > 0) PROVE plan.addr = NoAddress
      BY <2>1, <2>6 DEF PaymentsInv, PlanInv
    <2>7. ASSUME plan.change > 0, step' \in {"watchChange", "broadcast"} PROVE plan.addr \in stored'
      BY <2>1, <2>2, <2>7 DEF PaymentsInv, PlanInv
    <2>8. ASSUME plan.change > 0, step' = "broadcast" PROVE plan.addr \in watched'
      <3>1. Running'
        BY <2>8 DEF Running
      <3>2. watched \subseteq watched' \/ watched' = stored'
        BY <3>1, WatchedStep
      <3> QED BY <2>1, <2>7, <2>8, <3>2 DEF PaymentsInv, PlanInv
    <2> QED BY <1>4, <2>4, <2>5, <2>6, <2>7, <2>8 DEF PlanInv
  <1>5. CASE plan' = plan /\ Broadcast /\ step' = "queue"
    <2>1. dialog' = "form"
      BY <1>5 DEF Broadcast, NotSent, PaymentsInv, DialogInv
    <2>2. ~Planned'
      BY <1>5, <2>1 DEF Planned, Paying
    <2> QED BY <1>5, <2>2 DEF PlanInv
  <1> QED BY <1>1, <1>2, <1>3, <1>4, <1>5, PlanChanges

\* No step makes the change of a payment unknown, or gives two payments one
\* address.
LEMMA ChangeStep ==
  ASSUME PaymentsInv, [Next]_vars
  PROVE  ChangeStaysOurs'
  <1>1. stored \subseteq stored' /\ forgotten \subseteq forgotten'
    BY StoredChangeStep, ForgottenStay DEF PaymentsInv
  <1>2. /\ \A u \in OwnPayments : u.addr \in stored /\ (Running => u.addr \in watched)
        /\ \A u, v \in OwnPayments : u.addr = v.addr =>
              u.id = v.id \/ \E f \in forgotten : f.id \in {u.id, v.id}
    BY DEF PaymentsInv, ChangeStaysOurs, OwnPayments
  <1>3. ASSUME NEW u \in OwnPayments PROVE u.addr \in stored' /\ (Running' => u.addr \in watched')
    BY <1>1, <1>2, <1>3, WatchedStep
  <1>4. CASE NoneNew
    <2>1. \A t \in OwnPayments' : t.addr \in stored' /\ (Running' => t.addr \in watched')
      BY <1>3, <1>4 DEF NoneNew
    <2>2. ASSUME NEW t \in OwnPayments', NEW s \in OwnPayments', t.addr = s.addr
          PROVE  t.id = s.id \/ \E f \in forgotten' : f.id \in {t.id, s.id}
      <3>1. PICK u \in OwnPayments : u.id = t.id /\ u.addr = t.addr
        BY <1>4 DEF NoneNew
      <3>2. PICK v \in OwnPayments : v.id = s.id /\ v.addr = s.addr
        BY <1>4 DEF NoneNew
      <3>3. u.id = v.id \/ \E f \in forgotten : f.id \in {u.id, v.id}
        BY <1>2, <2>2, <3>1, <3>2
      <3> QED BY <1>1, <3>1, <3>2, <3>3
    <2> QED BY <2>1, <2>2 DEF ChangeStaysOurs, OwnPayments
  <1>5. CASE ~NoneNew
    <2>1. Broadcast /\ OwnPayments' # OwnPayments
      BY <1>5, TxsStep DEF PaymentsInv, NoneNew
    <2>2. /\ step = "broadcast" /\ txs' = txs \cup {Payment} /\ forgotten' = forgotten
          /\ stored' = stored /\ watched' = watched
      BY <2>1 DEF Broadcast, OwnPayments
    <2>3. Payment.value = plan.change /\ Payment.addr = plan.addr
      BY DEF Payment
    <2>4. OwnPayments' \subseteq OwnPayments \cup {Payment}
      BY <2>2 DEF OwnPayments
    <2>5. Payment \in OwnPayments' => plan.change > 0
      BY <2>3 DEF OwnPayments
    <2>6. ASSUME plan.change > 0
          PROVE  /\ plan.addr \in stored' /\ plan.addr \in watched'
                 /\ \A u \in OwnPayments : u.addr = plan.addr => Expired(u)
      BY <2>2, <2>6 DEF PaymentsInv, PlanInv, Planned, Paying
    <2>7. \A t \in OwnPayments' : t.addr \in stored' /\ (Running' => t.addr \in watched')
      BY <1>3, <2>3, <2>4, <2>5, <2>6
    <2>8. ASSUME NEW t \in OwnPayments', NEW s \in OwnPayments', t.addr = s.addr
          PROVE  t.id = s.id \/ \E f \in forgotten' : f.id \in {t.id, s.id}
      <3>1. CASE t \in OwnPayments /\ s \in OwnPayments
        BY <1>2, <2>2, <2>8, <3>1
      <3>2. CASE t = Payment /\ s \in OwnPayments
        BY <2>2, <2>3, <2>5, <2>6, <2>8, <3>2 DEF Expired
      <3>3. CASE s = Payment /\ t \in OwnPayments
        BY <2>2, <2>3, <2>5, <2>6, <2>8, <3>3 DEF Expired
      <3>4. CASE t = Payment /\ s = Payment
        BY <3>4
      <3> QED BY <2>4, <3>1, <3>2, <3>3, <3>4
    <2> QED BY <2>7, <2>8 DEF ChangeStaysOurs, OwnPayments
  <1> QED BY <1>4, <1>5

(***************************************************************************)
(* Types                                                                   *)
(***************************************************************************)

\* The number of the last transaction.
LastId == Cardinality(Seeds) + made

\* The transactions are finitely many, numbered without doubles.
LedgerTypes ==
  /\ InSets(txs, Records) /\ InSets(forgotten, Records)
  /\ \A t, u \in txs : t.id = u.id => t = u
  /\ IsFiniteSet(txs)
  /\ \A t \in txs \cup forgotten : t.id \in 1..LastId
  /\ sent \subseteq 1..LastId

\* The plan has its fields, its transaction the last number while it is queued.
Plans == [inputs : SUBSET Nat, change : Nat, addr : Addresses, valid : BOOLEAN, txid : Nat]
FormTypes ==
  /\ dialog \in {"none", "form", "confirm"}
  /\ IsCoinSet(offered) /\ entered \in Nat
  /\ plan \in Plans /\ (step = "queue" => plan.txid \in 1..LastId)

AddressTypes ==
  /\ stored \subseteq Addresses /\ watched \subseteq Addresses
  /\ nextIndex \in Nat /\ index \in Nat /\ shown \in Addresses

\* A payment under way is one the bound has room for.
ControlTypes ==
  /\ step \in {"down", "refreshFirst", "start", "idle", "rotate", "refresh",
               "storeChange", "watchChange", "broadcast", "queue"}
  /\ connected \in BOOLEAN
  /\ made \in 0..MaxTxs /\ trouble \in 0..MaxTrouble
  /\ Paying => made < MaxTxs

TypesInv == LedgerTypes /\ FormTypes /\ AddressTypes /\ ControlTypes

\* The numbers of transactions only grow.
LEMMA LastIdFacts ==
  ASSUME made \in Nat
  PROVE  LastId \in Nat /\ NewId = LastId + 1 /\ Cardinality(Seeds) \in Nat
  <1>1. Cardinality(Seeds) \in Nat
    BY SeedsAssumption, FS_CardinalityType
  <1> QED BY <1>1 DEF LastId, NewId

\* The addresses that the program makes.
LEMMA AddressTyped ==
  \A i \in Nat : Receive(i) \in Addresses /\ Change(i) \in Addresses /\ NoAddress \in Addresses
  BY DEF Receive, Change, NoAddress, Addresses

\* The coins of the wallet can be told apart.
LEMMA CoinsTyped ==
  ASSUME LedgerTypes
  PROVE  IsCoinSet(Coins) /\ \A c \in Coins : \E t \in txs : c.id = t.id /\ c.value = t.value
  <1> DEFINE unspent == {u \in Outpoints : \A v \in txs : u.id \notin v.inputs}
             coin(t) == [id |-> t.id, value |-> t.value, confirmed |-> t.confirmed]
             f == [t \in unspent |-> coin(t)]
  <1>1. unspent \in SUBSET txs
    BY DEF Outpoints
  <1>2. Coins = {coin(t) : t \in unspent}
    BY DEF Coins
  <1>3. IsFiniteSet(unspent)
    <2> HIDE DEF unspent
    <2> QED BY <1>1, FS_Subset DEF LedgerTypes
  <1>4. f \in Surjection(unspent, Coins)
    <2>1. f \in [unspent -> Coins]
      BY <1>2
    <2>2. \A c \in Coins : \E t \in unspent : f[t] = c
      BY <1>2
    <2> HIDE DEF f, unspent
    <2> QED BY <2>1, <2>2, Fun_IsSurj
  <1>5. IsFiniteSet(Coins)
    <2> HIDE DEF f, unspent
    <2> QED BY <1>3, <1>4, FS_Surjection
  <1>6. \A t \in txs : coin(t) \in CoinRecords /\ coin(t).id = t.id /\ coin(t).value = t.value
    BY DEF LedgerTypes, InSets, Records, CoinRecords
  <1>7. ASSUME NEW c \in Coins, NEW d \in Coins, c.id = d.id PROVE c = d
    <2>1. PICK t \in txs : c = coin(t)
      BY <1>1, <1>2
    <2>2. PICK u \in txs : d = coin(u)
      BY <1>1, <1>2
    <2>3. t = u
      <3> HIDE DEF unspent
      <3> QED BY <1>6, <1>7, <2>1, <2>2 DEF LedgerTypes
    <2> QED BY <2>1, <2>2, <2>3
  <1>8. \A c \in Coins : c \in CoinRecords /\ \E t \in txs : c.id = t.id /\ c.value = t.value
    BY <1>1, <1>2, <1>6
  <1> QED BY <1>5, <1>7, <1>8 DEF IsCoinSet

\* What Review is given: coins, an amount and a rate.
LEMMA ReviewOrder ==
  ASSUME LedgerTypes, IsCoinSet(offered), entered \in Nat,
         NEW r \in Requests, NEW chosen \in SUBSET offered
  PROVE  /\ IsOrder(Given(chosen), r.dest, Amount(r), r.rate)
         /\ r.dest \in Kinds /\ r.rate \in Nat \ {0} /\ MaxSats \in Nat
  <1>1. IsCoinSet(Given(chosen))
    BY CoinsTyped, CoinSubset DEF Given
  <1>2. r.dest \in Kinds /\ r.amount \in Nat /\ r.rate \in Nat \ {0} /\ MaxSats \in Nat
    BY RequestsAssumption, IntAssumption DEF Kinds
  <1>3. Amount(r) \in Nat
    BY <1>2 DEF Amount
  <1> QED BY <1>1, <1>2, <1>3 DEF IsOrder

\* What Max enters is an amount.
LEMMA MaxTyped ==
  ASSUME LedgerTypes, IsCoinSet(offered), FillMax
  PROVE  entered' \in Nat
  <1>1. PICK e \in MaxEntries, chosen \in SUBSET offered :
          entered' = MaxAmount(Given(chosen), e.dest, e.rate)
    BY DEF FillMax
  <1>2. IsCoinSet(Given(chosen))
    BY CoinsTyped, CoinSubset DEF Given
  <1>3. e.dest \in Kinds /\ e.rate \in Nat
    BY EntriesAssumption, IntAssumption DEF Kinds
  <1> DEFINE coins == Given(chosen)
             n == Cardinality(coins)
             size == EstimateVSize(n, ToDest(e.dest))
             fee == FeeOf(coins, ToDest(e.dest), e.rate)
             amount == Wrap(ValueOf(coins) - fee)
             d == DustLimit(e.dest)
  <1>4. n \in Nat
    BY <1>2, FS_CardinalityType DEF IsCoinSet
  <1>5. size * e.rate \in Int
    <2>1. size = BaseSize(e.dest) + 68 * n /\ BaseSize(e.dest) \in Nat
      <3> HIDE DEF n
      <3> QED BY <1>3, <1>4, SizeFacts
    <2>2. \A a, b, c \in Nat : (a + 68 * b) * c \in Int
      OBVIOUS
    <2> HIDE DEF n, size
    <2> QED BY <1>3, <1>4, <2>1, <2>2
  <1>6. fee \in Int
    BY <1>5, WrapFacts DEF FeeOf
  <1>7. ValueOf(coins) \in Nat
    BY <1>2, ValueFacts
  <1>8. ValueOf(coins) - fee \in Int
    <2> HIDE DEF coins, fee
    <2> QED BY <1>6, <1>7
  <1>9. amount \in Int /\ d \in Nat
    BY <1>3, <1>8, WrapFacts, DustFacts
  <1>10. entered' = IF amount < d THEN 0 ELSE amount
    BY <1>1 DEF MaxAmount
  <1> HIDE DEF amount, d
  <1> QED BY <1>9, <1>10

\* What is left of the inputs is a number.
LEMMA RestTyped ==
  ASSUME NEW coins, NEW dest, NEW amount, NEW rate, IsOrder(coins, dest, amount, rate),
         NEW inputs \in SUBSET coins
  PROVE  Rest(inputs, dest, amount, rate) \in Int
  <1> DEFINE n == Cardinality(inputs)
             size == EstimateVSize(n, WithChange(dest))
             fee == FeeOf(inputs, WithChange(dest), rate)
  <1>1. amount \in Nat /\ rate \in Nat /\ dest \in Kinds
    BY DEF IsOrder
  <1>2. n \in Nat
    BY FS_Subset, FS_CardinalityType DEF IsOrder, IsCoinSet
  <1>3. size * rate \in Int
    <2>1. size = BaseWithChange(dest) + 68 * n /\ BaseWithChange(dest) \in Nat
      <3> HIDE DEF n
      <3> QED BY <1>1, <1>2, SizeFacts
    <2>2. \A a, b, c \in Nat : (a + 68 * b) * c \in Int
      OBVIOUS
    <2> HIDE DEF n, size
    <2> QED BY <1>1, <1>2, <2>1, <2>2
  <1>4. fee \in Int
    BY <1>3, WrapFacts DEF FeeOf
  <1>5. ValueOf(inputs) \in Nat
    BY ValueFacts DEF IsOrder
  <1>6. ValueOf(inputs) - amount - fee \in Int
    <2> HIDE DEF fee
    <2> QED BY <1>1, <1>4, <1>5
  <1> QED BY <1>6, WrapFacts DEF Rest

\* What is planned has its fields.
LEMMA PlanTyped ==
  ASSUME NEW coins, NEW dest, NEW amount, NEW rate, IsOrder(coins, dest, amount, rate), NEW useAll
  PROVE  LET s == PlanSpend(coins, useAll, dest, amount, rate)
         IN  s.inputs \in SUBSET coins /\ s.change \in Nat
  <1> DEFINE s == PlanSpend(coins, useAll, dest, amount, rate)
  <1>1. CASE s = NoSpend
    <2>1. s.inputs = {} /\ s.change = 0
      BY <1>1 DEF NoSpend
    <2> QED BY <2>1
  <1>2. ASSUME NEW n \in Enough(coins, useAll, dest, amount, rate),
               s = Spend(FirstCoins(coins, n), dest, amount, rate)
        PROVE  s.inputs \in SUBSET coins /\ s.change \in Nat
    <2>1. FirstCoins(coins, n) \in SUBSET coins
      BY DEF FirstCoins
    <2>2. s.inputs = FirstCoins(coins, n)
      BY <1>2 DEF Spend
    <2>3. s.change = IF HasChange(FirstCoins(coins, n), dest, amount, rate)
                     THEN Rest(FirstCoins(coins, n), dest, amount, rate) ELSE 0
      BY <1>2 DEF Spend
    <2>4. Rest(FirstCoins(coins, n), dest, amount, rate) \in Int
      BY <2>1, RestTyped
    <2>5. DustLimit(ChangeScript) \in Nat
      BY OutputSizeFacts, DustFacts DEF IsOrder
    <2> DEFINE rest == Rest(FirstCoins(coins, n), dest, amount, rate)
    <2>6. s.change = (IF rest >= DustLimit(ChangeScript) THEN rest ELSE 0) /\ rest \in Int
      BY <2>3, <2>4 DEF HasChange
    <2> HIDE DEF s, rest
    <2>7. s.change \in Nat
      BY <2>5, <2>6
    <2> QED BY <2>1, <2>2, <2>7
  <1>3. s = NoSpend \/ \E n \in Enough(coins, useAll, dest, amount, rate) :
                          s = Spend(FirstCoins(coins, n), dest, amount, rate)
    BY PlanCases DEF IsOrder, IsCoinSet
  <1> QED BY <1>1, <1>2, <1>3

\* Transactions that come with a number of their own or one that is free keep
\* the ledger well formed.
LEMMA LedgerGrows ==
  ASSUME LedgerTypes, made \in Nat, made' \in {made, made + 1},
         NEW new, IsFiniteSet(new), InSets(new, Records), \A t \in new : t.id \in 1..LastId',
         txs' \subseteq txs \cup new, \A t \in new, u \in txs' : u.id = t.id => u = t,
         InSets(forgotten', Records), \A t \in forgotten' : t.id \in 1..LastId,
         sent' \subseteq 1..LastId'
  PROVE  LedgerTypes'
  <1>1. 1..LastId \subseteq 1..LastId'
    <2>1. LastId \in Nat /\ Cardinality(Seeds) \in Nat
      BY LastIdFacts
    <2>2. LastId = Cardinality(Seeds) + made /\ LastId' = Cardinality(Seeds) + made'
      BY DEF LastId
    <2>3. LastId' \in Nat /\ LastId <= LastId'
      BY <2>1, <2>2
    <2> QED BY <2>1, <2>3
  <1>2. InSets(txs', Records) /\ InSets(forgotten', Records)
    BY DEF LedgerTypes, InSets
  <1>3. \A t, u \in txs' : t.id = u.id => t = u
    BY DEF LedgerTypes
  <1>4. IsFiniteSet(txs')
    <2>1. IsFiniteSet(txs \cup new)
      BY FS_Union DEF LedgerTypes
    <2> QED BY <2>1, FS_Subset
  <1>5. \A t \in txs' \cup forgotten' : t.id \in 1..LastId'
    BY <1>1 DEF LedgerTypes
  <1> QED BY <1>2, <1>3, <1>4, <1>5 DEF LedgerTypes

\* A new transaction gets the next number.
LEMMA LedgerAdds ==
  ASSUME LedgerTypes, made \in Nat, made' = made + 1, NEW t \in Records, t.id = NewId,
         txs' = txs \cup {t}, forgotten' = forgotten, sent' = sent
  PROVE  LedgerTypes'
  <1>1. LastId \in Nat /\ NewId = LastId + 1 /\ LastId' = LastId + 1
    BY LastIdFacts DEF LastId
  <1>2. IsFiniteSet({t}) /\ InSets({t}, Records)
    BY FS_Singleton DEF InSets
  <1>3. \A x \in {t} : x.id \in 1..LastId'
    BY <1>1
  <1>4. \A x \in {t}, u \in txs' : u.id = x.id => u = x
    <2> SUFFICES ASSUME NEW u \in txs PROVE u.id # t.id
      OBVIOUS
    <2>1. u.id \in 1..LastId
      BY DEF LedgerTypes
    <2> QED BY <1>1, <2>1
  <1>5. sent' \subseteq 1..LastId'
    <2>1. sent \subseteq 1..LastId
      BY DEF LedgerTypes
    <2> QED BY <1>1, <2>1
  <1>6. InSets(forgotten', Records) /\ \A x \in forgotten' : x.id \in 1..LastId
    BY DEF LedgerTypes, InSets
  <1> QED BY <1>2, <1>3, <1>4, <1>5, <1>6, LedgerGrows

\* Every step keeps the ledger well formed.
LEMMA LedgerStep ==
  ASSUME TypesInv, [Next]_vars
  PROVE  LedgerTypes' /\ made' \in {made, made + 1}
  <1>1. made \in Nat /\ LastId \in Nat
    <2>1. made \in Nat
      BY BoundsAssumption DEF TypesInv, ControlTypes
    <2> QED BY <2>1, LastIdFacts
  <1>2. LedgerTypes /\ FormTypes /\ AddressTypes
    BY DEF TypesInv
  <1>3. CASE UNCHANGED ledger
    BY <1>2, <1>3 DEF LedgerTypes, LastId, InSets
  <1>4. CASE Broadcast /\ ~UNCHANGED ledger
    <2>1. /\ txs' = txs \cup {Payment} /\ made' = made + 1
          /\ forgotten' = forgotten /\ sent' = sent
      BY <1>4 DEF Broadcast
    <2>2. NewId \in Nat
      BY <1>1, LastIdFacts
    <2>3. /\ plan.inputs \in SUBSET Nat /\ plan.change \in Nat /\ plan.addr \in Addresses
          /\ plan.valid \in BOOLEAN
      BY <1>2 DEF FormTypes, Plans
    <2>4. Payment \in Records /\ Payment.id = NewId
      <3> DEFINE valid == plan.valid /\ \A t \in txs \cup forgotten : t.id \in plan.inputs => t.valid
      <3>1. valid \in BOOLEAN
        OBVIOUS
      <3>2. Payment = [id |-> NewId, inputs |-> plan.inputs, value |-> plan.change,
                       addr |-> plan.addr, own |-> TRUE, confirmed |-> FALSE, valid |-> valid]
        BY DEF Payment
      <3> HIDE DEF valid
      <3> QED BY <2>2, <2>3, <3>1, <3>2 DEF Records
    <2> QED BY <1>1, <1>2, <2>1, <2>4, LedgerAdds
  <1>5. ASSUME NEW inputs \in SUBSET Nat, NEW value \in Nat, NEW addr \in Addresses,
               Relayed(inputs, value, addr)
        PROVE  LedgerTypes' /\ made' \in {made, made + 1}
    <2> DEFINE t == [id |-> NewId, inputs |-> inputs, value |-> value,
                     addr |-> addr, own |-> FALSE, valid |-> TRUE, confirmed |-> FALSE]
    <2>1. txs' = txs \cup {t} /\ made' = made + 1 /\ forgotten' = forgotten /\ sent' = sent
      BY <1>5 DEF Relayed
    <2>2. t \in Records /\ t.id = NewId
      <3>1. NewId \in Nat
        BY <1>1, LastIdFacts
      <3> QED BY <3>1 DEF Records
    <2> HIDE DEF t
    <2> QED BY <1>1, <1>2, <2>1, <2>2, LedgerAdds
  <1>6. CASE ReceivePayment
    <2>1. PICK v \in Received : Relayed({}, v, shown)
      BY <1>6 DEF ReceivePayment
    <2>2. v \in Nat /\ {} \in SUBSET Nat /\ shown \in Addresses
      BY <1>2, ReceivedAssumption DEF AddressTypes
    <2> QED BY <1>5, <2>1, <2>2
  <1>7. CASE SpendElsewhere
    <2>1. PICK c \in Coins, a \in {Receive(index + 1), Change(0)} :
            /\ c.value >= 2 * DustLimit(ChangeScript)
            /\ Relayed({c.id}, c.value - DustLimit(ChangeScript), a)
      BY <1>7 DEF SpendElsewhere
    <2>2. c.value \in Nat /\ {c.id} \in SUBSET Nat
      BY <1>2, CoinsTyped DEF IsCoinSet, CoinRecords
    <2>3. DustLimit(ChangeScript) \in Nat
      BY OutputSizeFacts, DustFacts DEF Kinds
    <2>4. c.value - DustLimit(ChangeScript) \in Nat
      BY <2>1, <2>2, <2>3
    <2>5. a \in Addresses
      <3>1. index + 1 \in Nat /\ 0 \in Nat
        BY <1>2 DEF AddressTypes
      <3> QED BY <2>1, <3>1, AddressTyped
    <2> QED BY <1>5, <2>1, <2>2, <2>4, <2>5
  <1>8. ASSUME NEW t \in forgotten, RelayedAgain(t) PROVE LedgerTypes' /\ made' = made
    <2>1. /\ txs' = txs \cup {t} /\ forgotten' = forgotten /\ made' = made /\ sent' = sent
          /\ \A u \in txs : u.id # t.id
      BY <1>8 DEF RelayedAgain
    <2>2. LastId' = LastId
      BY <2>1 DEF LastId
    <2>3. IsFiniteSet({t}) /\ InSets({t}, Records) /\ \A x \in {t} : x.id \in 1..LastId'
      BY <1>2, <2>2, FS_Singleton DEF LedgerTypes, InSets
    <2>4. \A x \in {t}, u \in txs' : u.id = x.id => u = x
      BY <2>1
    <2>5. sent' \subseteq 1..LastId'
      BY <1>2, <2>1, <2>2 DEF LedgerTypes
    <2>6. InSets(forgotten', Records) /\ \A x \in forgotten' : x.id \in 1..LastId
      BY <1>2, <2>1 DEF LedgerTypes, InSets
    <2> QED BY <1>1, <1>2, <2>1, <2>3, <2>4, <2>5, <2>6, LedgerGrows
  <1>9. ASSUME NEW t \in txs \cup forgotten, ConfirmTx(t) PROVE LedgerTypes' /\ made' = made
    <2> DEFINE done == [t EXCEPT !.confirmed = TRUE]
    <2>1. /\ txs' = {u \in txs : u.id # t.id /\ u.inputs \cap t.inputs = {}} \cup {done}
          /\ forgotten' = forgotten /\ made' = made /\ sent' = sent
      BY <1>9 DEF ConfirmTx, Settled
    <2>2. LastId' = LastId
      BY <2>1 DEF LastId
    <2>3. t \in Records /\ t.id \in 1..LastId
      BY <1>2 DEF LedgerTypes, InSets
    <2>4. done \in Records /\ done.id = t.id
      BY <2>3 DEF Records
    <2> HIDE DEF done
    <2>5. IsFiniteSet({done}) /\ InSets({done}, Records) /\ \A x \in {done} : x.id \in 1..LastId'
      BY <2>2, <2>3, <2>4, FS_Singleton DEF InSets
    <2>6. \A x \in {done}, u \in txs' : u.id = x.id => u = x
      BY <2>1, <2>4
    <2>7. sent' \subseteq 1..LastId'
      BY <1>2, <2>1, <2>2 DEF LedgerTypes
    <2>8. txs' \subseteq txs \cup {done}
      BY <2>1
    <2>9. InSets(forgotten', Records) /\ \A x \in forgotten' : x.id \in 1..LastId
      BY <1>2, <2>1 DEF LedgerTypes, InSets
    <2> QED BY <1>1, <1>2, <2>1, <2>5, <2>6, <2>7, <2>8, <2>9, LedgerGrows
  <1>10. CASE ExpirePending \/ Rewind
    <2>1. txs' \subseteq txs /\ made' = made /\ sent' = sent
      BY <1>10 DEF ExpirePending, Rewind
    <2>2. LastId' = LastId
      BY <2>1 DEF LastId
    <2>3. sent' \subseteq 1..LastId'
      BY <1>2, <2>1, <2>2 DEF LedgerTypes
    <2>4. IsFiniteSet({}) /\ InSets({}, Records)
      BY FS_EmptySet DEF InSets
    <2>5. txs' \subseteq txs \cup {}
      BY <2>1
    <2>6. ASSUME NEW t \in forgotten' PROVE t \in Records /\ t.id \in 1..LastId
      <3>1. t \in forgotten \cup txs \/ \E u \in txs : t = [u EXCEPT !.confirmed = FALSE]
        BY <1>10 DEF ExpirePending, Rewind
      <3>2. CASE t \in forgotten \cup txs
        BY <1>2, <3>2 DEF LedgerTypes, InSets
      <3>3. ASSUME NEW u \in txs, t = [u EXCEPT !.confirmed = FALSE]
            PROVE  t \in Records /\ t.id \in 1..LastId
        <4>1. u \in Records /\ u.id \in 1..LastId
          BY <1>2 DEF LedgerTypes, InSets
        <4> QED BY <3>3, <4>1 DEF Records
      <3> QED BY <3>1, <3>2, <3>3
    <2>7. InSets(forgotten', Records) /\ \A t \in forgotten' : t.id \in 1..LastId
      BY <2>6 DEF InSets
    <2> QED BY <1>1, <1>2, <2>1, <2>3, <2>4, <2>5, <2>7, LedgerGrows
  <1>11. CASE QueueToPeers \/ Connect
    <2>1. txs' = txs /\ forgotten' = forgotten /\ made' = made
      BY <1>11 DEF QueueToPeers, Connect
    <2>2. LastId' = LastId
      BY <2>1 DEF LastId
    <2>3. sent' \subseteq 1..LastId
      <3>1. CASE QueueToPeers
        BY <1>2, <3>1 DEF QueueToPeers, LedgerTypes, FormTypes
      <3>2. CASE Connect
        BY <1>2, <3>2 DEF Connect, Rebroadcast, LedgerTypes
      <3> QED BY <1>11, <3>1, <3>2
    <2> QED BY <1>2, <2>1, <2>2, <2>3 DEF LedgerTypes, InSets
  <1>12. \/ UNCHANGED ledger \/ (Broadcast /\ ~UNCHANGED ledger)
         \/ ReceivePayment \/ SpendElsewhere
         \/ \E t \in forgotten : RelayedAgain(t)
         \/ \E t \in txs \cup forgotten : ConfirmTx(t)
         \/ ExpirePending \/ Rewind \/ QueueToPeers \/ Connect
    BY DEF Next, Restart, StartSync, Crash, RotateIfUsed, EndRotate, RefreshAddress, OpenSend, FillMax,
           Review, Back, Cancel, Confirm, StoreChange, WatchChange, Disconnect
  <1>13. UNCHANGED ledger => made' = made
    OBVIOUS
  <1>14. Broadcast /\ ~UNCHANGED ledger => made' = made + 1
    BY DEF Broadcast
  <1>15. ExpirePending \/ Rewind \/ QueueToPeers \/ Connect => made' = made
    BY DEF ExpirePending, Rewind, QueueToPeers, Connect
  <1> QED BY <1>3, <1>4, <1>6, <1>7, <1>8, <1>9, <1>10, <1>11, <1>12, <1>13, <1>14, <1>15

\* Addresses stay addresses.
LEMMA AddressStep ==
  ASSUME TypesInv, [Next]_vars
  PROVE  AddressTypes'
  <1>1. /\ stored \subseteq Addresses /\ watched \subseteq Addresses
        /\ nextIndex \in Nat /\ index \in Nat /\ shown \in Addresses /\ plan.addr \in Addresses
    BY DEF TypesInv, AddressTypes, FormTypes, Plans
  <1>2. nextIndex' \in Nat /\ index' \in Nat
    <2>1. index + 1 \in Nat /\ 0 \in Nat
      BY <1>1
    <2>2. index' \in {index, index + 1, nextIndex, 0} /\ nextIndex' \in {nextIndex, index'}
      BY DEF Next, Restart, StartSync, Crash, RotateIfUsed, EndRotate, RefreshAddress,
             OpenSend, FillMax, Review, Back, Cancel, Confirm, StoreChange, WatchChange, Broadcast, NotSent,
             QueueToPeers, Connect, Disconnect, ReceivePayment, SpendElsewhere, Relayed,
             RelayedAgain, ConfirmTx, ExpirePending, Rewind
    <2> QED BY <1>1, <2>1, <2>2
  <1>3. shown' \in Addresses
    <2>1. shown' \in {shown, NoAddress, Receive(nextIndex), Receive(index')}
      BY DEF Next, Restart, StartSync, Crash, RotateIfUsed, EndRotate, RefreshAddress,
             OpenSend, FillMax, Review, Back, Cancel, Confirm, StoreChange, WatchChange, Broadcast, NotSent,
             QueueToPeers, Connect, Disconnect, ReceivePayment, SpendElsewhere, Relayed,
             RelayedAgain, ConfirmTx, ExpirePending, Rewind
    <2>2. NoAddress \in Addresses
      BY DEF Addresses
    <2> QED BY <1>1, <1>2, <2>1, <2>2, AddressTyped
  <1>4. stored' \subseteq stored \cup {shown, plan.addr}
    BY DEF Next, Restart, StartSync, Crash, RotateIfUsed, EndRotate, RefreshAddress,
           OpenSend, FillMax, Review, Back, Cancel, Confirm, StoreChange, WatchChange, Broadcast, NotSent,
           QueueToPeers, Connect, Disconnect, ReceivePayment, SpendElsewhere, Relayed,
           RelayedAgain, ConfirmTx, ExpirePending, Rewind
  <1>5. watched' \subseteq watched \cup stored \cup {shown, plan.addr}
    BY DEF Next, Restart, StartSync, Crash, RotateIfUsed, EndRotate, RefreshAddress, Watch,
           OpenSend, FillMax, Review, Back, Cancel, Confirm, StoreChange, WatchChange, Broadcast, NotSent,
           QueueToPeers, Connect, Disconnect, ReceivePayment, SpendElsewhere, Relayed,
           RelayedAgain, ConfirmTx, ExpirePending, Rewind
  <1>6. stored' \subseteq Addresses
    BY <1>1, <1>4
  <1>7. watched' \subseteq Addresses
    BY <1>1, <1>5
  <1> QED BY <1>2, <1>3, <1>6, <1>7 DEF AddressTypes

\* The bounds hold, and a payment under way keeps its room.
LEMMA ControlStep ==
  ASSUME TypesInv, [Next]_vars
  PROVE  ControlTypes'
  <1>1. /\ made \in Nat /\ made <= MaxTxs /\ trouble \in Nat /\ trouble <= MaxTrouble
        /\ MaxTxs \in Nat /\ MaxTrouble \in Nat
        /\ Paying => made < MaxTxs
    BY BoundsAssumption DEF TypesInv, ControlTypes
  <1>2. step' \in {"down", "refreshFirst", "start", "idle", "rotate", "refresh",
                   "storeChange", "watchChange", "broadcast", "queue"} /\ connected' \in BOOLEAN
    BY DEF TypesInv, ControlTypes, Next, Restart, StartSync, Crash, RotateIfUsed, EndRotate,
           RefreshAddress, OpenSend, FillMax, Review, Back, Cancel, Confirm, StoreChange, WatchChange,
           Broadcast, NotSent, QueueToPeers, Connect, Disconnect, ReceivePayment, SpendElsewhere,
           Relayed, RelayedAgain, ConfirmTx, ExpirePending, Rewind
  <1>3. trouble' \in 0..MaxTrouble
    <2>1. trouble' = trouble \/ Trouble
      BY DEF Next, Restart, StartSync, Crash, RotateIfUsed, EndRotate, RefreshAddress,
             OpenSend, FillMax, Review, Back, Cancel, Confirm, StoreChange, WatchChange, Broadcast,
             QueueToPeers, Connect, Disconnect, ReceivePayment, SpendElsewhere, Relayed,
             RelayedAgain, ConfirmTx, ExpirePending, Rewind
    <2>2. CASE trouble' = trouble
      BY <1>1, <2>2
    <2>3. CASE Trouble
      <3>1. trouble < MaxTrouble /\ trouble' = trouble + 1
        BY <2>3 DEF Trouble
      <3> QED BY <1>1, <3>1
    <2> QED BY <2>1, <2>2, <2>3
  <1>4. \/ made' = made
        \/ made' = made + 1 /\ made + (IF Paying THEN 1 ELSE 0) < MaxTxs /\ step' = step
        \/ made' = made + 1 /\ Broadcast /\ step' = "queue"
    BY DEF Next, Restart, StartSync, Crash, RotateIfUsed, EndRotate, RefreshAddress,
           OpenSend, FillMax, Review, Back, Cancel, Confirm, StoreChange, WatchChange, Broadcast,
           QueueToPeers, Connect, Disconnect, ReceivePayment, SpendElsewhere, Relayed,
           RelayedAgain, ConfirmTx, ExpirePending, Rewind
  <1>5. Paying' => Paying \/ (Confirm /\ made' = made)
    BY DEF Next, Paying, Restart, StartSync, Crash, RotateIfUsed, EndRotate, RefreshAddress,
           OpenSend, FillMax, Review, Back, Cancel, Confirm, StoreChange, WatchChange, Broadcast, NotSent,
           QueueToPeers, Connect, Disconnect, ReceivePayment, SpendElsewhere, Relayed,
           RelayedAgain, ConfirmTx, ExpirePending, Rewind
  <1>6. Confirm => made < MaxTxs
    BY DEF Confirm
  <1>7. Broadcast => Paying
    BY DEF Broadcast, Paying
  <1>8. step' = "queue" => ~Paying'
    BY DEF Paying
  <1>9. step' = step => (Paying' <=> Paying)
    BY DEF Paying
  <1>10. made' \in 0..MaxTxs /\ (Paying' => made' < MaxTxs)
    <2>1. CASE made' = made
      BY <1>1, <1>5, <1>6, <2>1
    <2>2. CASE made' = made + 1 /\ Paying /\ made + 1 < MaxTxs
      BY <1>1, <2>2
    <2>3. CASE made' = made + 1 /\ ~Paying /\ made + 0 < MaxTxs /\ step' = step
      BY <1>1, <1>9, <2>3
    <2>4. CASE made' = made + 1 /\ Broadcast /\ step' = "queue"
      BY <1>1, <1>7, <1>8, <2>4
    <2> QED BY <1>4, <2>1, <2>2, <2>3, <2>4
  <1> QED BY <1>2, <1>3, <1>10 DEF ControlTypes

\* A plan made anew has its fields.
LEMMA ReviewTyped ==
  ASSUME TypesInv, StoredInv, Review
  PROVE  plan' \in Plans
  <1>1. LedgerTypes /\ IsCoinSet(offered) /\ stored \subseteq Addresses
    BY DEF TypesInv, FormTypes, AddressTypes
  <1>2. PICK r \in Requests, chosen \in SUBSET offered :
          LET spend == PlanSend(r, chosen)
          IN  plan' = [inputs |-> {c.id : c \in spend.inputs}, change |-> spend.change,
                       addr |-> IF spend.change > 0 THEN NextChange ELSE NoAddress,
                       valid |-> spend.fee >= 0, txid |-> 0]
    BY DEF Review
  <1> DEFINE spend == PlanSend(r, chosen)
  <1>3. IsOrder(Given(chosen), r.dest, Amount(r), r.rate)
    BY <1>1, ReviewOrder DEF TypesInv, FormTypes
  <1>4. spend.inputs \in SUBSET Given(chosen) /\ spend.change \in Nat
    <2>1. CASE Amount(r) > MaxSats
      <3>1. spend = NoSpend
        BY <2>1 DEF PlanSend
      <3>2. NoSpend.inputs = {} /\ NoSpend.change = 0
        BY DEF NoSpend
      <3> HIDE DEF spend
      <3> QED BY <3>1, <3>2
    <2>2. CASE ~(Amount(r) > MaxSats)
      <3>1. spend = PlanSpend(Given(chosen), chosen # {}, r.dest, Amount(r), r.rate)
        BY <2>2 DEF PlanSend
      <3> QED BY <1>3, <3>1, PlanTyped
    <2> QED BY <2>1, <2>2
  <1>5. {c.id : c \in spend.inputs} \in SUBSET Nat
    <2>1. \A c \in spend.inputs : c.id \in Nat
      BY <1>3, <1>4 DEF IsOrder, IsCoinSet, CoinRecords
    <2> HIDE DEF spend
    <2> QED BY <2>1
  <1>6. NextChange \in Addresses /\ NoAddress \in Addresses
    <2>1. NextChange \in StoredChange \cup {Change(Cardinality(StoredChange))}
      BY NextChangeFacts
    <2>2. Cardinality(StoredChange) \in Nat
      BY NumberStored DEF StoredInv
    <2>3. StoredChange \subseteq Addresses
      BY <1>1 DEF StoredChange
    <2> QED BY <2>1, <2>2, <2>3, AddressTyped
  <1> DEFINE valid == spend.fee >= 0
  <1>7. valid \in BOOLEAN
    <2> HIDE DEF spend
    <2> QED OBVIOUS
  <1> HIDE DEF spend, valid
  <1>8. plan' = [inputs |-> {c.id : c \in spend.inputs}, change |-> spend.change,
                 addr |-> IF spend.change > 0 THEN NextChange ELSE NoAddress,
                 valid |-> valid, txid |-> 0]
    BY <1>2 DEF spend, valid
  <1> QED BY <1>4, <1>5, <1>6, <1>7, <1>8 DEF Plans

\* The dialog keeps its form.
LEMMA FormStep ==
  ASSUME TypesInv, StoredInv, [Next]_vars
  PROVE  FormTypes'
  <1>1. FormTypes /\ LedgerTypes
    BY DEF TypesInv
  <1>2. made \in Nat /\ made' \in {made, made + 1} /\ Cardinality(Seeds) \in Nat /\ LastId \in Nat
    <2>1. made \in Nat
      BY BoundsAssumption DEF TypesInv, ControlTypes
    <2> QED BY <2>1, LedgerStep, LastIdFacts
  <1>3. dialog' \in {"none", "form", "confirm"}
    BY <1>1 DEF FormTypes, Next, Restart, StartSync, Crash, RotateIfUsed, EndRotate,
           RefreshAddress, OpenSend, FillMax, Review, Back, Cancel, Confirm, StoreChange, WatchChange,
           Broadcast, NotSent, QueueToPeers, Connect, Disconnect, ReceivePayment, SpendElsewhere,
           Relayed, RelayedAgain, ConfirmTx, ExpirePending, Rewind
  <1>4. IsCoinSet(offered')
    <2>1. offered' \in {offered, {}, Coins}
      BY DEF Next, Restart, StartSync, Crash, RotateIfUsed, EndRotate,
             RefreshAddress, OpenSend, FillMax, Review, Back, Cancel, Confirm, StoreChange, WatchChange,
             Broadcast, NotSent, QueueToPeers, Connect, Disconnect, ReceivePayment, SpendElsewhere,
             Relayed, RelayedAgain, ConfirmTx, ExpirePending, Rewind
    <2>2. IsCoinSet({})
      BY FS_EmptySet DEF IsCoinSet
    <2> QED BY <1>1, <2>1, <2>2, CoinsTyped DEF FormTypes
  <1>11. entered' \in Nat
    <2>1. entered' \in {entered, 0} \/ FillMax
      BY DEF Next, Restart, StartSync, Crash, RotateIfUsed, EndRotate,
             RefreshAddress, OpenSend, Review, Back, Cancel, Confirm, StoreChange, WatchChange,
             Broadcast, NotSent, QueueToPeers, Connect, Disconnect, ReceivePayment, SpendElsewhere,
             Relayed, RelayedAgain, ConfirmTx, ExpirePending, Rewind
    <2>2. entered \in Nat /\ IsCoinSet(offered)
      BY <1>1 DEF FormTypes
    <2> QED BY <1>1, <2>1, <2>2, MaxTyped
  <1>5. step' = "queue" =>
          \/ step = "queue" /\ plan' = plan
          \/ Broadcast /\ plan' = [plan EXCEPT !.txid = NewId] /\ made' = made + 1
    BY DEF Next, Restart, StartSync, Crash, RotateIfUsed,
           EndRotate, RefreshAddress, OpenSend, FillMax, Review, Back, Cancel, Confirm, StoreChange,
           WatchChange, Broadcast, NotSent, QueueToPeers, Connect, Disconnect, ReceivePayment,
           SpendElsewhere, Relayed, RelayedAgain, ConfirmTx, ExpirePending, Rewind
  <1>6. NewId \in 1..LastId + 1 /\ LastId' \in {LastId, LastId + 1}
        /\ (made' = made + 1 => LastId' = LastId + 1)
    <2>1. NewId = LastId + 1 /\ LastId' = Cardinality(Seeds) + made' /\ LastId = Cardinality(Seeds) + made
      BY <1>2, LastIdFacts DEF LastId
    <2> QED BY <1>2, <2>1
  <1>7. plan \in Plans
    BY <1>1 DEF FormTypes
  <1>8. Broadcast /\ step' = "queue" => plan' = [plan EXCEPT !.txid = NewId]
    BY DEF Broadcast, NotSent
  <1>9. plan' \in Plans
    <2>1. NoPlan \in Plans
      BY DEF NoPlan, Plans, NoAddress, Addresses
    <2>2. ASSUME plan' = [plan EXCEPT !.txid = NewId] PROVE plan' \in Plans
      <3>1. NewId \in Nat
        BY <1>2, <1>6
      <3> QED BY <1>7, <2>2, <3>1 DEF Plans
    <2> QED BY <1>7, <1>8, <2>1, <2>2, PlanChanges, ReviewTyped
  <1>10. ASSUME step' = "queue" PROVE plan'.txid \in 1..LastId'
    <2>1. CASE step = "queue" /\ plan' = plan
      <3>1. plan.txid \in 1..LastId
        BY <1>1, <2>1 DEF FormTypes
      <3> QED BY <1>2, <1>6, <2>1, <3>1
    <2>2. CASE plan' = [plan EXCEPT !.txid = NewId] /\ made' = made + 1
      <3>1. plan'.txid = NewId
        BY <1>7, <2>2 DEF Plans
      <3>2. LastId' = LastId + 1
        BY <1>6, <2>2
      <3> QED BY <1>2, <1>6, <3>1, <3>2
    <2> QED BY <1>5, <1>10, <2>1, <2>2
  <1> QED BY <1>3, <1>4, <1>9, <1>10, <1>11 DEF FormTypes

\* The types hold at the start.
LEMMA TypesInit == Init => TypesInv
  <1> SUFFICES ASSUME Init PROVE TypesInv
    OBVIOUS
  <1>1. LastId = Cardinality(Seeds) /\ Cardinality(Seeds) \in Nat
    <2>1. Cardinality(Seeds) \in Nat
      BY SeedsAssumption, FS_CardinalityType
    <2> QED BY <2>1 DEF Init, LastId
  <1>2. LedgerTypes
    <2>1. \A t \in Seeds : t \in Records /\ t.id \in 1..LastId
      <3> SUFFICES ASSUME NEW t \in Seeds PROVE t \in Records /\ t.id \in 1..LastId
        OBVIOUS
      <3> DEFINE N == Cardinality(Seeds)
                 A == {Receive(0)}
      <3>1. t \in [id : 1..N, inputs : SUBSET Nat, value : Nat, addr : A, own : {FALSE},
                  valid : {TRUE}, confirmed : BOOLEAN]
        BY SeedsAssumption
      <3>2. 1..N \subseteq Nat /\ A \subseteq Addresses
            /\ {FALSE} \subseteq BOOLEAN /\ {TRUE} \subseteq BOOLEAN
        <4>1. Receive(0) \in Addresses
          BY AddressTyped
        <4> QED BY <1>1, <4>1
      <3>3. t.id \in 1..N
        BY <3>1
      <3> HIDE DEF A, N
      <3>4. t \in Records
        BY <3>1, <3>2 DEF Records
      <3> QED BY <1>1, <3>3, <3>4 DEF N
    <2>2. txs = Seeds /\ forgotten = {} /\ sent = {}
      BY DEF Init
    <2> QED BY <2>1, <2>2, SeedsAssumption DEF LedgerTypes, InSets
  <1>3. FormTypes
    <2>1. IsCoinSet({})
      BY FS_EmptySet DEF IsCoinSet
    <2>2. NoPlan \in Plans
      BY DEF NoPlan, Plans, NoAddress, Addresses
    <2> QED BY <2>1, <2>2 DEF Init, FormTypes
  <1>4. AddressTypes
    <2>1. Receive(0) \in Addresses /\ NoAddress \in Addresses
      BY AddressTyped
    <2> QED BY <2>1 DEF Init, AddressTypes
  <1>5. ControlTypes
    <2>1. 0 \in 0..MaxTxs /\ 0 \in 0..MaxTrouble
      BY BoundsAssumption
    <2>2. step = "down" /\ connected = FALSE /\ made = 0 /\ trouble = 0
      BY DEF Init
    <2> QED BY <2>1, <2>2 DEF ControlTypes, Paying
  <1> QED BY <1>2, <1>3, <1>4, <1>5 DEF TypesInv

(***************************************************************************)
(* The theorems                                                            *)
(***************************************************************************)

\* The invariant holds at the start.
LEMMA PaymentsInit == Init => PaymentsInv
  <1> SUFFICES ASSUME Init PROVE PaymentsInv
    OBVIOUS
  <1>1. TxsInv
    BY SeedsAssumption DEF Init, TxsInv, IsTx
  <1>2. OwnPayments = {}
    BY SeedsAssumption DEF Init, OwnPayments
  <1>3. StoredInv
    <2>1. StoredChange = {} /\ shown.kind # "change"
      BY AddressFacts DEF Init, StoredChange
    <2>2. 0..(0 - 1) = {}
      OBVIOUS
    <2>3. NumberedFrom0(0)
      BY <2>1, <2>2 DEF NumberedFrom0
    <2> QED BY <2>1, <2>3 DEF StoredInv
  <1>4. DialogInv
    BY DEF Init, DialogInv
  <1>5. PlanInv
    <2>1. ~Planned /\ step = "down"
      BY DEF Init, Planned, Paying
    <2> QED BY <2>1 DEF PlanInv
  <1>6. ChangeStaysOurs
    BY <1>2 DEF ChangeStaysOurs, OwnPayments
  <1> QED BY <1>1, <1>3, <1>4, <1>5, <1>6 DEF PaymentsInv

\* Whatever coins, requests and troubles there are: the change address of a
\* payment is stored and watched before anybody knows of the payment, and no
\* other payment of ours has it, unless one of them expired or was in a block
\* that a fork orphaned (nextChange, sendPlanned, AddChangeAddress, Watch,
\* expirePending, rewindTo).
THEOREM ChangeIsNeverLost == Spec => []ChangeStaysOurs
  <1>1. PaymentsInv /\ [Next]_vars => PaymentsInv'
    BY TxsStep, StoredStep, DialogStep, PlanStep, ChangeStep DEF PaymentsInv
  <1>2. PaymentsInv => ChangeStaysOurs
    BY DEF PaymentsInv
  <1> QED BY <1>1, <1>2, PaymentsInit, PTL DEF Spec

\* Each step of the sync loop, the dialog and the network keeps what is said
\* of addresses and of types.
LEMMA BothStep == PaymentsInv /\ TypesInv /\ [Next]_vars => PaymentsInv' /\ TypesInv'
  <1> SUFFICES ASSUME PaymentsInv, TypesInv, [Next]_vars PROVE PaymentsInv' /\ TypesInv'
    OBVIOUS
  <1>1. PaymentsInv'
    BY TxsStep, StoredStep, DialogStep, PlanStep, ChangeStep DEF PaymentsInv
  <1>2. TypesInv'
    BY LedgerStep, FormStep, AddressStep, ControlStep DEF TypesInv, PaymentsInv
  <1> QED BY <1>1, <1>2

\* Whatever coins, requests and troubles there are: the wallet is a finite set
\* of transactions with numbers of their own, the dialog offers coins that can
\* be told apart, a payment under way has the fields that broadcast reads
\* (sendPlanned, Broadcast), and no counter passes its bound.
THEOREM PaymentsTyped == Spec => []TypeOK
  <1>1. PaymentsInv /\ TypesInv => TypeOK
    <2> SUFFICES ASSUME PaymentsInv, TypesInv PROVE TypeOK
      OBVIOUS
    <2>1. InSets(offered, CoinRecords)
      BY DEF TypesInv, FormTypes, IsCoinSet, InSets
    <2>2. step \in {"storeChange", "watchChange", "broadcast", "queue"} => dialog = "form"
      BY DEF PaymentsInv, DialogInv
    <2>3. sent \subseteq 1..(Cardinality(Seeds) + made)
      BY DEF TypesInv, LedgerTypes, LastId
    <2> QED BY <2>1, <2>2, <2>3 DEF TypesInv, LedgerTypes, FormTypes, AddressTypes, ControlTypes, TypeOK
  <1> QED BY <1>1, PaymentsInit, TypesInit, BothStep, PTL DEF Spec

\* Whatever coins the wallet gets and whatever is asked, where the numbers fit an
\* int64: the payment that Review plans is paid for by its coins, to the satoshi,
\* has a change worth keeping or none, and takes confirmed coins, as few as any
\* that pay, where those suffice; Review refuses only what the coins cannot pay;
\* what Max would enter, the coins of that moment can pay, and not a satoshi more
\* (PlanSpend, MaxAmount).  The amount may be one that Max entered for others.
THEOREM PlansAreSound == Spec => []PlanSound
  <1>1. TypesInv => PlanSound
    <2> SUFFICES ASSUME TypesInv, NEW r \in Requests, NEW chosen \in SUBSET offered,
                        Fits(r, Given(chosen))
                 PROVE  LET s == PlanSend(r, chosen)
                            coins == Given(chosen)
                            useAll == chosen # {}
                        IN /\ GoodMax(r, coins, useAll)
                           /\ IF s # NoSpend THEN GoodPlan(s, r, Amount(r), coins, useAll)
                              ELSE RightlyRefused(r, Amount(r), coins, useAll)
      BY DEF PlanSound
    <2> DEFINE coins == Given(chosen)
               amount == Amount(r)
               useAll == chosen # {}
               s == PlanSend(r, chosen)
    <2>1. /\ IsOrder(coins, r.dest, amount, r.rate)
          /\ r.dest \in Kinds /\ r.rate \in Nat \ {0} /\ MaxSats \in Nat
      BY ReviewOrder DEF TypesInv, FormTypes
    <2>2. useAll \in BOOLEAN /\ Fits(r, coins)
      OBVIOUS
    <2>3. s = IF amount > MaxSats THEN NoSpend
              ELSE PlanSpend(coins, useAll, r.dest, amount, r.rate)
      BY DEF PlanSend
    <2> HIDE DEF coins, amount, useAll, s
    <2>4. GoodMax(r, coins, useAll)
      <3>1. IsCoinSet(coins)
        BY <2>1 DEF IsOrder
      <3> QED BY <2>1, <2>2, <3>1, MaxIsGood
    <2>5. amount > MaxSats \/ InRange(coins, r.dest, amount, r.rate)
      <3>1. IsCoinSet(coins) /\ amount \in Nat
        BY <2>1 DEF IsOrder
      <3> QED BY <2>1, <2>2, <3>1, FitsInRange
    <2>6. s # NoSpend => GoodPlan(s, r, amount, coins, useAll)
      BY <2>1, <2>2, <2>3, <2>5, PlannedIsGood
    <2>7. s = NoSpend => RightlyRefused(r, amount, coins, useAll)
      <3>1. CASE amount > MaxSats
        BY <3>1 DEF RightlyRefused
      <3>2. CASE ~(amount > MaxSats)
        BY <2>1, <2>2, <2>3, <2>5, <3>2, RefusedIsRight
      <3> QED BY <3>1, <3>2
    <2> QED BY <2>4, <2>6, <2>7 DEF coins, amount, useAll, s
  <1> QED BY <1>1, PaymentsInit, TypesInit, BothStep, PTL DEF Spec
=============================================================================
