--------------------------- MODULE KeepingProofs ---------------------------
(***************************************************************************)
(* What filtering a sequence keeps: the elements of the set, each as often *)
(* as before, in their order.  And what folds over a finite set add up to: *)
(* the wallet's lists and its amounts.                                     *)
(***************************************************************************)
EXTENDS Keeping, SequencesExt, FiniteSetTheorems, SequenceTheorems,
        WellFoundedInduction, TLAPS

\* The ranks of finitely many places are 1 up to their number, in order.
LEMMA RankFacts ==
  ASSUME NEW n \in Nat, NEW I \in SUBSET (1..n)
  PROVE  /\ IsFiniteSet(I) /\ Cardinality(I) \in 0..n
         /\ \A i \in I : Rank(I, i) \in 1..Cardinality(I)
         /\ \A i, j \in I : i < j => Rank(I, i) < Rank(I, j)
  <1>1. IsFiniteSet(1..n) /\ Cardinality(1..n) = n
    BY FS_Interval
  <1>2. IsFiniteSet(I) /\ Cardinality(I) \in 0..n
    <2>1. IsFiniteSet(I) /\ Cardinality(I) <= n
      BY <1>1, FS_Subset
    <2>2. Cardinality(I) \in Nat
      BY <2>1, FS_CardinalityType
    <2> QED BY <2>1, <2>2
  <1> DEFINE upTo(i) == {j \in I : j <= i}
  <1>3. ASSUME NEW i \in I
        PROVE  /\ IsFiniteSet(upTo(i)) /\ Cardinality(upTo(i)) \in 1..Cardinality(I)
    <2>1. upTo(i) \in SUBSET I /\ i \in upTo(i)
      OBVIOUS
    <2>2. IsFiniteSet(upTo(i)) /\ Cardinality(upTo(i)) <= Cardinality(I)
      BY <1>2, <2>1, FS_Subset
    <2>3. Cardinality(upTo(i)) \in Nat /\ Cardinality(upTo(i)) # 0
      BY <2>1, <2>2, FS_CardinalityType, FS_EmptySet
    <2> QED BY <1>2, <2>2, <2>3
  <1>4. ASSUME NEW i \in I, NEW j \in I, i < j
        PROVE  Cardinality(upTo(i)) < Cardinality(upTo(j))
    <2>1. upTo(i) \in SUBSET upTo(j)
      <3>1. I \in SUBSET Int
        OBVIOUS
      <3>2. ASSUME NEW x \in I, x <= i PROVE x <= j
        BY <1>4, <3>1, <3>2
      <3> QED BY <3>2
    <2>2. j \in upTo(j) /\ j \notin upTo(i)
      BY <1>4
    <2>3. Cardinality(upTo(i)) <= Cardinality(upTo(j)) /\ Cardinality(upTo(i)) # Cardinality(upTo(j))
      <3> HIDE DEF upTo
      <3> QED BY <1>3, <2>1, <2>2, FS_Subset
    <2> QED BY <1>2, <1>3, <2>3
  <1> QED BY <1>2, <1>3, <1>4 DEF Rank

\* Every rank is that of a place, the one Kth takes.
LEMMA KthFacts ==
  ASSUME NEW n \in Nat, NEW I \in SUBSET (1..n)
  PROVE  /\ \A k \in 1..Cardinality(I) : Kth(I, k) \in I /\ Rank(I, Kth(I, k)) = k
         /\ \A i \in I : Kth(I, Rank(I, i)) = i
  <1> DEFINE m == Cardinality(I)
             r == [i \in I |-> Rank(I, i)]
  <1>1. /\ IsFiniteSet(I) /\ m \in Nat
        /\ \A i \in I : Rank(I, i) \in 1..m
        /\ \A i, j \in I : i < j => Rank(I, i) < Rank(I, j)
    BY RankFacts
  <1>2. \A i, j \in I : Rank(I, i) = Rank(I, j) => i = j
    <2> SUFFICES ASSUME NEW i \in I, NEW j \in I, i # j PROVE Rank(I, i) # Rank(I, j)
      OBVIOUS
    <2>1. i < j \/ j < i
      OBVIOUS
    <2> QED BY <1>1, <2>1
  <1>3. IsFiniteSet(1..m) /\ Cardinality(1..m) = m
    BY <1>1, FS_Interval
  <1>4. r \in Injection(I, 1..m)
    BY <1>1, <1>2 DEF Injection, IsInjective
  <1>5. r \in Surjection(I, 1..m)
    <2> HIDE DEF r
    <2> QED BY <1>1, <1>3, <1>4, FS_Injection
  <1>6. \A k \in 1..m : \E i \in I : Rank(I, i) = k
    BY <1>5 DEF Surjection
  <1>7. \A k \in 1..m : Kth(I, k) \in I /\ Rank(I, Kth(I, k)) = k
    BY <1>6 DEF Kth
  <1>8. \A i \in I : Kth(I, Rank(I, i)) = i
    BY <1>1, <1>2, <1>7
  <1> QED BY <1>7, <1>8

\* f tells where each element of kept is in seq: at increasing places, all
\* those that hold an element of S.
ComesFrom(f, kept, seq, S) ==
  /\ f \in [1..Len(kept) -> 1..Len(seq)]
  /\ \A k \in 1..Len(kept) : kept[k] = seq[f[k]]
  /\ \A k, l \in 1..Len(kept) : k < l => f[k] < f[l]
  /\ \A i \in 1..Len(seq) : seq[i] \in S => \E k \in 1..Len(kept) : f[k] = i

\* What is kept, told by where it comes from: increasing places of the
\* sequence, all those that hold an element of S.
LEMMA KeepFacts ==
  ASSUME NEW T, NEW seq \in Seq(T), NEW S
  PROVE  /\ Keep(seq, S) \in Seq(T \cap S)
         /\ Len(Keep(seq, S)) <= Len(seq)
         /\ \E f : ComesFrom(f, Keep(seq, S), seq, S)
  <1> DEFINE n == Len(seq)
             I == PlacesOf(seq, S)
             m == Cardinality(I)
             f == [k \in 1..m |-> Kth(I, k)]
  <1>1. n \in Nat /\ I \in SUBSET (1..n)
    BY DEF PlacesOf
  <1>2. /\ m \in 0..n
        /\ \A i \in I : Rank(I, i) \in 1..m
        /\ \A i, j \in I : i < j => Rank(I, i) < Rank(I, j)
    BY <1>1, RankFacts
  <1>3. /\ \A k \in 1..m : Kth(I, k) \in I /\ Rank(I, Kth(I, k)) = k
        /\ \A i \in I : Kth(I, Rank(I, i)) = i
    BY <1>1, KthFacts
  <1>4. \A i \in I : i \in 1..n /\ seq[i] \in T \cap S
    BY DEF PlacesOf
  <1>5. Keep(seq, S) = [k \in 1..m |-> seq[Kth(I, k)]]
    BY <1>1 DEF Keep
  <1>6. \A i \in 1..n : seq[i] \in S => i \in I
    BY DEF PlacesOf
  <1> HIDE DEF I, m, n
  <1>7. Keep(seq, S) \in Seq(T \cap S) /\ Len(Keep(seq, S)) = m
    <2>1. Keep(seq, S) \in [1..m -> T \cap S]
      BY <1>3, <1>4, <1>5
    <2> QED BY <1>2, <2>1, IsASeq, LenProperties
  <1>8. f \in [1..m -> 1..n]
    BY <1>3, <1>4
  <1>9. \A k \in 1..m : Keep(seq, S)[k] = seq[f[k]]
    BY <1>5
  <1>10. ASSUME NEW k \in 1..m, NEW l \in 1..m, k < l PROVE f[k] < f[l]
    <2>1. f[k] \in I /\ f[l] \in I /\ Rank(I, f[k]) = k /\ Rank(I, f[l]) = l
      BY <1>3
    <2>2. f[k] \in 1..n /\ f[l] \in 1..n
      BY <1>4, <2>1
    <2>3. f[k] # f[l] /\ ~(f[l] < f[k])
      BY <1>2, <1>10, <2>1
    <2> HIDE DEF f
    <2> QED BY <1>1, <2>2, <2>3
  <1>11. ASSUME NEW i \in 1..n, seq[i] \in S PROVE \E k \in 1..m : f[k] = i
    <2>1. i \in I
      BY <1>6, <1>11
    <2>2. Rank(I, i) \in 1..m /\ f[Rank(I, i)] = i
      BY <1>2, <1>3, <2>1
    <2> HIDE DEF f
    <2> QED BY <2>2
  <1>12. Len(seq) = n
    BY DEF n
  <1>13. Len(Keep(seq, S)) <= Len(seq)
    BY <1>1, <1>2, <1>7, <1>12
  <1>14. ComesFrom(f, Keep(seq, S), seq, S)
    <2> HIDE DEF f
    <2> QED BY <1>7, <1>8, <1>9, <1>10, <1>11, <1>12 DEF ComesFrom
  <1> QED BY <1>7, <1>13, <1>14

\* The elements kept are those of the sequence that are in the set.
LEMMA KeepElements ==
  ASSUME NEW T, NEW seq \in Seq(T), NEW S
  PROVE  /\ ToSet(Keep(seq, S)) = ToSet(seq) \cap S
         /\ Keep(seq, S) = << >> <=> ToSet(seq) \cap S = {}
  <1> DEFINE kept == Keep(seq, S)
  <1>1. kept \in Seq(T \cap S)
    BY KeepFacts
  <1>2. PICK f : ComesFrom(f, kept, seq, S)
    BY KeepFacts
  <1>3. DOMAIN kept = 1..Len(kept) /\ DOMAIN seq = 1..Len(seq) /\ Len(kept) \in Nat
    BY <1>1
  <1>4. \A k \in 1..Len(kept) : kept[k] \in S
    BY <1>1, ElementOfSeq
  <1> HIDE DEF kept
  <1>5. ToSet(kept) \subseteq ToSet(seq) \cap S
    BY <1>2, <1>3, <1>4 DEF ToSet, ComesFrom
  <1>6. ToSet(seq) \cap S \subseteq ToSet(kept)
    BY <1>2, <1>3 DEF ToSet, ComesFrom
  <1>7. kept = << >> <=> ToSet(kept) = {}
    <2>1. kept = << >> <=> Len(kept) = 0
      BY <1>1, EmptySeq
    <2>2. Len(kept) = 0 <=> 1..Len(kept) = {}
      BY <1>3
    <2>3. ToSet(kept) = {} <=> 1..Len(kept) = {}
      BY <1>3 DEF ToSet
    <2> QED BY <2>1, <2>2, <2>3
  <1> QED BY <1>5, <1>6, <1>7 DEF kept

\* When the first element is kept it stays the first.
LEMMA KeepFirst ==
  ASSUME NEW T, NEW seq \in Seq(T), NEW S, seq # << >>, seq[1] \in S
  PROVE  Keep(seq, S) # << >> /\ Keep(seq, S)[1] = seq[1]
  <1> DEFINE kept == Keep(seq, S)
  <1>1. kept \in Seq(T \cap S)
    BY KeepFacts
  <1>2. PICK f : ComesFrom(f, kept, seq, S)
    BY KeepFacts
  <1>3. Len(kept) \in Nat /\ Len(seq) \in Nat /\ 1 \in 1..Len(seq)
    BY <1>1, EmptySeq
  <1> HIDE DEF kept
  <1>4. PICK k \in 1..Len(kept) : f[k] = 1
    BY <1>2, <1>3 DEF ComesFrom
  <1>5. 1 \in 1..Len(kept) /\ f[1] \in 1..Len(seq)
    BY <1>2, <1>3, <1>4 DEF ComesFrom
  <1>6. k = 1
    <2>1. ~(1 < k)
      BY <1>2, <1>3, <1>4, <1>5 DEF ComesFrom
    <2> QED BY <1>3, <1>4, <2>1
  <1>7. kept[1] = seq[1] /\ kept # << >>
    BY <1>2, <1>3, <1>4, <1>5, <1>6 DEF ComesFrom
  <1> QED BY <1>7 DEF kept

\* Each element of seq is there once.
Distinct(seq) == \A i, j \in 1..Len(seq) : seq[i] = seq[j] => i = j

\* What is kept of such a sequence is such a sequence.
LEMMA KeepDistinct ==
  ASSUME NEW T, NEW seq \in Seq(T), NEW S, Distinct(seq)
  PROVE  Distinct(Keep(seq, S))
  <1> DEFINE kept == Keep(seq, S)
  <1>1. kept \in Seq(T \cap S)
    BY KeepFacts
  <1>2. PICK f : ComesFrom(f, kept, seq, S)
    BY KeepFacts
  <1>3. Len(kept) \in Nat /\ Len(seq) \in Nat
    BY <1>1
  <1> HIDE DEF kept
  <1>4. ASSUME NEW k \in 1..Len(kept), NEW l \in 1..Len(kept), kept[k] = kept[l]
        PROVE  k = l
    <2>1. f[k] \in 1..Len(seq) /\ f[l] \in 1..Len(seq) /\ seq[f[k]] = seq[f[l]]
      BY <1>2, <1>4 DEF ComesFrom
    <2>2. f[k] = f[l]
      BY <2>1 DEF Distinct
    <2>3. ~(k < l) /\ ~(l < k)
      BY <1>2, <1>3, <2>1, <2>2 DEF ComesFrom
    <2> QED BY <1>3, <2>3
  <1> QED BY <1>4 DEF kept, Distinct

\* The elements of a sequence, as a set and by index.
LEMMA SeqElements ==
  ASSUME NEW T, NEW seq \in Seq(T)
  PROVE  /\ Len(seq) \in Nat /\ DOMAIN seq = 1..Len(seq)
         /\ \A i \in 1..Len(seq) : seq[i] \in T /\ seq[i] \in ToSet(seq)
         /\ ToSet(seq) \subseteq T
         /\ \A x \in ToSet(seq) : \E i \in 1..Len(seq) : seq[i] = x
         /\ \A x : Contains(seq, x) <=> x \in ToSet(seq)
         /\ seq = << >> <=> Len(seq) = 0
         /\ seq = << >> <=> ToSet(seq) = {}
  <1>1. Len(seq) \in Nat /\ DOMAIN seq = 1..Len(seq) /\ \A i \in 1..Len(seq) : seq[i] \in T
    BY ElementOfSeq
  <1>2. \A x : x \in ToSet(seq) <=> \E i \in 1..Len(seq) : seq[i] = x
    BY <1>1 DEF ToSet
  <1>3. \A x : Contains(seq, x) <=> x \in ToSet(seq)
    BY <1>2 DEF Contains
  <1>4. seq = << >> <=> Len(seq) = 0
    BY EmptySeq
  <1>5. Len(seq) = 0 <=> 1..Len(seq) = {}
    <2>1. \A n \in Nat : n = 0 <=> 1..n = {}
      <3> SUFFICES ASSUME NEW n \in Nat PROVE n = 0 <=> 1..n = {}
        OBVIOUS
      <3>1. n # 0 => 1 \in 1..n
        OBVIOUS
      <3>2. n = 0 => 1..n = {}
        OBVIOUS
      <3> QED BY <3>1, <3>2
    <2> QED BY <1>1, <2>1
  <1>6. ToSet(seq) = {} <=> 1..Len(seq) = {}
    BY <1>2
  <1> QED BY <1>1, <1>2, <1>3, <1>4, <1>5, <1>6

\* A sequence of distinct elements is as long as they are many.
LEMMA DistinctLength ==
  ASSUME NEW T, NEW seq \in Seq(T), Distinct(seq)
  PROVE  Len(seq) = Cardinality(ToSet(seq)) /\ IsFiniteSet(ToSet(seq))
  <1> DEFINE n == Len(seq)
             f == [i \in 1..n |-> seq[i]]
  <1>1. n \in Nat /\ \A i \in 1..n : seq[i] \in ToSet(seq)
    BY SeqElements
  <1>2. \A x \in ToSet(seq) : \E i \in 1..n : seq[i] = x
    BY SeqElements
  <1>3. IsFiniteSet(1..n) /\ Cardinality(1..n) = n
    <2>1. \A k \in Nat : IsFiniteSet(1..k) /\ Cardinality(1..k) = k
      BY FS_Interval
    <2> QED BY <1>1, <2>1
  <1>4. f \in Injection(1..n, ToSet(seq))
    BY <1>1 DEF Injection, IsInjective, Distinct
  <1>5. f \in Surjection(1..n, ToSet(seq))
    BY <1>1, <1>2 DEF Surjection
  <1> HIDE DEF f, n
  <1>6. IsFiniteSet(ToSet(seq)) /\ Cardinality(ToSet(seq)) = Cardinality(1..n)
    BY <1>3, <1>4, <1>5, FS_Surjection
  <1> QED BY <1>3, <1>6 DEF n

\* A sequence of distinct elements and one more that it does not hold.
LEMMA AppendDistinct ==
  ASSUME NEW T, NEW seq \in Seq(T), Distinct(seq), NEW x \in T, x \notin ToSet(seq)
  PROVE  /\ Append(seq, x) \in Seq(T) /\ Len(Append(seq, x)) = Len(seq) + 1
         /\ Distinct(Append(seq, x))
         /\ ToSet(Append(seq, x)) = ToSet(seq) \cup {x}
  <1> DEFINE longer == Append(seq, x)
  <1>1. /\ longer \in Seq(T) /\ Len(longer) = Len(seq) + 1
        /\ \A i \in 1..Len(seq) : longer[i] = seq[i]
        /\ longer[Len(seq) + 1] = x
    BY AppendProperties
  <1>2. /\ Len(seq) \in Nat
        /\ \A i \in 1..Len(seq) : seq[i] \in ToSet(seq)
        /\ \A y \in ToSet(seq) : \E i \in 1..Len(seq) : seq[i] = y
    BY SeqElements
  <1>3. /\ \A i \in 1..Len(longer) : longer[i] \in ToSet(longer)
        /\ \A y \in ToSet(longer) : \E i \in 1..Len(longer) : longer[i] = y
    BY <1>1, SeqElements
  <1> HIDE DEF longer
  <1>4. \A i \in 1..Len(longer) : i \in 1..Len(seq) \/ i = Len(seq) + 1
    BY <1>1, <1>2
  <1>5. ToSet(longer) = ToSet(seq) \cup {x}
    <2>1. ToSet(longer) \subseteq ToSet(seq) \cup {x}
      BY <1>1, <1>2, <1>3, <1>4
    <2>2. \A i \in 1..Len(seq) : i \in 1..Len(longer)
      BY <1>1, <1>2
    <2>3. Len(seq) + 1 \in 1..Len(longer)
      BY <1>1, <1>2
    <2> QED BY <1>1, <1>2, <1>3, <2>1, <2>2, <2>3
  <1>6. Distinct(longer)
    <2> SUFFICES ASSUME NEW i \in 1..Len(longer), NEW j \in 1..Len(longer), longer[i] = longer[j]
                 PROVE  i = j
      BY DEF Distinct
    <2>1. CASE i \in 1..Len(seq) /\ j \in 1..Len(seq)
      BY <1>1, <2>1 DEF Distinct
    <2>2. CASE i = Len(seq) + 1 \/ j = Len(seq) + 1
      BY <1>1, <1>2, <1>4, <2>2
    <2> QED BY <1>4, <2>1, <2>2
  <1> QED BY <1>1, <1>5, <1>6 DEF longer

\* A sequence over a set is one over any larger set.
LEMMA SeqMonotone ==
  ASSUME NEW T, NEW U, T \subseteq U, NEW seq \in Seq(T)
  PROVE  seq \in Seq(U)
  <1>1. Len(seq) \in Nat /\ seq \in [1..Len(seq) -> T]
    BY LenProperties
  <1>2. seq \in [1..Len(seq) -> U]
    BY <1>1
  <1> QED BY <1>1, <1>2, IsASeq

(***************************************************************************)
(* Sums over finite sets                                                   *)
(***************************************************************************)

\* Induction over the subsets of a finite set: Good holds all of them when
\* it holds each of which it holds the smaller subsets.
LEMMA SubsetInduction ==
  ASSUME NEW S, IsFiniteSet(S), NEW Good,
         \A T \in SUBSET S : (\A U \in SUBSET T : U # T => U \in Good) => T \in Good
  PROVE  SUBSET S \subseteq Good
  <1> DEFINE R == StrictSubsetOrdering(S)
             Bad == (SUBSET S) \ Good
  <1> SUFFICES ASSUME Bad # {} PROVE FALSE
    OBVIOUS
  <1>1. IsWellFoundedOn(R, FiniteSubsetsOf(S))
    BY FS_StrictSubsetOrderingWellFounded
  <1>2. Bad \subseteq FiniteSubsetsOf(S)
    BY FS_Subset DEF FiniteSubsetsOf
  <1>3. PICK T \in Bad : \A U \in Bad : ~(<<U, T>> \in R)
    <2> HIDE DEF Bad, R
    <2> QED BY <1>1, <1>2, WFMin
  <1>4. PICK U \in SUBSET T : U # T /\ U \notin Good
    OBVIOUS
  <1>5. U \in Bad /\ <<U, T>> \in R
    BY <1>4 DEF StrictSubsetOrdering
  <1> QED BY <1>3, <1>5

\* The element of a set that a fold takes first.
AnyOf(s) == CHOOSE x \in s : TRUE

\* g adds up the weights of each subset of S, one element after the other.
AddsUp(g, w, S) ==
  g = [s \in SUBSET S |-> IF s = {} THEN 0 ELSE w[AnyOf(s)] + g[s \ {AnyOf(s)}]]

\* Taking any element first adds up to the same natural number.
LEMMA AddsUpFacts ==
  ASSUME NEW S, IsFiniteSet(S), NEW w, \A x \in S : w[x] \in Nat, NEW g, AddsUp(g, w, S)
  PROVE  /\ g[{}] = 0
         /\ \A T \in SUBSET S : g[T] \in Nat /\ \A x \in T : g[T] = w[x] + g[T \ {x}]
  <1> DEFINE Good == {T \in SUBSET S : g[T] \in Nat /\ \A x \in T : g[T] = w[x] + g[T \ {x}]}
  <1>1. \A T \in SUBSET S : g[T] = IF T = {} THEN 0 ELSE w[AnyOf(T)] + g[T \ {AnyOf(T)}]
    BY DEF AddsUp
  <1>2. g[{}] = 0
    BY <1>1
  <1>3. ASSUME NEW T \in SUBSET S, \A U \in SUBSET T : U # T => U \in Good PROVE T \in Good
    <2>1. CASE T = {}
      BY <1>2, <2>1
    <2>2. CASE T # {}
      <3> DEFINE p == AnyOf(T)
      <3>1. p \in T /\ p \in S /\ w[p] \in Nat
        BY <2>2 DEF AnyOf
      <3>2. g[T] = w[p] + g[T \ {p}]
        BY <1>1, <2>2
      <3> HIDE DEF p
      <3>3. g[T \ {p}] \in Nat
        BY <1>3, <3>1
      <3>4. ASSUME NEW x \in T, x # p PROVE g[T] = w[x] + g[T \ {x}]
        <4>1. x \in T \ {p} /\ p \in T \ {x} /\ (T \ {p}) \ {x} = (T \ {x}) \ {p}
          BY <3>1, <3>4
        <4>2. g[T \ {p}] = w[x] + g[(T \ {p}) \ {x}]
          BY <1>3, <3>1, <4>1
        <4>3. g[T \ {x}] = w[p] + g[(T \ {x}) \ {p}] /\ g[T \ {x}] \in Nat
          BY <1>3, <4>1
        <4>4. w[x] \in Nat /\ g[(T \ {x}) \ {p}] \in Nat
          <5>1. (T \ {x}) \ {p} \in SUBSET T /\ (T \ {x}) \ {p} # T
            BY <3>1
          <5> QED BY <1>3, <5>1
        <4>5. g[T] = w[p] + g[T \ {p}] /\ g[T \ {p}] = w[x] + g[(T \ {x}) \ {p}]
          BY <3>2, <4>1, <4>2
        <4>6. w[x] + g[T \ {x}] = w[p] + (w[x] + g[(T \ {x}) \ {p}])
          BY <3>1, <4>3, <4>4
        <4>7. g[T] = w[p] + (w[x] + g[(T \ {x}) \ {p}])
          BY ONLY <4>5, Zenon
        <4> QED BY ONLY <4>6, <4>7, Zenon
      <3>5. g[T] \in Nat
        BY ONLY <3>1, <3>2, <3>3
      <3>6. \A x \in T : g[T] = w[x] + g[T \ {x}]
        BY ONLY <3>2, <3>4, Zenon
      <3> QED BY <3>5, <3>6
    <2> QED BY <2>1, <2>2
  <1>4. SUBSET S \subseteq Good
    <2> HIDE DEF Good
    <2> QED BY <1>3, SubsetInduction
  <1> QED BY <1>2, <1>4

\* The subsets of a subset have the same sums.
LEMMA AddsUpAgree ==
  ASSUME NEW S, IsFiniteSet(S), NEW T \in SUBSET S, NEW w, NEW v,
         \A x \in T : w[x] = v[x],
         NEW g, AddsUp(g, w, S), NEW h, AddsUp(h, v, T)
  PROVE  \A U \in SUBSET T : g[U] = h[U]
  <1> DEFINE Good == {U \in SUBSET T : g[U] = h[U]}
  <1>1. IsFiniteSet(T)
    BY FS_Subset
  <1>2. \A U \in SUBSET S : g[U] = IF U = {} THEN 0 ELSE w[AnyOf(U)] + g[U \ {AnyOf(U)}]
    BY DEF AddsUp
  <1>3. \A U \in SUBSET T : h[U] = IF U = {} THEN 0 ELSE v[AnyOf(U)] + h[U \ {AnyOf(U)}]
    BY DEF AddsUp
  <1>4. ASSUME NEW U \in SUBSET T, \A V \in SUBSET U : V # U => V \in Good PROVE U \in Good
    <2>1. CASE U = {}
      BY <1>2, <1>3, <2>1
    <2>2. CASE U # {}
      <3>1. AnyOf(U) \in U
        BY <2>2 DEF AnyOf
      <3>2. g[U \ {AnyOf(U)}] = h[U \ {AnyOf(U)}] /\ w[AnyOf(U)] = v[AnyOf(U)]
        BY <1>4, <3>1
      <3>3. g[U] = w[AnyOf(U)] + g[U \ {AnyOf(U)}] /\ h[U] = v[AnyOf(U)] + h[U \ {AnyOf(U)}]
        BY <1>2, <1>3, <2>2
      <3>4. g[U] = h[U]
        BY ONLY <3>2, <3>3, Zenon
      <3> QED BY <3>4
    <2> QED BY <2>1, <2>2
  <1>5. SUBSET T \subseteq Good
    <2> HIDE DEF Good
    <2> QED BY <1>1, <1>4, SubsetInduction
  <1> QED BY <1>5

\* There is such a g.
LEMMA AddsUpExists ==
  ASSUME NEW S, IsFiniteSet(S), NEW w
  PROVE  \E g : AddsUp(g, w, S)
  <1> DEFINE Good == {T \in SUBSET S : \E g : AddsUp(g, w, T)}
             sum(T) == CHOOSE g : AddsUp(g, w, T)
  <1>1. ASSUME NEW T \in SUBSET S, \A U \in SUBSET T : U # T => U \in Good PROVE T \in Good
    <2> DEFINE below(U) == IF U = {} THEN 0 ELSE w[AnyOf(U)] + sum(U \ {AnyOf(U)})[U \ {AnyOf(U)}]
               g == [U \in SUBSET T |-> below(U)]
    <2>1. \A U \in SUBSET T : U # T => AddsUp(sum(U), w, U)
      BY <1>1
    <2>2. \A U \in SUBSET T : U # {} => AnyOf(U) \in U
      BY DEF AnyOf
    <2>3. ASSUME NEW U \in SUBSET T, U # T PROVE g[U] = sum(U)[U]
      <3> HIDE DEF sum
      <3>1. sum(U)[U] = IF U = {} THEN 0 ELSE w[AnyOf(U)] + sum(U)[U \ {AnyOf(U)}]
        BY <2>1, <2>3 DEF AddsUp
      <3>2. CASE U = {}
        BY <3>1, <3>2
      <3>3. CASE U # {}
        <4> DEFINE V == U \ {AnyOf(U)}
        <4>1. V \in SUBSET U /\ V \in SUBSET T /\ V # T
          BY <2>2, <3>3
        <4>2. AddsUp(sum(U), w, U) /\ AddsUp(sum(V), w, V) /\ IsFiniteSet(U)
          BY <2>1, <2>3, <4>1, FS_Subset
        <4> HIDE DEF V
        <4>3. sum(U)[V] = sum(V)[V]
          BY <4>1, <4>2, AddsUpAgree
        <4> QED BY <3>1, <3>3, <4>3 DEF V
      <3> QED BY <3>2, <3>3
    <2>4. ASSUME NEW U \in SUBSET T
          PROVE  g[U] = IF U = {} THEN 0 ELSE w[AnyOf(U)] + g[U \ {AnyOf(U)}]
      <3>1. CASE U = {}
        BY <3>1
      <3>2. CASE U # {}
        <4>1. U \ {AnyOf(U)} \in SUBSET T /\ U \ {AnyOf(U)} # T
          BY <2>2, <3>2
        <4>2. g[U \ {AnyOf(U)}] = sum(U \ {AnyOf(U)})[U \ {AnyOf(U)}]
          <5> HIDE DEF g, sum
          <5> QED BY <2>3, <4>1
        <4>3. g[U] = w[AnyOf(U)] + sum(U \ {AnyOf(U)})[U \ {AnyOf(U)}]
          BY <3>2
        <4> HIDE DEF g, sum
        <4> QED BY <3>2, <4>2, <4>3
      <3> QED BY <3>1, <3>2
    <2>5. g = [U \in SUBSET T |-> IF U = {} THEN 0 ELSE w[AnyOf(U)] + g[U \ {AnyOf(U)}]]
      <3>1. g = [U \in SUBSET T |-> g[U]]
        OBVIOUS
      <3> HIDE DEF g, sum
      <3> QED BY <2>4, <3>1
    <2>6. AddsUp(g, w, T)
      <3> HIDE DEF g
      <3> QED BY <2>5 DEF AddsUp
    <2> HIDE DEF g
    <2> QED BY <2>6
  <1>2. SUBSET S \subseteq Good
    <2> HIDE DEF Good
    <2> QED BY <1>1, SubsetInduction
  <1> QED BY <1>2

\* The sum of the weights of the elements of a finite set.
SumOf(w, S) == (CHOOSE g : AddsUp(g, w, S))[S]

\* What adds up the weights of a set gives its sum.
LEMMA AddsUpSum ==
  ASSUME NEW S, IsFiniteSet(S), NEW w, NEW g, AddsUp(g, w, S)
  PROVE  \A T \in SUBSET S : SumOf(w, T) = g[T]
  <1> SUFFICES ASSUME NEW T \in SUBSET S PROVE SumOf(w, T) = g[T]
    OBVIOUS
  <1> DEFINE h == CHOOSE h : AddsUp(h, w, T)
  <1>1. AddsUp(h, w, T)
    BY FS_Subset, AddsUpExists
  <1> HIDE DEF h
  <1>2. g[T] = h[T]
    BY <1>1, AddsUpAgree
  <1> QED BY <1>2 DEF SumOf, h

\* A sum is a natural number, whatever element is taken first.
LEMMA SumFacts ==
  ASSUME NEW S, IsFiniteSet(S), NEW w, \A x \in S : w[x] \in Nat
  PROVE  /\ SumOf(w, {}) = 0
         /\ \A T \in SUBSET S :
              SumOf(w, T) \in Nat /\ \A x \in T : SumOf(w, T) = w[x] + SumOf(w, T \ {x})
  <1>1. PICK g : AddsUp(g, w, S)
    BY AddsUpExists
  <1>2. \A T \in SUBSET S : SumOf(w, T) = g[T]
    BY <1>1, AddsUpSum
  <1>3. /\ g[{}] = 0
        /\ \A T \in SUBSET S : g[T] \in Nat /\ \A x \in T : g[T] = w[x] + g[T \ {x}]
    BY <1>1, AddsUpFacts
  <1>4. SumOf(w, {}) = 0
    BY <1>2, <1>3
  <1>5. ASSUME NEW T \in SUBSET S
        PROVE  SumOf(w, T) \in Nat /\ \A x \in T : SumOf(w, T) = w[x] + SumOf(w, T \ {x})
    <2>1. SumOf(w, T) \in Nat
      BY <1>2, <1>3
    <2>2. ASSUME NEW x \in T PROVE SumOf(w, T) = w[x] + SumOf(w, T \ {x})
      <3>1. T \ {x} \in SUBSET S
        OBVIOUS
      <3>2. SumOf(w, T) = g[T] /\ SumOf(w, T \ {x}) = g[T \ {x}] /\ g[T] = w[x] + g[T \ {x}]
        BY <1>2, <1>3, <3>1
      <3> QED BY ONLY <3>2, Zenon
    <2> QED BY <2>1, <2>2
  <1> QED BY <1>4, <1>5

\* A sum is that of a part and that of the rest.
LEMMA SumSplit ==
  ASSUME NEW S, IsFiniteSet(S), NEW w, \A x \in S : w[x] \in Nat, NEW R \in SUBSET S
  PROVE  SumOf(w, S) = SumOf(w, R) + SumOf(w, S \ R)
  <1> DEFINE Good == {T \in SUBSET S : SumOf(w, T) = SumOf(w, T \cap R) + SumOf(w, T \ R)}
  <1>1. /\ SumOf(w, {}) = 0
        /\ \A T \in SUBSET S :
             SumOf(w, T) \in Nat /\ \A x \in T : SumOf(w, T) = w[x] + SumOf(w, T \ {x})
    BY SumFacts
  <1>2. ASSUME NEW T \in SUBSET S, \A U \in SUBSET T : U # T => U \in Good PROVE T \in Good
    <2>1. CASE T = {}
      <3>1. T \cap R = {} /\ T \ R = {}
        BY <2>1
      <3> QED BY <1>1, <2>1, <3>1
    <2>2. CASE T # {}
      <3>1. PICK x \in T : TRUE
        BY <2>2
      <3> DEFINE t == SumOf(w, T)
                 a == SumOf(w, T \cap R)
                 b == SumOf(w, T \ R)
                 c == SumOf(w, T \ {x})
                 d == SumOf(w, (T \ {x}) \cap R)
                 e == SumOf(w, (T \ {x}) \ R)
      <3>2. t = w[x] + c /\ w[x] \in Nat
        BY <1>1
      <3>3. c = d + e
        BY <1>2
      <3>4. a \in Nat /\ b \in Nat /\ d \in Nat /\ e \in Nat
        BY <1>1
      <3>5. CASE x \in R
        <4>1. a = w[x] + d
          <5>1. (T \cap R) \ {x} = (T \ {x}) \cap R /\ x \in T \cap R
            BY <3>5
          <5> QED BY <1>1, <5>1
        <4>2. b = e
          <5>1. T \ R = (T \ {x}) \ R
            BY <3>5
          <5> QED BY <5>1
        <4>3. t = a + b
          <5> HIDE DEF a, b, c, d, e, t
          <5> QED BY <3>2, <3>3, <3>4, <4>1, <4>2
        <4> QED BY <4>3
      <3>6. CASE x \notin R
        <4>1. b = w[x] + e
          <5>1. (T \ R) \ {x} = (T \ {x}) \ R /\ x \in T \ R
            BY <3>6
          <5> QED BY <1>1, <5>1
        <4>2. a = d
          <5>1. T \cap R = (T \ {x}) \cap R
            BY <3>6
          <5> QED BY <5>1
        <4>3. t = a + b
          <5> HIDE DEF a, b, c, d, e, t
          <5> QED BY <3>2, <3>3, <3>4, <4>1, <4>2
        <4> QED BY <4>3
      <3> QED BY <3>5, <3>6
    <2> QED BY <2>1, <2>2
  <1>3. SUBSET S \subseteq Good
    <2> HIDE DEF Good
    <2> QED BY <1>2, SubsetInduction
  <1>4. S \in Good /\ S \cap R = R
    BY <1>3
  <1> QED BY <1>4

\* Elements of a weight of k at least are worth as many times k.
LEMMA SumAtLeast ==
  ASSUME NEW S, IsFiniteSet(S), NEW w, NEW k \in Nat, \A x \in S : w[x] \in Nat /\ w[x] >= k
  PROVE  SumOf(w, S) >= Cardinality(S) * k
  <1> DEFINE Good == {T \in SUBSET S : SumOf(w, T) >= Cardinality(T) * k}
  <1>1. /\ SumOf(w, {}) = 0
        /\ \A T \in SUBSET S :
             SumOf(w, T) \in Nat /\ \A x \in T : SumOf(w, T) = w[x] + SumOf(w, T \ {x})
    BY SumFacts
  <1>2. ASSUME NEW T \in SUBSET S, \A U \in SUBSET T : U # T => U \in Good PROVE T \in Good
    <2>1. IsFiniteSet(T)
      BY FS_Subset
    <2>2. CASE T = {}
      <3>1. Cardinality(T) = 0 /\ SumOf(w, T) = 0 /\ 0 * k = 0
        BY <1>1, <2>2, FS_EmptySet
      <3> QED BY <3>1
    <2>3. CASE T # {}
      <3>1. PICK x \in T : TRUE
        BY <2>3
      <3>2. /\ IsFiniteSet(T \ {x}) /\ Cardinality(T \ {x}) = Cardinality(T) - 1
            /\ Cardinality(T) \in Nat /\ Cardinality(T \ {x}) \in Nat
        BY <2>1, FS_RemoveElement, FS_CardinalityType
      <3>3. SumOf(w, T \ {x}) >= Cardinality(T \ {x}) * k /\ SumOf(w, T \ {x}) \in Nat
        BY <1>1, <1>2
      <3>4. SumOf(w, T) = w[x] + SumOf(w, T \ {x}) /\ w[x] \in Nat /\ w[x] >= k
        BY <1>1
      <3>5. \A n, m, v, r \in Nat : m = n - 1 /\ r >= m * k /\ v >= k => v + r >= n * k
        <4>1. \A m \in Nat : (m + 1) * k = m * k + k /\ m * k \in Nat
          OBVIOUS
        <4> SUFFICES ASSUME NEW n \in Nat, NEW m \in Nat, NEW v \in Nat, NEW r \in Nat,
                            m = n - 1, r >= m * k, v >= k
                     PROVE  v + r >= n * k
          OBVIOUS
        <4>2. n = m + 1
          OBVIOUS
        <4>3. n * k = m * k + k /\ m * k \in Nat
          BY <4>1, <4>2
        <4> QED BY <4>3
      <3>6. w[x] + SumOf(w, T \ {x}) >= Cardinality(T) * k
        BY <3>2, <3>3, <3>4, <3>5
      <3> QED BY <3>4, <3>6
    <2> QED BY <2>2, <2>3
  <1>3. SUBSET S \subseteq Good
    <2> HIDE DEF Good
    <2> QED BY <1>2, SubsetInduction
  <1>4. S \in Good
    BY <1>3
  <1> QED BY <1>4

\* Of two sets of as many elements one is worth more if each of its elements is.
LEMMA SumCompare ==
  ASSUME NEW S, IsFiniteSet(S), NEW T, IsFiniteSet(T), Cardinality(S) = Cardinality(T),
         NEW w, \A x \in S \cup T : w[x] \in Nat, \A x \in S, y \in T : w[x] >= w[y]
  PROVE  SumOf(w, S) >= SumOf(w, T)
  <1> DEFINE Good == {U \in SUBSET S : \A V \in SUBSET T :
                        Cardinality(U) = Cardinality(V) => SumOf(w, U) >= SumOf(w, V)}
  <1>1. /\ SumOf(w, {}) = 0
        /\ \A U \in SUBSET S :
             SumOf(w, U) \in Nat /\ \A x \in U : SumOf(w, U) = w[x] + SumOf(w, U \ {x})
    BY SumFacts
  <1>2. \A V \in SUBSET T :
          SumOf(w, V) \in Nat /\ \A y \in V : SumOf(w, V) = w[y] + SumOf(w, V \ {y})
    BY SumFacts
  <1>3. ASSUME NEW U \in SUBSET S, \A X \in SUBSET U : X # U => X \in Good PROVE U \in Good
    <2> SUFFICES ASSUME NEW V \in SUBSET T, Cardinality(U) = Cardinality(V)
                 PROVE  SumOf(w, U) >= SumOf(w, V)
      OBVIOUS
    <2>1. IsFiniteSet(U) /\ IsFiniteSet(V)
      BY FS_Subset
    <2>2. CASE U = {}
      <3>1. V = {}
        BY <2>1, <2>2, FS_EmptySet
      <3> QED BY <1>1, <2>2, <3>1
    <2>3. CASE U # {}
      <3>1. V # {}
        BY <2>1, <2>3, FS_EmptySet
      <3>2. PICK x \in U : TRUE
        BY <2>3
      <3>3. PICK y \in V : TRUE
        BY <3>1
      <3>4. Cardinality(U \ {x}) = Cardinality(V \ {y})
        <4>1. Cardinality(U \ {x}) = Cardinality(U) - 1
          BY <2>1, FS_RemoveElement
        <4>2. Cardinality(V \ {y}) = Cardinality(V) - 1
          BY <2>1, FS_RemoveElement
        <4> QED BY <4>1, <4>2
      <3>5. SumOf(w, U \ {x}) >= SumOf(w, V \ {y})
        BY <1>3, <3>4
      <3>6. SumOf(w, U) = w[x] + SumOf(w, U \ {x}) /\ SumOf(w, U \ {x}) \in Nat
        BY <1>1
      <3>7. SumOf(w, V) = w[y] + SumOf(w, V \ {y}) /\ SumOf(w, V \ {y}) \in Nat
        BY <1>2
      <3>8. w[x] \in Nat /\ w[y] \in Nat /\ w[x] >= w[y]
        OBVIOUS
      <3>9. w[x] + SumOf(w, U \ {x}) >= w[y] + SumOf(w, V \ {y})
        BY <3>5, <3>6, <3>7, <3>8
      <3> QED BY <3>6, <3>7, <3>9
    <2> QED BY <2>2, <2>3
  <1>4. SUBSET S \subseteq Good
    <2> HIDE DEF Good
    <2> QED BY <1>3, SubsetInduction
  <1>5. S \in Good
    BY <1>4
  <1> QED BY <1>5

\* Equal weights have equal sums.
LEMMA SumSame ==
  ASSUME NEW S, IsFiniteSet(S), NEW w, NEW v, \A x \in S : w[x] = v[x]
  PROVE  SumOf(w, S) = SumOf(v, S)
  <1>1. PICK g : AddsUp(g, w, S)
    BY AddsUpExists
  <1>2. PICK h : AddsUp(h, v, S)
    BY AddsUpExists
  <1>3. g[S] = h[S]
    <2>1. S \in SUBSET S
      OBVIOUS
    <2>2. \A U \in SUBSET S : g[U] = h[U]
      BY ONLY IsFiniteSet(S), \A x \in S : w[x] = v[x], <1>1, <1>2, <2>1, AddsUpAgree
    <2> QED BY <2>1, <2>2
  <1>4. SumOf(w, S) = g[S] /\ SumOf(v, S) = h[S]
    BY <1>1, <1>2, AddsUpSum
  <1> QED BY <1>3, <1>4

\* The sum of sums.
LEMMA SumAdd ==
  ASSUME NEW S, IsFiniteSet(S), NEW u, NEW v, NEW w,
         \A x \in S : u[x] \in Nat /\ v[x] \in Nat /\ w[x] = u[x] + v[x]
  PROVE  SumOf(w, S) = SumOf(u, S) + SumOf(v, S)
  <1> DEFINE Good == {T \in SUBSET S : SumOf(w, T) = SumOf(u, T) + SumOf(v, T)}
  <1>1. /\ SumOf(w, {}) = 0
        /\ \A T \in SUBSET S :
             SumOf(w, T) \in Nat /\ \A x \in T : SumOf(w, T) = w[x] + SumOf(w, T \ {x})
    BY SumFacts
  <1>2. /\ SumOf(u, {}) = 0
        /\ \A T \in SUBSET S :
             SumOf(u, T) \in Nat /\ \A x \in T : SumOf(u, T) = u[x] + SumOf(u, T \ {x})
    BY SumFacts
  <1>3. /\ SumOf(v, {}) = 0
        /\ \A T \in SUBSET S :
             SumOf(v, T) \in Nat /\ \A x \in T : SumOf(v, T) = v[x] + SumOf(v, T \ {x})
    BY SumFacts
  <1>4. ASSUME NEW T \in SUBSET S, \A U \in SUBSET T : U # T => U \in Good PROVE T \in Good
    <2>1. CASE T = {}
      BY <1>1, <1>2, <1>3, <2>1
    <2>2. CASE T # {}
      <3>1. PICK x \in T : TRUE
        BY <2>2
      <3> DEFINE U == T \ {x}
      <3>2. U \in SUBSET T /\ U # T /\ U \in SUBSET S
        OBVIOUS
      <3>3. SumOf(w, U) = SumOf(u, U) + SumOf(v, U)
        BY <1>4, <3>2
      <3>4. SumOf(w, T) = w[x] + SumOf(w, U) /\ SumOf(u, T) = u[x] + SumOf(u, U)
            /\ SumOf(v, T) = v[x] + SumOf(v, U)
        BY <1>1, <1>2, <1>3
      <3>5. SumOf(u, U) \in Nat /\ SumOf(v, U) \in Nat /\ u[x] \in Nat /\ v[x] \in Nat /\ w[x] = u[x] + v[x]
        BY <1>2, <1>3, <3>2
      <3> HIDE DEF U
      <3> QED BY <3>3, <3>4, <3>5
    <2> QED BY <2>1, <2>2
  <1>5. SUBSET S \subseteq Good
    <2> HIDE DEF Good
    <2> QED BY <1>4, SubsetInduction
  <1> QED BY <1>5

\* Weights of 0 add up to 0.
LEMMA SumZero ==
  ASSUME NEW S, IsFiniteSet(S), NEW w, \A x \in S : w[x] = 0
  PROVE  SumOf(w, S) = 0
  <1>1. \A x \in S : w[x] \in Nat /\ w[x] = w[x] + w[x]
    OBVIOUS
  <1>2. SumOf(w, S) = SumOf(w, S) + SumOf(w, S)
    BY <1>1, SumAdd
  <1>3. SumOf(w, S) \in Nat
    BY <1>1, SumFacts
  <1>4. \A n \in Nat : n = n + n => n = 0
    OBVIOUS
  <1> QED BY ONLY <1>2, <1>3, <1>4, Zenon

\* The sum over sets that have nothing in common is that over their union.
LEMMA SumUnion ==
  ASSUME NEW S, IsFiniteSet(S), NEW A, IsFiniteSet(A), NEW w, \A a \in A : w[a] \in Nat,
         NEW F, \A x \in S : F[x] \in SUBSET A,
         \A x, y \in S : x # y => F[x] \cap F[y] = {},
         NEW v, \A x \in S : v[x] = SumOf(w, F[x])
  PROVE  SumOf(v, S) = SumOf(w, UNION {F[x] : x \in S})
  <1> DEFINE All(T) == UNION {F[x] : x \in T}
             Good == {T \in SUBSET S : SumOf(v, T) = SumOf(w, All(T))}
  <1>1. /\ SumOf(w, {}) = 0
        /\ \A T \in SUBSET A : SumOf(w, T) \in Nat
    BY SumFacts
  <1>2. \A x \in S : v[x] \in Nat
    BY <1>1
  <1>3. /\ SumOf(v, {}) = 0
        /\ \A T \in SUBSET S : \A x \in T : SumOf(v, T) = v[x] + SumOf(v, T \ {x})
    BY <1>2, SumFacts
  <1>4. ASSUME NEW T \in SUBSET S, \A U \in SUBSET T : U # T => U \in Good PROVE T \in Good
    <2>1. CASE T = {}
      <3>1. All(T) = {}
        BY <2>1
      <3> QED BY <1>1, <1>3, <2>1, <3>1
    <2>2. CASE T # {}
      <3>1. PICK x \in T : TRUE
        BY <2>2
      <3> DEFINE U == T \ {x}
      <3>2. U \in SUBSET T /\ U # T
        OBVIOUS
      <3>3. SumOf(v, U) = SumOf(w, All(U))
        BY <1>4, <3>2
      <3>4. SumOf(v, T) = v[x] + SumOf(v, U) /\ v[x] = SumOf(w, F[x])
        BY <1>3
      <3>5. All(T) \in SUBSET A /\ F[x] \in SUBSET All(T) /\ All(T) \ F[x] = All(U)
        <4>1. \A y \in U : F[y] \cap F[x] = {}
          OBVIOUS
        <4>2. All(T) \in SUBSET A
          OBVIOUS
        <4>3. F[x] \in SUBSET All(T)
          OBVIOUS
        <4>4. ASSUME NEW a \in All(T) \ F[x] PROVE a \in All(U)
          <5>1. PICK y \in T : a \in F[y]
            OBVIOUS
          <5> QED BY <5>1
        <4>5. ASSUME NEW a \in All(U) PROVE a \in All(T) \ F[x]
          <5>1. PICK y \in U : a \in F[y]
            OBVIOUS
          <5> QED BY <4>1, <5>1
        <4> QED BY <4>2, <4>3, <4>4, <4>5
      <3>6. IsFiniteSet(All(T)) /\ \A a \in All(T) : w[a] \in Nat
        BY <3>5, FS_Subset
      <3> HIDE DEF All, U
      <3>7. SumOf(w, All(T)) = SumOf(w, F[x]) + SumOf(w, All(U))
        BY <3>5, <3>6, SumSplit
      <3>8. SumOf(v, T) = SumOf(w, All(T))
        BY <3>3, <3>4, <3>7
      <3> QED BY <3>8
    <2> QED BY <2>1, <2>2
  <1>5. SUBSET S \subseteq Good
    <2> HIDE DEF Good
    <2> QED BY <1>4, SubsetInduction
  <1>6. S \in Good
    BY <1>5
  <1> QED BY <1>6

\* A part is worth no more than the whole.
LEMMA SumPart ==
  ASSUME NEW S, IsFiniteSet(S), NEW w, \A x \in S : w[x] \in Nat, NEW R \in SUBSET S
  PROVE  SumOf(w, R) <= SumOf(w, S) /\ SumOf(w, R) \in Nat /\ SumOf(w, S) \in Nat
  <1>1. \A T \in SUBSET S : SumOf(w, T) \in Nat
    BY SumFacts
  <1>2. SumOf(w, S) = SumOf(w, R) + SumOf(w, S \ R)
    BY SumSplit
  <1>3. SumOf(w, R) \in Nat /\ SumOf(w, S) \in Nat /\ SumOf(w, S \ R) \in Nat
    BY <1>1
  <1> QED BY <1>2, <1>3
=============================================================================
