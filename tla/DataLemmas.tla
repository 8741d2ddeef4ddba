----------------------------- MODULE DataLemmas -----------------------------
(***************************************************************************)
(* Facts about numbers, sequences and finite sets that the proofs of       *)
(* several components use.  Induction is done with WFMin: a set of natural *)
(* numbers that is not empty has a least element, so a claim about every   *)
(* n holds if the set of counterexamples has no least one.                 *)
(***************************************************************************)
EXTENDS Integers, Sequences, FiniteSets, SequencesExt, Ranking, SequenceTheorems,
        FiniteSetTheorems, WellFoundedInduction, TLAPS

(* The least element of a set of numbers.                                  *)
LEMMA MinOfNats ==
    ASSUME NEW S \in SUBSET Nat, S # {}
    PROVE  Min(S) \in S /\ \A i \in S : Min(S) <= i
<1> DEFINE R == {ss \in Nat \X Nat : ss[1] < ss[2]}
<1>1. IsWellFoundedOn(R, Nat)
  BY NatLessThanWellFounded DEF OpToRel
<1>2. PICK x \in S : \A y \in S : ~(<<y, x>> \in R)
  BY <1>1, WFMin
<1>3. \A y \in S : x <= y
  <2> SUFFICES ASSUME NEW y \in S PROVE x <= y
    OBVIOUS
  <2>1. ~(y < x)
    BY <1>2
  <2>2. QED
    BY <2>1
<1>4. QED
  BY <1>3 DEF Min

LEMMA MaxOfTwo ==
    ASSUME NEW a \in Int, NEW b \in Int
    PROVE  Max({a, b}) = IF a <= b THEN b ELSE a
  BY DEF Max

LEMMA MinOfTwo ==
    ASSUME NEW a \in Int, NEW b \in Int
    PROVE  Min({a, b}) = IF a <= b THEN a ELSE b
  BY DEF Min

LEMMA LeastNumber ==
    ASSUME NEW S \in SUBSET Nat, S # {}
    PROVE  \E n \in S : \A i \in S : n <= i
  BY MinOfNats

(* What RemoveAt leaves: the other entries, in their order.                *)
LEMMA RemoveAtIs ==
    ASSUME NEW S, NEW q \in Seq(S), NEW i \in DOMAIN q
    PROVE  /\ RemoveAt(q, i) \in Seq(S)
           /\ Len(RemoveAt(q, i)) = Len(q) - 1
           /\ \A j \in 1..(Len(q) - 1) : RemoveAt(q, i)[j] = q[IF j < i THEN j ELSE j + 1]
<1>1. i \in 1..Len(q) /\ Len(q) \in Nat
  OBVIOUS
<1> DEFINE a == SubSeq(q, 1, i - 1)
           b == SubSeq(q, i + 1, Len(q))
<1>2. a \in Seq(S) /\ Len(a) = i - 1 /\ \A j \in 1..(i - 1) : a[j] = q[j]
  <2>1. \A j \in 1..(i - 1) : q[j] \in S
    BY <1>1
  <2>2. QED
    BY <1>1, <2>1, SubSeqProperties
<1>3. b \in Seq(S) /\ Len(b) = Len(q) - i /\ \A j \in 1..(Len(q) - i) : b[j] = q[i + j]
  <2>1. \A j \in (i + 1)..Len(q) : q[j] \in S
    BY <1>1
  <2>2. b \in Seq(S) /\ Len(b) = (IF i + 1 <= Len(q) THEN Len(q) - (i + 1) + 1 ELSE 0)
        /\ \A j \in 1..(Len(q) - (i + 1) + 1) : b[j] = q[(i + 1) + j - 1]
    BY <1>1, <2>1, SubSeqProperties
  <2>3. QED
    BY <1>1, <2>2
<1>4. RemoveAt(q, i) = a \o b
  BY DEF RemoveAt
<1> HIDE DEF a, b
<1>5. /\ a \o b \in Seq(S) /\ Len(a \o b) = Len(a) + Len(b)
      /\ \A j \in 1..(Len(a) + Len(b)) : (a \o b)[j] = IF j <= Len(a) THEN a[j] ELSE b[j - Len(a)]
  BY <1>2, <1>3, ConcatProperties
<1>6. Len(a) + Len(b) = Len(q) - 1
  BY <1>1, <1>2, <1>3
<1>7. ASSUME NEW j \in 1..(Len(q) - 1) PROVE (a \o b)[j] = q[IF j < i THEN j ELSE j + 1]
  <2>1. CASE j < i
    BY <1>1, <1>2, <1>5, <1>6, <2>1
  <2>2. CASE ~(j < i)
    <3>1. (a \o b)[j] = b[j - (i - 1)]
      BY <1>1, <1>2, <1>5, <1>6, <2>2, SMTT(30)
    <3>2. j - (i - 1) \in 1..(Len(q) - i) /\ i + (j - (i - 1)) = j + 1
      BY <1>1, <2>2
    <3>3. b[j - (i - 1)] = q[i + (j - (i - 1))]
      BY <1>3, <3>2
    <3>4. QED
      BY <2>2, <3>1, <3>2, <3>3
  <2>3. QED
    BY <2>1, <2>2
<1>8. QED
  BY <1>4, <1>5, <1>6, <1>7

(* The entries of a stretch without repetition are as many as its places.  *)
LEMMA StretchCardinality ==
    ASSUME NEW a \in Nat, NEW b \in Nat, NEW f, a <= b + 1,
           \A i, j \in a .. b : f[i] = f[j] => i = j
    PROVE  /\ IsFiniteSet({f[i] : i \in a .. b})
           /\ Cardinality({f[i] : i \in a .. b}) = b - a + 1
<1> DEFINE T == {f[i] : i \in a .. b}
           g == [i \in a .. b |-> f[i]]
<1>1. IsFiniteSet(a .. b) /\ Cardinality(a .. b) = b - a + 1
  BY FS_Interval
<1>2. g \in Bijection(a .. b, T)
  BY DEF Bijection, Injection, Surjection, IsInjective
<1>3. ExistsBijection(a .. b, T)
  BY <1>2 DEF ExistsBijection
<1>4. QED
  BY <1>1, <1>3, FS_Bijection

(* Moving the head of a queue to the end of what was taken from it.        *)
LEMMA TakeOne ==
    ASSUME NEW S, NEW p \in Seq(S), NEW q \in Seq(S), q # <<>>
    PROVE  Append(p, Head(q)) \o Tail(q) = p \o q
<1>1. Len(q) \in Nat \ {0} /\ Head(q) = q[1] /\ q[1] \in S
  BY EmptySeq
<1>2. Tail(q) = SubSeq(q, 2, Len(q)) /\ Tail(q) \in Seq(S)
  BY TailIsSubSeq, HeadTailProperties
<1>3. 1 \in 1 .. Len(q) /\ Len(q) \in 1 .. Len(q)
  BY <1>1
<1>4. SubSeq(q, 1, Len(q)) = <<q[1]>> \o SubSeq(q, 1 + 1, Len(q))
  BY <1>3, SubSeqRecursiveFirst
<1>5. q = <<q[1]>> \o Tail(q)
  BY <1>2, <1>4, SubSeqFull
<1>6. Append(p, q[1]) = p \o <<q[1]>>
  BY <1>1, AppendIsConcat
<1>7. <<q[1]>> \in Seq(S)
  BY <1>1
<1>8. (p \o <<q[1]>>) \o Tail(q) = p \o (<<q[1]>> \o Tail(q))
  BY <1>2, <1>7, ConcatAssociative
<1>9. QED
  BY <1>1, <1>5, <1>6, <1>8

StrictTotalOrder(R, S) ==
    /\ \A x \in S : <<x, x>> \notin R
    /\ \A x, y, z \in S : <<x, y>> \in R /\ <<y, z>> \in R => <<x, z>> \in R
    /\ \A x, y \in S : x # y => <<x, y>> \in R \/ <<y, x>> \in R

(* Ranked lists every element of the set, in the order of the relation.    *)
(* The number of predecessors is an injection into 0 .. n - 1, hence onto. *)
LEMMA RankedIs ==
    ASSUME NEW S, IsFiniteSet(S), NEW R, StrictTotalOrder(R, S)
    PROVE  /\ Cardinality(S) \in Nat
           /\ Ranked(S, R) \in [1 .. Cardinality(S) -> S]
           /\ \A x \in S : \E k \in 1 .. Cardinality(S) : Ranked(S, R)[k] = x
           /\ \A i, j \in 1 .. Cardinality(S) : i < j => <<Ranked(S, R)[i], Ranked(S, R)[j]>> \in R
<1>0. PICK n \in Nat : n = Cardinality(S)
  BY FS_CardinalityType
<1> DEFINE before(x) == {y \in S : <<y, x>> \in R}
           rank == [x \in S |-> Cardinality(before(x))]
           q == Ranked(S, R)
<1>1. ASSUME NEW x \in S PROVE IsFiniteSet(before(x)) /\ Cardinality(before(x)) \in 0 .. n - 1
  <2>1. x \in S /\ x \notin before(x)
    BY DEF StrictTotalOrder
  <2>2. before(x) \in SUBSET S
    OBVIOUS
  <2>3. /\ IsFiniteSet(before(x)) /\ Cardinality(before(x)) <= n
        /\ (n = Cardinality(before(x)) => S = before(x))
    BY <2>2, <1>0, FS_Subset
  <2>4. Cardinality(before(x)) \in Nat
    BY <2>3, FS_CardinalityType
  <2>5. QED
    BY <2>1, <2>3, <2>4, <1>0
<1>2. rank \in [S -> 0 .. n - 1]
  BY <1>1
<1>3. ASSUME NEW x \in S, NEW y \in S, <<x, y>> \in R PROVE rank[x] < rank[y]
  <2>1. before(x) \in SUBSET before(y) /\ x \in before(y) /\ x \notin before(x)
    BY <1>3 DEF StrictTotalOrder
  <2>2. /\ Cardinality(before(x)) <= Cardinality(before(y))
        /\ (Cardinality(before(y)) = Cardinality(before(x)) => before(y) = before(x))
    BY <2>1, <1>1, FS_Subset
  <2>3. Cardinality(before(x)) \in Nat /\ Cardinality(before(y)) \in Nat
    BY <1>1
  <2>4. QED
    BY <2>1, <2>2, <2>3
<1> HIDE DEF before, rank
<1>4. rank \in Injection(S, 0 .. n - 1)
  <2>1. ASSUME NEW x \in S, NEW y \in S, rank[x] = rank[y] PROVE x = y
    <3>1. rank[x] \in Int /\ rank[y] \in Int
      BY <1>2
    <3>2. ~(<<x, y>> \in R) /\ ~(<<y, x>> \in R)
      BY <2>1, <3>1, <1>3
    <3>3. QED
      BY <3>2 DEF StrictTotalOrder
  <2>2. QED
    BY <2>1, <1>2 DEF Injection, IsInjective
<1>5. IsFiniteSet(0 .. n - 1) /\ Cardinality(0 .. n - 1) = n
  BY FS_Interval
<1>6. rank \in Surjection(S, 0 .. n - 1)
  BY <1>0, <1>4, <1>5, FS_Injection
<1>7. ASSUME NEW k \in 1 .. n PROVE q[k] \in S /\ rank[q[k]] = k - 1
  <2>1. k - 1 \in 0 .. n - 1
    OBVIOUS
  <2>2. PICK x \in S : rank[x] = k - 1
    BY <2>1, <1>6 DEF Surjection
  <2>3. q[k] = CHOOSE z \in S : Cardinality({y \in S : <<y, z>> \in R}) = k - 1
    BY <1>0 DEF Ranked
  <2>4. \A z \in S : rank[z] = Cardinality({y \in S : <<y, z>> \in R})
    BY DEF rank, before
  <2>5. QED
    BY <2>2, <2>3, <2>4
<1>8. q \in [1 .. n -> S]
  <2> DEFINE e(k) == CHOOSE x \in S : Cardinality({y \in S : <<y, x>> \in R}) = k - 1
  <2>1. q = [k \in 1 .. n |-> e(k)]
    BY <1>0 DEF Ranked
  <2> HIDE DEF q, e
  <2>2. \A k \in 1 .. n : e(k) \in S
    BY <2>1, <1>7
  <2>3. QED
    BY <2>1, <2>2
<1>9. ASSUME NEW x \in S PROVE \E k \in 1 .. n : q[k] = x
  <2>1. PICK k : k = rank[x] + 1
    OBVIOUS
  <2>2. k \in 1 .. n /\ k - 1 = rank[x]
    BY <2>1, <1>2
  <2>3. q[k] \in S /\ rank[q[k]] = rank[x]
    BY <2>2, <1>7
  <2>4. q[k] = x
    BY <2>3, <1>4 DEF Injection, IsInjective
  <2>5. QED
    BY <2>2, <2>4
<1>10. ASSUME NEW i \in 1 .. n, NEW j \in 1 .. n, i < j PROVE <<q[i], q[j]>> \in R
  <2>1. q[i] \in S /\ q[j] \in S /\ rank[q[i]] = i - 1 /\ rank[q[j]] = j - 1
    BY <1>7
  <2>2. q[i] # q[j] /\ ~(rank[q[j]] < rank[q[i]])
    BY <2>1, <1>10
  <2>3. ~(<<q[j], q[i]>> \in R)
    BY <2>1, <2>2, <1>3
  <2> HIDE DEF q
  <2>4. QED
    BY <2>1, <2>2, <2>3 DEF StrictTotalOrder
<1>11. QED
  BY <1>0, <1>8, <1>9, <1>10

LEMMA AscendingIs ==
    ASSUME NEW S \in SUBSET Int, IsFiniteSet(S)
    PROVE  /\ Ascending(S) \in Seq(S) /\ Len(Ascending(S)) = Cardinality(S) /\ Cardinality(S) \in Nat
           /\ \A x \in S : \E k \in 1 .. Len(Ascending(S)) : Ascending(S)[k] = x
           /\ \A k \in 1 .. Len(Ascending(S)) : Ascending(S)[k] \in S
           /\ \A i, j \in 1 .. Len(Ascending(S)) : i < j => Ascending(S)[i] < Ascending(S)[j]
<1> DEFINE R == {xy \in S \X S : xy[1] < xy[2]}
<1>1. \A x, y \in S : <<x, y>> \in R <=> x < y
  OBVIOUS
<1>2. StrictTotalOrder(R, S)
  <2> HIDE DEF R
  <2>1. \A x \in S : ~(x < x)
    OBVIOUS
  <2>2. \A x, y, z \in S : x < y /\ y < z => x < z
    OBVIOUS
  <2>3. \A x, y \in S : x # y => x < y \/ y < x
    OBVIOUS
  <2>4. QED
    BY <1>1, <2>1, <2>2, <2>3 DEF StrictTotalOrder
<1>3. Ascending(S) = Ranked(S, R)
  BY DEF Ascending
<1> HIDE DEF R
<1>4. PICK n \in Nat : n = Cardinality(S)
  BY FS_CardinalityType
<1>5. PICK q : q = Ascending(S)
  OBVIOUS
<1>6. /\ q \in [1 .. n -> S]
      /\ \A x \in S : \E k \in 1 .. n : q[k] = x
      /\ \A i, j \in 1 .. n : i < j => <<q[i], q[j]>> \in R
  BY <1>2, <1>3, <1>4, <1>5, RankedIs
<1>7. q \in Seq(S) /\ Len(q) = n
  BY <1>6
<1>8. \A i, j \in 1 .. n : i < j => q[i] < q[j]
  BY <1>1, <1>6
<1>9. QED
  BY <1>4, <1>5, <1>6, <1>7, <1>8

(* What Without leaves of a sequence that holds everything once.           *)
LEMMA WithoutIs ==
    ASSUME NEW T, NEW q \in Seq(T), NEW S,
           \A i, j \in 1 .. Len(q) : q[i] = q[j] => i = j
    PROVE  /\ Without(q, S) \in Seq(T) /\ Len(Without(q, S)) <= Len(q)
           /\ \A i, j \in 1 .. Len(Without(q, S)) : Without(q, S)[i] = Without(q, S)[j] => i = j
           /\ Range(Without(q, S)) = Range(q) \ S
           /\ (\E i \in 1 .. Len(q) : q[i] \in S) => Len(Without(q, S)) < Len(q)
<1>1. PICK n \in Nat : n = Len(q)
  OBVIOUS
<1>2. q \in [1 .. n -> T]
  BY <1>1
<1> DEFINE P == {i \in 1 .. n : q[i] \notin S}
<1>3. IsFiniteSet(1 .. n) /\ Cardinality(1 .. n) = n
  BY FS_Interval
<1>4. /\ P \in SUBSET (1 .. n) /\ IsFiniteSet(P) /\ Cardinality(P) <= n
      /\ (Cardinality(P) = n => P = 1 .. n)
  <2>1. P \in SUBSET (1 .. n)
    OBVIOUS
  <2> HIDE DEF P
  <2>2. /\ IsFiniteSet(P) /\ Cardinality(P) <= Cardinality(1 .. n)
        /\ (Cardinality(1 .. n) = Cardinality(P) => 1 .. n = P)
    BY <2>1, <1>3, FS_Subset
  <2>3. QED
    BY <2>1, <2>2, <1>3
<1> HIDE DEF P
<1>4b. P \in SUBSET Int
  BY <1>4
<1>5. PICK a : a = Ascending(P)
  OBVIOUS
<1>6. PICK m \in Nat : m = Len(a)
  BY <1>4, <1>4b, <1>5, AscendingIs
<1>7. /\ m = Cardinality(P) /\ a \in Seq(P)
      /\ \A x \in P : \E k \in 1 .. m : a[k] = x
      /\ \A k \in 1 .. m : a[k] \in P
      /\ \A i, j \in 1 .. m : i < j => a[i] < a[j]
  BY <1>4, <1>4b, <1>5, <1>6, AscendingIs
<1>8. PICK w : w = Without(q, S)
  OBVIOUS
<1>9. w = [k \in 1 .. m |-> q[a[k]]]
  <2>1. DOMAIN q = 1 .. n
    BY <1>1
  <2>1a. DOMAIN a = 1 .. m
    <3>1. a \in Seq(P)
      BY <1>7
    <3>2. DOMAIN a = 1 .. Len(a)
      BY <3>1
    <3>3. QED
      BY <3>2, <1>6
  <2>2. QED
    BY <1>5, <1>8, <2>1, <2>1a DEF Without, P
<1>10. \A k \in 1 .. m : a[k] \in 1 .. n /\ q[a[k]] \notin S /\ w[k] = q[a[k]]
  BY <1>4, <1>7, <1>9 DEF P
<1>11. w \in Seq(T) /\ Len(w) = m
  BY <1>2, <1>9, <1>10
<1>12. ASSUME NEW i \in 1 .. m, NEW j \in 1 .. m, w[i] = w[j] PROVE i = j
  <2>1. a[i] = a[j]
    BY <1>1, <1>10, <1>12
  <2>2. ~(i < j) /\ ~(j < i)
    BY <1>7, <1>10, <2>1
  <2>3. QED
    BY <2>2
<1>13. Range(w) = Range(q) \ S
  <2>1. \A x : x \in Range(w) <=> \E k \in 1 .. m : x = w[k]
    BY <1>9 DEF Range
  <2>2. \A x : x \in Range(q) <=> \E k \in 1 .. n : x = q[k]
    BY <1>2 DEF Range
  <2>3. ASSUME NEW x \in Range(w) PROVE x \in Range(q) \ S
    BY <2>1, <2>2, <1>10
  <2>4. ASSUME NEW x \in Range(q), x \notin S PROVE x \in Range(w)
    <3>1. PICK i \in 1 .. n : x = q[i]
      BY <2>2
    <3>2. i \in P
      BY <2>4, <3>1 DEF P
    <3>3. PICK k \in 1 .. m : a[k] = i
      BY <1>7, <3>2
    <3>4. QED
      BY <2>1, <1>10, <3>1, <3>3
  <2>5. QED
    BY <2>3, <2>4
<1>14. ASSUME NEW i \in 1 .. n, q[i] \in S PROVE m < n
  <2>1. i \notin P
    BY <1>14 DEF P
  <2>2. QED
    BY <1>4, <1>7, <2>1
<1>15. QED
  BY <1>1, <1>4, <1>7, <1>8, <1>11, <1>12, <1>13, <1>14

(* The elements of such a sequence are as many as its places.              *)
LEMMA RangeCardinality ==
    ASSUME NEW T, NEW q \in Seq(T), \A i, j \in 1 .. Len(q) : q[i] = q[j] => i = j
    PROVE  IsFiniteSet(Range(q)) /\ Cardinality(Range(q)) = Len(q)
<1>1. PICK n \in Nat : n = Len(q)
  OBVIOUS
<1>1a. 1 \in Nat /\ 1 <= n + 1 /\ \A i, j \in 1 .. n : q[i] = q[j] => i = j
  BY <1>1
<1>2. PICK U : U = {q[i] : i \in 1 .. n}
  OBVIOUS
<1>2a. Range(q) = U
  BY <1>1, <1>2 DEF Range
<1>3. IsFiniteSet(U) /\ Cardinality(U) = n - 1 + 1
  <2>1. /\ IsFiniteSet({q[i] : i \in 1 .. n})
        /\ Cardinality({q[i] : i \in 1 .. n}) = n - 1 + 1
    BY ONLY n \in Nat, <1>1a, StretchCardinality, Zenon
  <2>2. QED
    BY <2>1, <1>2
<1>4. QED
  BY <1>1, <1>2a, <1>3

(* Appending what the sequence does not hold.                              *)
LEMMA AppendNew ==
    ASSUME NEW T, NEW q \in Seq(T), NEW x \in T, x \notin Range(q),
           \A i, j \in 1 .. Len(q) : q[i] = q[j] => i = j
    PROVE  /\ Append(q, x) \in Seq(T) /\ Len(Append(q, x)) = Len(q) + 1
           /\ Range(Append(q, x)) = Range(q) \cup {x}
           /\ \A i, j \in 1 .. Len(Append(q, x)) : Append(q, x)[i] = Append(q, x)[j] => i = j
<1>1. PICK n \in Nat : n = Len(q)
  OBVIOUS
<1>2. PICK a : a = Append(q, x)
  OBVIOUS
<1>3. a \in Seq(T) /\ Len(a) = n + 1 /\ a[n + 1] = x /\ \A i \in 1 .. n : a[i] = q[i]
  BY <1>1, <1>2
<1>4. \A y : y \in Range(q) <=> \E i \in 1 .. n : y = q[i]
  BY <1>1 DEF Range
<1>5. \A y : y \in Range(a) <=> \E i \in 1 .. n + 1 : y = a[i]
  BY <1>3 DEF Range
<1>6. ASSUME NEW y PROVE y \in Range(a) <=> y \in Range(q) \cup {x}
  <2>1. ASSUME NEW i \in 1 .. n, y = q[i] PROVE y \in Range(a)
    <3>1. i \in 1 .. n + 1 /\ y = a[i]
      BY <1>3, <2>1
    <3>2. QED
      BY <1>5, <3>1
  <2>2. ASSUME y = x PROVE y \in Range(a)
    <3>1. n + 1 \in 1 .. n + 1
      OBVIOUS
    <3>2. QED
      BY <1>3, <1>5, <2>2, <3>1
  <2>3. ASSUME NEW i \in 1 .. n + 1, y = a[i] PROVE y \in Range(q) \cup {x}
    <3>1. CASE i = n + 1
      BY <1>3, <2>3, <3>1
    <3>2. CASE i # n + 1
      <4>1. i \in 1 .. n
        BY <3>2
      <4>2. QED
        BY <1>3, <1>4, <2>3, <4>1
    <3>3. QED
      BY <3>1, <3>2
  <2>4. QED
    BY <1>4, <1>5, <2>1, <2>2, <2>3
<1>7. ASSUME NEW i \in 1 .. n + 1, NEW j \in 1 .. n + 1, a[i] = a[j] PROVE i = j
  <2>1. \A m \in 1 .. n : q[m] # x
    BY <1>4
  <2>2. CASE i \in 1 .. n /\ j \in 1 .. n
    BY <1>1, <1>3, <1>7, <2>2
  <2>3. CASE i = n + 1 \/ j = n + 1
    BY <1>3, <1>7, <2>1, <2>3
  <2>4. QED
    BY <2>2, <2>3
<1>8. QED
  BY <1>1, <1>2, <1>3, <1>6, <1>7

-----------------------------------------------------------------------------
(* Sums of natural numbers: SumFunctionOnSet counts the cells of a bar     *)
(* chart.  The recursion it is defined by has the count as a solution, and *)
(* no other one.                                                           *)

Bar(x, a, b) == {<<x, i>> : i \in a .. b}

Cells(f, S) == UNION {Bar(x, 1, f[x]) : x \in S}

LEMMA BarIs ==
    ASSUME NEW x, NEW a \in Nat, NEW b \in Nat, a <= b + 1
    PROVE  IsFiniteSet(Bar(x, a, b)) /\ Cardinality(Bar(x, a, b)) = b - a + 1
<1> DEFINE f == [i \in a .. b |-> <<x, i>>]
<1>1. \A i, j \in a .. b : f[i] = f[j] => i = j
  OBVIOUS
<1>2. Bar(x, a, b) = {f[i] : i \in a .. b}
  BY DEF Bar
<1> HIDE DEF f
<1>3. IsFiniteSet({f[i] : i \in a .. b}) /\ Cardinality({f[i] : i \in a .. b}) = b - a + 1
  BY <1>1, StretchCardinality
<1>4. QED
  BY <1>2, <1>3

LEMMA CellIs ==
    ASSUME NEW f, NEW S, NEW x, NEW i
    PROVE  <<x, i>> \in Cells(f, S) <=> x \in S /\ i \in 1 .. f[x]
  BY DEF Cells, Bar

LEMMA CellsArePairs ==
    ASSUME NEW f, NEW S, NEW c \in Cells(f, S)
    PROVE  \E x \in S : \E i \in 1 .. f[x] : c = <<x, i>>
  BY DEF Cells, Bar

LEMMA CellsAreFinite ==
    ASSUME NEW S, IsFiniteSet(S), NEW f, \A x \in S : f[x] \in Nat
    PROVE  IsFiniteSet(Cells(f, S)) /\ Cardinality(Cells(f, S)) \in Nat
<1> DEFINE B == {Bar(x, 1, f[x]) : x \in S}
           g == [x \in S |-> Bar(x, 1, f[x])]
<1>1. g \in Surjection(S, B)
  BY DEF Surjection
<1>2. IsFiniteSet(B)
  BY <1>1, FS_Surjection
<1>3. \A b \in B : IsFiniteSet(b)
  <2> SUFFICES ASSUME NEW x \in S PROVE IsFiniteSet(Bar(x, 1, f[x]))
    OBVIOUS
  <2>1. 1 \in Nat /\ f[x] \in Nat /\ 1 <= f[x] + 1
    OBVIOUS
  <2>2. QED
    BY <2>1, BarIs
<1> HIDE DEF B
<1>4. IsFiniteSet(UNION B)
  BY <1>2, <1>3, FS_UNION
<1>5. QED
  BY <1>4, FS_CardinalityType DEF Cells, B

(* One more bar.                                                           *)
LEMMA CellsOf ==
    ASSUME NEW S, IsFiniteSet(S), NEW f, \A x \in S : f[x] \in Nat, NEW y \in S
    PROVE  Cardinality(Cells(f, S)) = f[y] + Cardinality(Cells(f, S \ {y}))
<1>1. IsFiniteSet(S \ {y}) /\ \A x \in S \ {y} : f[x] \in Nat
  BY FS_RemoveElement
<1>2. PICK A, B : A = Bar(y, 1, f[y]) /\ B = Cells(f, S \ {y})
  OBVIOUS
<1>3. 1 \in Nat /\ f[y] \in Nat /\ 1 <= f[y] + 1
  OBVIOUS
<1>4. IsFiniteSet(A) /\ Cardinality(A) = f[y] - 1 + 1
  BY <1>2, <1>3, BarIs
<1>5. IsFiniteSet(B) /\ Cardinality(B) \in Nat
  BY <1>1, <1>2, CellsAreFinite
<1>6. A \cap B = {}
  <2> SUFFICES ASSUME NEW c \in A, c \in B PROVE FALSE
    OBVIOUS
  <2>1. PICK i : c = <<y, i>>
    BY <1>2 DEF Bar
  <2>2. QED
    BY <1>2, <2>1, CellIs
<1>7. A \cup B = Cells(f, S)
  BY <1>2 DEF Cells
<1>8. Cardinality(A \cup B) = Cardinality(A) + Cardinality(B) - Cardinality(A \cap B)
  BY <1>4, <1>5, FS_Union
<1>9. Cardinality({}) = 0
  BY FS_EmptySet
<1>10. Cardinality(A \cap B) = 0
  BY <1>6, <1>9
<1>11. PICK b \in Nat : b = Cardinality(B)
  BY <1>5
<1>12. PICK n \in Nat : n = f[y]
  BY <1>3
<1>13. Cardinality(A) = n
  BY <1>4, <1>12
<1>14. Cardinality(A \cup B) = n + b
  BY <1>8, <1>10, <1>11, <1>13
<1>15. QED
  BY <1>2, <1>7, <1>11, <1>12, <1>14

LEMMA SumIs ==
    ASSUME NEW S, IsFiniteSet(S), NEW f, \A x \in S : f[x] \in Nat
    PROVE  SumFunctionOnSet(f, S) = Cardinality(Cells(f, S))
<1> DEFINE one(s) == CHOOSE x \in s : TRUE
           Body(g) == [s \in SUBSET S |-> IF s = {} THEN 0 ELSE f[one(s)] + g[s \ {one(s)}]]
           count == [s \in SUBSET S |-> Cardinality(Cells(f, s))]
           iter == CHOOSE g : g = Body(g)
<1>1. SumFunctionOnSet(f, S) = iter[S]
  BY DEF SumFunctionOnSet, FoldFunctionOnSet, MapThenFoldSet
<1>2. ASSUME NEW s \in SUBSET S
      PROVE  /\ s = {} => count[s] = 0
             /\ s # {} => one(s) \in s /\ s \ {one(s)} \in SUBSET S
                          /\ count[s] = f[one(s)] + count[s \ {one(s)}]
             /\ IsFiniteSet(s) /\ \A x \in s : f[x] \in Nat
  <2>1. IsFiniteSet(s) /\ \A x \in s : f[x] \in Nat
    BY FS_Subset
  <2>2. CASE s = {}
    <3>1. Cells(f, s) = {}
      BY <2>2 DEF Cells
    <3>2. QED
      BY <2>1, <2>2, <3>1, FS_EmptySet
  <2>3. CASE s # {}
    <3>1. PICK y \in s : y = one(s)
      BY <2>3
    <3>2. Cardinality(Cells(f, s)) = f[y] + Cardinality(Cells(f, s \ {y}))
      BY <2>1, CellsOf
    <3>3. s \ {y} \in SUBSET S
      OBVIOUS
    <3> HIDE DEF one
    <3>4. QED
      BY <2>1, <2>3, <3>1, <3>2, <3>3
  <2>4. QED
    BY <2>2, <2>3
<1>3. count = Body(count)
  <2>1. \A s \in SUBSET S :
          Cardinality(Cells(f, s)) = IF s = {} THEN 0 ELSE f[one(s)] + count[s \ {one(s)}]
    <3> SUFFICES ASSUME NEW s \in SUBSET S
                 PROVE  Cardinality(Cells(f, s))
                          = IF s = {} THEN 0 ELSE f[one(s)] + count[s \ {one(s)}]
      OBVIOUS
    <3>1. count[s] = Cardinality(Cells(f, s))
      OBVIOUS
    <3> HIDE DEF count, one
    <3>2. QED
      BY <1>2, <3>1
  <2>2. QED
    BY <2>1, Zenon
<1>4. iter = Body(iter)
  <2> HIDE DEF Body, count
  <2>1. QED
    BY <1>3
<1>5. ASSUME NEW s \in SUBSET S
      PROVE  /\ s = {} => iter[s] = 0
             /\ s # {} => iter[s] = f[one(s)] + iter[s \ {one(s)}]
  <2> HIDE DEF iter, one
  <2>1. iter[s] = Body(iter)[s]
    BY <1>4
  <2>2. QED
    BY <2>1
<1> HIDE DEF iter, count, one, Body
<1>6. \A s \in SUBSET S : iter[s] = count[s]
  <2> DEFINE Bad == {n \in Nat : \E s \in SUBSET S : Cardinality(s) = n /\ iter[s] # count[s]}
  <2>1. ASSUME NEW n \in Bad, \A i \in Bad : n <= i PROVE FALSE
    <3>1. PICK s \in SUBSET S : Cardinality(s) = n /\ iter[s] # count[s]
      OBVIOUS
    <3>2. s # {}
      BY <1>2, <1>5, <3>1
    <3>3. PICK y \in s : y = one(s)
      BY <1>2, <3>2
    <3>4. PICK r \in SUBSET S : r = s \ {y}
      OBVIOUS
    <3>5. Cardinality(r) = n - 1
      BY <1>2, <3>1, <3>3, <3>4, FS_RemoveElement
    <3>6. Cardinality(r) \in Nat
      BY <1>2, FS_CardinalityType
    <3>7. iter[r] = count[r]
      BY <2>1, <3>5, <3>6
    <3>8. iter[s] = f[y] + iter[r]
      BY <1>5, <3>2, <3>3, <3>4
    <3>9. count[s] = f[y] + count[r]
      BY <1>2, <3>2, <3>3, <3>4
    <3>10. QED
      BY <3>1, <3>7, <3>8, <3>9
  <2>2. Bad = {}
    <3>1. Bad \in SUBSET Nat
      OBVIOUS
    <3> HIDE DEF Bad
    <3>2. QED
      BY <2>1, <3>1, LeastNumber
  <2>3. ASSUME NEW s \in SUBSET S, iter[s] # count[s] PROVE FALSE
    <3>1. Cardinality(s) \in Nat
      BY <1>2, FS_CardinalityType
    <3>2. QED
      BY <2>2, <2>3, <3>1
  <2>4. QED
    BY <2>3
<1>7. QED
  BY <1>1, <1>6 DEF count

(* A sum depends on the terms only, is never less than one of them, and    *)
(* grows by what one of them grows.                                        *)
LEMMA SumSame ==
    ASSUME NEW S, IsFiniteSet(S), NEW f, NEW g, \A x \in S : f[x] \in Nat /\ g[x] = f[x]
    PROVE  SumFunctionOnSet(g, S) = SumFunctionOnSet(f, S)
<1>1. \A x \in S : f[x] \in Nat
  OBVIOUS
<1>2. \A x \in S : g[x] \in Nat
  OBVIOUS
<1>3. Cells(g, S) = Cells(f, S)
  <2>1. \A x \in S : Bar(x, 1, g[x]) = Bar(x, 1, f[x])
    OBVIOUS
  <2>2. QED
    BY <2>1, Zenon DEF Cells
<1>4. SumFunctionOnSet(f, S) = Cardinality(Cells(f, S))
  BY <1>1, SumIs
<1>5. SumFunctionOnSet(g, S) = Cardinality(Cells(g, S))
  BY <1>2, SumIs
<1>6. QED
  BY <1>3, <1>4, <1>5

LEMMA SumSplits ==
    ASSUME NEW S, IsFiniteSet(S), NEW f, \A x \in S : f[x] \in Nat, NEW y \in S
    PROVE  /\ SumFunctionOnSet(f, S) = f[y] + SumFunctionOnSet(f, S \ {y})
           /\ SumFunctionOnSet(f, S) \in Nat /\ SumFunctionOnSet(f, S \ {y}) \in Nat
<1>1. IsFiniteSet(S \ {y}) /\ \A x \in S \ {y} : f[x] \in Nat
  BY FS_RemoveElement
<1>2. SumFunctionOnSet(f, S) = Cardinality(Cells(f, S)) /\ Cardinality(Cells(f, S)) \in Nat
  BY SumIs, CellsAreFinite
<1>3. /\ SumFunctionOnSet(f, S \ {y}) = Cardinality(Cells(f, S \ {y}))
      /\ Cardinality(Cells(f, S \ {y})) \in Nat
  BY <1>1, SumIs, CellsAreFinite
<1>4. Cardinality(Cells(f, S)) = f[y] + Cardinality(Cells(f, S \ {y}))
  BY CellsOf
<1>5. QED
  BY <1>2, <1>3, <1>4

LEMMA SumCoversTerm ==
    ASSUME NEW S, IsFiniteSet(S), NEW f, \A x \in S : f[x] \in Nat, NEW y \in S
    PROVE  SumFunctionOnSet(f, S) \in Nat /\ f[y] <= SumFunctionOnSet(f, S)
<1>1. PICK a, b : a = SumFunctionOnSet(f, S) /\ b = SumFunctionOnSet(f, S \ {y})
  OBVIOUS
<1>2. a = f[y] + b /\ a \in Nat /\ b \in Nat
  BY <1>1, SumSplits
<1>3. f[y] \in Nat
  OBVIOUS
<1>4. QED
  BY <1>1, <1>2, <1>3

LEMMA SumAdds ==
    ASSUME NEW S, IsFiniteSet(S), NEW f, NEW g, NEW y \in S, NEW n \in Nat,
           \A x \in S : f[x] \in Nat,
           \A x \in S : g[x] = IF x = y THEN f[x] + n ELSE f[x]
    PROVE  SumFunctionOnSet(g, S) = SumFunctionOnSet(f, S) + n
<1>1. \A x \in S : g[x] \in Nat
  OBVIOUS
<1>2. PICK a, b, c, d : /\ a = SumFunctionOnSet(f, S) /\ b = SumFunctionOnSet(f, S \ {y})
                        /\ c = SumFunctionOnSet(g, S) /\ d = SumFunctionOnSet(g, S \ {y})
  OBVIOUS
<1>3. a = f[y] + b /\ a \in Nat /\ b \in Nat
  BY <1>2, SumSplits
<1>4. c = g[y] + d /\ c \in Nat /\ d \in Nat
  BY <1>1, <1>2, SumSplits
<1>5. IsFiniteSet(S \ {y}) /\ \A x \in S \ {y} : f[x] \in Nat /\ g[x] = f[x]
  BY FS_RemoveElement
<1>6. d = b
  BY <1>2, <1>5, SumSame
<1>7. f[y] \in Nat /\ g[y] = f[y] + n
  OBVIOUS
<1>8. QED
  BY <1>2, <1>3, <1>4, <1>6, <1>7

LEMMA SumOfZeros ==
    ASSUME NEW S, IsFiniteSet(S), NEW f, \A x \in S : f[x] = 0
    PROVE  SumFunctionOnSet(f, S) = 0
<1>1. \A x \in S : f[x] \in Nat
  OBVIOUS
<1>2. Cells(f, S) = {}
  <2> SUFFICES ASSUME NEW c \in Cells(f, S) PROVE FALSE
    OBVIOUS
  <2>1. PICK x \in S : \E i \in 1 .. f[x] : c = <<x, i>>
    BY CellsArePairs
  <2>2. QED
    BY <2>1
<1>3. QED
  BY <1>1, <1>2, SumIs, FS_EmptySet

=============================================================================
