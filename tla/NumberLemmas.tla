---------------------------- MODULE NumberLemmas -----------------------------
(***************************************************************************)
(* Lemmas about naturals and sums that the proofs about balances, billing  *)
(* dates, locks and connections share.  SumTo is a recursive function, so  *)
(* that it exists and is unique is shown by taking a least number at which *)
(* either would fail.                                                      *)
(***************************************************************************)
EXTENDS Sums, FiniteSetTheorems, WellFoundedInduction, TLAPS

\* A nonempty set of naturals has a least element: the least id still to lock,
\* the first month the catch-up finds, the first of two sums to differ.
LEMMA LeastNatural ==
  \A S \in SUBSET Nat : S # {} => \E n \in S : \A k \in S : n <= k
<1>1. SUFFICES ASSUME NEW S \in SUBSET Nat, S # {}
               PROVE  \E n \in S : \A k \in S : n <= k
  OBVIOUS
<1> DEFINE R == OpToRel(<, Nat)
<1>2. IsWellFoundedOn(R, Nat)
  BY NatLessThanWellFounded
<1>3. \A k, n \in Nat : k < n => <<k, n>> \in R
  BY DEF OpToRel
<1> HIDE DEF R
<1>4. PICK n \in S : \A k \in S : ~ (<<k, n>> \in R)
  BY <1>1, <1>2, WFMin
<1>5. \A k \in S : ~ (k < n)
  BY <1>3, <1>4
<1>6. QED
  BY <1>5

\* One element more or less.
LEMMA AddOne ==
  ASSUME NEW S, NEW x, IsFiniteSet(S)
  PROVE  /\ IsFiniteSet(S \union {x})
         /\ Cardinality(S) \in Nat /\ Cardinality(S \union {x}) \in Nat
         /\ Cardinality(S \union {x}) <= Cardinality(S) + 1
         /\ x \notin S => Cardinality(S \union {x}) = Cardinality(S) + 1
<1>1. Cardinality(S) \in Nat
  BY FS_CardinalityType
<1>2. CASE x \in S
  <2>1. S \union {x} = S
    BY <1>2
  <2>2. QED
    BY <1>1, <1>2, <2>1
<1>3. CASE x \notin S
  <2>1. IsFiniteSet(S \union {x}) /\ Cardinality(S \union {x}) = Cardinality(S) + 1
    BY <1>3, FS_AddElement
  <2>2. QED
    BY <1>1, <1>3, <2>1
<1>4. QED
  BY <1>2, <1>3

LEMMA TakeOne ==
  ASSUME NEW S, NEW x \in S, IsFiniteSet(S)
  PROVE  /\ IsFiniteSet(S \ {x})
         /\ Cardinality(S) \in Nat /\ Cardinality(S \ {x}) \in Nat
         /\ Cardinality(S \ {x}) = Cardinality(S) - 1
<1>1. IsFiniteSet(S \ {x}) /\ Cardinality(S \ {x}) = Cardinality(S) - 1
  BY FS_RemoveElement
<1>2. Cardinality(S) \in Nat /\ Cardinality(S \ {x}) \in Nat
  BY <1>1, FS_CardinalityType
<1>3. QED
  BY <1>1, <1>2

\* g holds the partial sums of f up to n.
PartialSums(g, f, n) ==
  g = [i \in 0 .. n |-> IF i = 0 THEN 0 ELSE g[i - 1] + f[i]]

\* Partial sums of integers exist up to any n, and are integers.
LEMMA PartialSumsExist ==
  ASSUME NEW n \in Nat, NEW f, \A i \in 1 .. n : f[i] \in Int
  PROVE  \E g \in [0 .. n -> Int] : PartialSums(g, f, n)
<1> DEFINE Good(k) == \E g \in [0 .. k -> Int] : PartialSums(g, f, k)
           Bad == {k \in 0 .. n : ~ Good(k)}
<1>1. SUFFICES ASSUME Bad # {} PROVE FALSE
  OBVIOUS
<1>2. Bad \in SUBSET Nat
  OBVIOUS
<1>3. PICK k \in Bad : \A j \in Bad : k <= j
  <2> HIDE DEF Bad
  <2> QED  BY <1>1, <1>2, LeastNatural
<1>4. k # 0
  <2>1. PartialSums([i \in 0 .. 0 |-> 0], f, 0)
    BY DEF PartialSums
  <2>2. [i \in 0 .. 0 |-> 0] \in [0 .. 0 -> Int]
    OBVIOUS
  <2>3. Good(0)
    BY <2>1, <2>2
  <2>4. QED
    BY <1>3, <2>3
<1>5. k - 1 \in 0 .. n /\ k - 1 \notin Bad
  BY <1>3, <1>4
<1>6. PICK g \in [0 .. k - 1 -> Int] : PartialSums(g, f, k - 1)
  BY <1>5
<1> DEFINE h == [i \in 0 .. k |-> IF i = k THEN g[k - 1] + f[k] ELSE g[i]]
<1>7. h \in [0 .. k -> Int]
  BY <1>3, <1>4, <1>6
<1>8. \A i \in 0 .. k : h[i] = IF i = 0 THEN 0 ELSE h[i - 1] + f[i]
  <2>1. \A i \in 0 .. k - 1 : g[i] = IF i = 0 THEN 0 ELSE g[i - 1] + f[i]
    BY <1>6 DEF PartialSums
  <2>2. ASSUME NEW i \in 0 .. k
        PROVE  h[i] = IF i = 0 THEN 0 ELSE h[i - 1] + f[i]
    <3>1. CASE i = k
      BY <1>3, <1>4, <3>1
    <3>2. CASE i # k
      <4>1. i \in 0 .. k - 1 /\ i # k /\ (i # 0 => i - 1 \in 0 .. k /\ i - 1 # k)
        BY <1>3, <1>4, <3>2
      <4>2. h[i] = g[i] /\ (i # 0 => h[i - 1] = g[i - 1])
        BY <4>1
      <4>3. QED
        BY <2>1, <4>1, <4>2
    <3>3. QED
      BY <3>1, <3>2
  <2>3. QED
    BY <2>2
<1>9. PartialSums(h, f, k)
  BY <1>7, <1>8 DEF PartialSums
<1>10. QED
  BY <1>3, <1>7, <1>9

\* They are unique.
LEMMA PartialSumsUnique ==
  ASSUME NEW n \in Nat, NEW f, \A i \in 1 .. n : f[i] \in Int, NEW g, NEW h,
         PartialSums(g, f, n), PartialSums(h, f, n)
  PROVE  g = h
<1> DEFINE Bad == {k \in 0 .. n : g[k] # h[k]}
<1>1. SUFFICES Bad = {}
  <2>1. /\ g = [i \in 0 .. n |-> IF i = 0 THEN 0 ELSE g[i - 1] + f[i]]
        /\ h = [i \in 0 .. n |-> IF i = 0 THEN 0 ELSE h[i - 1] + f[i]]
    BY DEF PartialSums
  <2>2. g = [i \in 0 .. n |-> g[i]] /\ h = [i \in 0 .. n |-> h[i]]
    BY <2>1
  <2>3. \A i \in 0 .. n : g[i] = h[i]
    OBVIOUS
  <2>4. QED
    BY <2>2, <2>3
<1>2. SUFFICES ASSUME Bad # {} PROVE FALSE
  OBVIOUS
<1>3. Bad \in SUBSET Nat
  OBVIOUS
<1>4. PICK k \in Bad : \A j \in Bad : k <= j
  <2> HIDE DEF Bad
  <2> QED  BY <1>2, <1>3, LeastNatural
<1>5. \A i \in 0 .. n : /\ g[i] = IF i = 0 THEN 0 ELSE g[i - 1] + f[i]
                       /\ h[i] = IF i = 0 THEN 0 ELSE h[i - 1] + f[i]
  BY DEF PartialSums
<1>6. k # 0
  BY <1>4, <1>5
<1>7. k - 1 \in 0 .. n /\ k - 1 \notin Bad
  BY <1>4, <1>6
<1>8. g[k - 1] = h[k - 1]
  BY <1>7
<1>9. QED
  BY <1>4, <1>5, <1>6, <1>8

\* SumTo is the last of the partial sums.
LEMMA SumToIsLast ==
  ASSUME NEW n \in Nat, NEW f, \A i \in 1 .. n : f[i] \in Int,
         NEW g, PartialSums(g, f, n)
  PROVE  SumTo(f, n) = g[n]
<1> DEFINE p == CHOOSE p : p = [i \in 0 .. n |->
                                 IF i = 0 THEN 0 ELSE p[i - 1] + f[i]]
<1>1. SumTo(f, n) = p[n]
  BY DEF SumTo
<1>2. PartialSums(p, f, n)
  BY DEF PartialSums
<1>3. QED
  <2> HIDE DEF p
  <2>1. p = g
    BY <1>2, PartialSumsUnique
  <2>2. QED
    BY <1>1, <2>1

\* A sum of integers is an integer.
LEMMA SumToType ==
  ASSUME NEW n \in Nat, NEW f, \A i \in 1 .. n : f[i] \in Int
  PROVE  SumTo(f, n) \in Int
<1>1. PICK g \in [0 .. n -> Int] : PartialSums(g, f, n)
  BY PartialSumsExist
<1>2. QED
  BY <1>1, SumToIsLast

\* A sum of zeros is zero.
LEMMA SumToZero ==
  ASSUME NEW n \in Nat, NEW f, \A i \in 1 .. n : f[i] = 0
  PROVE  SumTo(f, n) = 0
<1> DEFINE g == [i \in 0 .. n |-> 0]
<1>1. PartialSums(g, f, n)
  BY DEF PartialSums
<1>2. SumTo(f, n) = g[n]
  BY <1>1, SumToIsLast
<1>3. QED
  BY <1>2

\* Equal terms give equal sums.
LEMMA SumToEqual ==
  ASSUME NEW n \in Nat, NEW f, NEW h, \A i \in 1 .. n : f[i] \in Int,
         \A i \in 1 .. n : h[i] = f[i]
  PROVE  SumTo(h, n) = SumTo(f, n)
<1>1. PICK g \in [0 .. n -> Int] : PartialSums(g, f, n)
  BY PartialSumsExist
<1>2. PartialSums(g, h, n)
  <2>1. \A i \in 0 .. n : (IF i = 0 THEN 0 ELSE g[i - 1] + f[i])
                         = (IF i = 0 THEN 0 ELSE g[i - 1] + h[i])
    OBVIOUS
  <2>2. QED
    BY <1>1, <2>1 DEF PartialSums
<1>3. QED
  BY <1>1, <1>2, SumToIsLast

\* One more term is added to the sum.
LEMMA SumToExtend ==
  ASSUME NEW n \in Nat, NEW f, \A i \in 1 .. n + 1 : f[i] \in Int
  PROVE  SumTo(f, n + 1) = SumTo(f, n) + f[n + 1]
<1>1. PICK g \in [0 .. n + 1 -> Int] : PartialSums(g, f, n + 1)
  BY PartialSumsExist
<1> DEFINE h == [i \in 0 .. n |-> g[i]]
<1>2. \A i \in 0 .. n + 1 : g[i] = IF i = 0 THEN 0 ELSE g[i - 1] + f[i]
  BY <1>1 DEF PartialSums
<1>3. PartialSums(h, f, n)
  <2>1. \A i \in 0 .. n : h[i] = IF i = 0 THEN 0 ELSE h[i - 1] + f[i]
    BY <1>2
  <2>2. QED
    BY <2>1 DEF PartialSums
<1>4. SumTo(f, n) = g[n] /\ SumTo(f, n + 1) = g[n + 1]
  <2>1. SumTo(f, n) = h[n]
    <3> HIDE DEF h
    <3>1. QED
      BY <1>3, SumToIsLast
  <2>2. QED
    BY <1>1, <2>1, SumToIsLast
<1>5. QED
  BY <1>2, <1>4

\* Replacing one term replaces it in the sum.
LEMMA SumToUpdate ==
  ASSUME NEW n \in Nat, NEW f, \A i \in 1 .. n : f[i] \in Int,
         NEW h, \A i \in 1 .. n : h[i] \in Int,
         NEW m \in 1 .. n, \A i \in (1 .. n) \ {m} : h[i] = f[i]
  PROVE  SumTo(h, n) = SumTo(f, n) + (h[m] - f[m])
<1>1. PICK g \in [0 .. n -> Int] : PartialSums(g, f, n)
  BY PartialSumsExist
<1> DEFINE k == [i \in 0 .. n |->
                   IF i < m THEN g[i] ELSE g[i] + (h[m] - f[m])]
<1>2. \A i \in 0 .. n : g[i] = IF i = 0 THEN 0 ELSE g[i - 1] + f[i]
  BY <1>1 DEF PartialSums
<1>3. ASSUME NEW i \in 0 .. n
      PROVE  k[i] = IF i = 0 THEN 0 ELSE k[i - 1] + h[i]
  <2>1. CASE i = 0
    BY <1>2, <2>1
  <2>2. CASE i # 0
    <3>1. i \in 1 .. n /\ i - 1 \in 0 .. n /\ g[i] = g[i - 1] + f[i]
      BY <1>1, <1>2, <2>2
    <3>2. CASE i < m
      BY <1>1, <2>2, <3>1, <3>2
    <3>3. CASE i = m
      BY <1>1, <2>2, <3>1, <3>3
    <3>4. CASE i > m
      <4>1. ~(i < m) /\ ~(i - 1 < m) /\ h[i] = f[i]
        BY <1>1, <3>1, <3>4
      <4>2. k[i] = g[i] + (h[m] - f[m]) /\ k[i - 1] = g[i - 1] + (h[m] - f[m])
        BY <3>1, <4>1
      <4>3. g[i - 1] \in Int /\ f[i] \in Int /\ h[m] \in Int /\ f[m] \in Int
        BY <3>1
      <4>4. QED
        BY <2>2, <3>1, <4>1, <4>2, <4>3
    <3>5. QED
      BY <1>1, <3>2, <3>3, <3>4
  <2>3. QED
    BY <2>1, <2>2
<1>4. PartialSums(k, h, n)
  BY <1>3 DEF PartialSums
<1>5. SumTo(h, n) = k[n] /\ SumTo(f, n) = g[n]
  <2> HIDE DEF k
  <2> QED  BY <1>1, <1>4, SumToIsLast
<1>6. QED
  BY <1>1, <1>5

\* The order in which a set is summed names each of its elements once.
LEMMA OrderNamesAll ==
  ASSUME NEW S, IsFiniteSet(S)
  PROVE  /\ Cardinality(S) \in Nat
         /\ OrderOf(S) \in [1 .. Cardinality(S) -> S]
         /\ \A x \in S : \E i \in 1 .. Cardinality(S) : OrderOf(S)[i] = x
         /\ \A i, j \in 1 .. Cardinality(S) :
              OrderOf(S)[i] = OrderOf(S)[j] => i = j
<1> DEFINE n == Cardinality(S)
<1>1. n \in Nat /\ ExistsBijection(1 .. n, S)
  BY FS_CardinalityType
<1>2. \E f \in [1 .. n -> S] : \A i, j \in 1 .. n : f[i] = f[j] => i = j
  BY <1>1 DEF ExistsBijection, Bijection, Injection, IsInjective
<1>3. /\ OrderOf(S) \in [1 .. n -> S]
      /\ \A i, j \in 1 .. n : OrderOf(S)[i] = OrderOf(S)[j] => i = j
  BY <1>2 DEF OrderOf
<1>4. OrderOf(S) \in Injection(1 .. n, S)
  BY <1>3 DEF Injection, IsInjective
<1>5. Cardinality(1 .. n) = n
  BY <1>1, FS_Interval
<1>6. OrderOf(S) \in Surjection(1 .. n, S)
  BY <1>1, <1>4, <1>5, FS_Injection
<1>7. QED
  BY <1>1, <1>3, <1>6 DEF Surjection

\* The same facts for sums over sets.
LEMMA SumOverType ==
  ASSUME NEW S, IsFiniteSet(S), NEW f, \A x \in S : f[x] \in Int
  PROVE  SumOver(f, S) \in Int
<1> DEFINE n == Cardinality(S)
           g == [i \in 1 .. n |-> f[OrderOf(S)[i]]]
<1>1. n \in Nat /\ \A i \in 1 .. n : g[i] \in Int
  BY OrderNamesAll
<1> HIDE DEF n, g
<1>2. SumTo(g, n) \in Int
  BY <1>1, SumToType
<1>3. QED
  BY <1>2 DEF SumOver, g, n

LEMMA SumOverZero ==
  ASSUME NEW S, IsFiniteSet(S), NEW f, \A x \in S : f[x] = 0
  PROVE  SumOver(f, S) = 0
<1> DEFINE n == Cardinality(S)
           g == [i \in 1 .. n |-> f[OrderOf(S)[i]]]
<1>1. n \in Nat /\ \A i \in 1 .. n : g[i] = 0
  BY OrderNamesAll
<1> HIDE DEF n, g
<1>2. SumTo(g, n) = 0
  BY <1>1, SumToZero
<1>3. QED
  BY <1>2 DEF SumOver, g, n

LEMMA SumOverEqual ==
  ASSUME NEW S, IsFiniteSet(S), NEW f, NEW h,
         \A x \in S : f[x] \in Int /\ h[x] = f[x]
  PROVE  SumOver(h, S) = SumOver(f, S)
<1> DEFINE n == Cardinality(S)
           g == [i \in 1 .. n |-> f[OrderOf(S)[i]]]
           k == [i \in 1 .. n |-> h[OrderOf(S)[i]]]
<1>1. n \in Nat /\ \A i \in 1 .. n : g[i] \in Int /\ k[i] = g[i]
  BY OrderNamesAll
<1> HIDE DEF n, g, k
<1>2. SumTo(k, n) = SumTo(g, n)
  BY <1>1, SumToEqual
<1>3. QED
  BY <1>2 DEF SumOver, g, k, n

LEMMA SumOverUpdate ==
  ASSUME NEW S, IsFiniteSet(S), NEW f, NEW h, NEW y \in S,
         \A x \in S : f[x] \in Int /\ h[x] \in Int,
         \A x \in S \ {y} : h[x] = f[x]
  PROVE  SumOver(h, S) = SumOver(f, S) + (h[y] - f[y])
<1> DEFINE n == Cardinality(S)
           g == [i \in 1 .. n |-> f[OrderOf(S)[i]]]
           k == [i \in 1 .. n |-> h[OrderOf(S)[i]]]
<1>1. PICK m \in 1 .. n : OrderOf(S)[m] = y
  BY OrderNamesAll
<1>2. /\ n \in Nat
      /\ \A i \in 1 .. n : g[i] \in Int /\ k[i] \in Int
      /\ g[m] = f[y] /\ k[m] = h[y]
  BY <1>1, OrderNamesAll
<1>3. ASSUME NEW i \in (1 .. n) \ {m}
      PROVE  k[i] = g[i]
  <2>1. OrderOf(S)[i] \in S \ {y}
    BY <1>1, OrderNamesAll
  <2>2. QED
    BY <2>1
<1> HIDE DEF n, g, k
<1>4. SumTo(k, n) = SumTo(g, n) + (k[m] - g[m])
  BY <1>2, <1>3, SumToUpdate
<1>5. QED
  BY <1>2, <1>4 DEF SumOver, g, k, n

\* What holds of the empty set and stays so with each element that is added
\* holds of a finite set.
LEMMA OneByOne ==
  ASSUME NEW S, IsFiniteSet(S), NEW P, {} \in P,
         \A T \in SUBSET S : \A x \in S \ T : T \in P => T \union {x} \in P
  PROVE  S \in P
<1> DEFINE Bad == {n \in Nat : \E T \in SUBSET S : T \notin P /\ Cardinality(T) = n}
<1>1. SUFFICES ASSUME S \notin P PROVE FALSE
  OBVIOUS
<1>2. \A T \in SUBSET S : IsFiniteSet(T) /\ Cardinality(T) \in Nat
  BY FS_Subset, FS_CardinalityType
<1>3. S \in SUBSET S
  OBVIOUS
<1>4. Cardinality(S) \in Bad /\ Bad \in SUBSET Nat
  BY <1>1, <1>2, <1>3
<1>5. PICK n \in Bad : \A k \in Bad : n <= k
  <2> HIDE DEF Bad
  <2> QED BY <1>4, LeastNatural
<1>6. PICK T \in SUBSET S : T \notin P /\ Cardinality(T) = n
  BY <1>5
<1>7. PICK x \in T : TRUE
  BY <1>6
<1>8. Cardinality(T \ {x}) \in Nat /\ Cardinality(T \ {x}) = n - 1
  BY <1>2, <1>6, <1>7, TakeOne
<1>9. n \in Nat
  BY <1>5
<1>10. T \ {x} \in P
  <2>1. Cardinality(T \ {x}) \notin Bad
    <3> HIDE DEF Bad
    <3> QED BY <1>5, <1>8, <1>9
  <2>2. T \ {x} \in SUBSET S
    BY <1>6
  <2>3. QED
    BY <1>8, <2>1, <2>2
<1>11. (T \ {x}) \union {x} \in P
  BY <1>6, <1>7, <1>10
<1>12. (T \ {x}) \union {x} = T
  BY <1>7
<1>13. QED
  BY <1>6, <1>11, <1>12

\* A sum over some of the elements, the others counting as zero.
Some(a, T, S) == [m \in S |-> IF m \in T THEN a[m] ELSE 0]

LEMMA SumOfSome ==
  ASSUME NEW S, IsFiniteSet(S), NEW a, \A m \in S : a[m] \in Nat,
         NEW T \in SUBSET S, NEW x \in S \ T
  PROVE  SumOver(Some(a, T \union {x}, S), S) = SumOver(Some(a, T, S), S) + a[x]
<1> DEFINE f == Some(a, T, S)
           h == Some(a, T \union {x}, S)
<1>1. /\ \A m \in S : f[m] \in Int /\ h[m] \in Int
      /\ \A m \in S \ {x} : h[m] = f[m]
      /\ f[x] = 0 /\ h[x] = a[x] /\ x \in S
  BY DEF Some
<1> HIDE DEF f, h
<1>2. SumOver(h, S) = SumOver(f, S) + (h[x] - f[x])
  BY <1>1, SumOverUpdate
<1>3. SumOver(f, S) \in Int
  BY <1>1, SumOverType
<1>4. SumOver(h, S) = SumOver(f, S) + a[x]
  <2>1. a[x] \in Int
    OBVIOUS
  <2>2. QED
    BY <1>1, <1>2, <1>3, <2>1
<1>5. QED
  BY <1>4 DEF f, h

LEMMA SumOfNone ==
  ASSUME NEW S, IsFiniteSet(S), NEW a
  PROVE  SumOver(Some(a, {}, S), S) = 0
<1>1. \A m \in S : Some(a, {}, S)[m] = 0
  BY DEF Some
<1>2. QED
  BY <1>1, SumOverZero

LEMMA SumOfAll ==
  ASSUME NEW S, IsFiniteSet(S), NEW a, \A m \in S : a[m] \in Nat
  PROVE  SumOver(Some(a, S, S), S) = SumOver(a, S)
<1>1. \A m \in S : a[m] \in Int /\ Some(a, S, S)[m] = a[m]
  BY DEF Some
<1>2. QED
  BY <1>1, SumOverEqual

\* A sum of naturals is a natural.
LEMMA SumOverNat ==
  ASSUME NEW S, IsFiniteSet(S), NEW a, \A m \in S : a[m] \in Nat
  PROVE  SumOver(a, S) \in Nat
<1> DEFINE P == {T \in SUBSET S : SumOver(Some(a, T, S), S) \in Nat}
<1>1. {} \in P
  BY SumOfNone
<1>2. ASSUME NEW T \in SUBSET S, NEW x \in S \ T, T \in P
      PROVE  T \union {x} \in P
  <2>1. SumOver(Some(a, T \union {x}, S), S) = SumOver(Some(a, T, S), S) + a[x]
    BY SumOfSome
  <2>2. SumOver(Some(a, T, S), S) \in Nat /\ a[x] \in Nat
    BY <1>2
  <2>3. SumOver(Some(a, T \union {x}, S), S) \in Nat
    BY <2>1, <2>2
  <2>4. QED
    BY <2>3
<1>3. S \in P
  <2> HIDE DEF P
  <2> QED BY <1>1, <1>2, OneByOne
<1>4. SumOver(Some(a, S, S), S) \in Nat
  BY <1>3
<1>5. QED
  BY <1>4, SumOfAll

\* Terms sorted by g into the parts K: the sums of the parts.
PartSums(a, g, K, S) ==
  [k \in K |-> SumOver([m \in S |-> IF g[m] = k THEN a[m] ELSE 0], S)]

LEMMA PartSumsType ==
  ASSUME NEW S, IsFiniteSet(S), NEW K, NEW a, \A m \in S : a[m] \in Nat, NEW g
  PROVE  \A k \in K : PartSums(a, g, K, S)[k] \in Nat
<1>1. ASSUME NEW k \in K
      PROVE  SumOver([m \in S |-> IF g[m] = k THEN a[m] ELSE 0], S) \in Nat
  <2> DEFINE f == [m \in S |-> IF g[m] = k THEN a[m] ELSE 0]
  <2>1. \A m \in S : f[m] \in Nat
    OBVIOUS
  <2> HIDE DEF f
  <2>2. SumOver(f, S) \in Nat
    BY <2>1, SumOverNat
  <2>3. QED
    BY <2>2 DEF f
<1>2. QED
  BY <1>1 DEF PartSums

\* One more term goes into its part, and into no other.
LEMMA PartSumsGrow ==
  ASSUME NEW S, IsFiniteSet(S), NEW K, IsFiniteSet(K), NEW a,
         \A m \in S : a[m] \in Nat, NEW g, NEW T \in SUBSET S, NEW x \in S \ T
  PROVE  LET before == SumOver(PartSums(Some(a, T, S), g, K, S), K)
             after  == SumOver(PartSums(Some(a, T \union {x}, S), g, K, S), K)
         IN  /\ before \in Nat
             /\ after = before + (IF g[x] \in K THEN a[x] ELSE 0)
<1> DEFINE b == Some(a, T, S)
           c == Some(a, T \union {x}, S)
           B == PartSums(b, g, K, S)
           C == PartSums(c, g, K, S)
           In(f, k) == [m \in S |-> IF g[m] = k THEN f[m] ELSE 0]
<1>1. /\ \A m \in S : b[m] \in Nat /\ c[m] \in Nat
      /\ \A m \in S \ {x} : c[m] = b[m]
      /\ b[x] = 0 /\ c[x] = a[x] /\ x \in S /\ a[x] \in Nat
  BY DEF Some
<1> HIDE DEF b, c
<1>2. \A k \in K : B[k] \in Nat /\ C[k] \in Nat
  BY <1>1, PartSumsType
<1>3. ASSUME NEW k \in K
      PROVE  C[k] = B[k] + (IF g[x] = k THEN a[x] ELSE 0)
  <2> DEFINE f == In(b, k)
             h == In(c, k)
  <2>1. /\ \A m \in S : f[m] \in Int /\ h[m] \in Int
        /\ \A m \in S \ {x} : h[m] = f[m]
        /\ f[x] = 0 /\ h[x] = IF g[x] = k THEN a[x] ELSE 0
    BY <1>1
  <2>2. B[k] = SumOver(f, S) /\ C[k] = SumOver(h, S)
    BY DEF PartSums
  <2> HIDE DEF f, h
  <2>0. x \in S
    BY <1>1
  <2>3. SumOver(h, S) = SumOver(f, S) + (h[x] - f[x])
    BY <2>0, <2>1, SumOverUpdate
  <2>4. SumOver(f, S) \in Int
    BY <2>1, SumOverType
  <2> HIDE DEF B, C
  <2>5. QED
    BY <1>1, <2>1, <2>2, <2>3, <2>4
<1> HIDE DEF B, C
<1>4. SumOver(B, K) \in Nat
  BY <1>2, SumOverNat
<1>5. CASE g[x] \in K
  <2>1. \A k \in K \ {g[x]} : C[k] = B[k]
    <3> SUFFICES ASSUME NEW k \in K \ {g[x]} PROVE C[k] = B[k]
      OBVIOUS
    <3>1. C[k] = B[k] + (IF g[x] = k THEN a[x] ELSE 0) /\ g[x] # k
      BY <1>3
    <3>2. B[k] \in Nat
      BY <1>2
    <3>3. QED
      BY <3>1, <3>2
  <2>2. \A k \in K : B[k] \in Int /\ C[k] \in Int
    BY <1>2
  <2>3. SumOver(C, K) = SumOver(B, K) + (C[g[x]] - B[g[x]])
    BY <1>5, <2>1, <2>2, SumOverUpdate
  <2>4. C[g[x]] = B[g[x]] + a[x] /\ B[g[x]] \in Nat
    BY <1>2, <1>3, <1>5
  <2>5. SumOver(C, K) = SumOver(B, K) + a[x]
    BY <1>1, <1>4, <2>3, <2>4
  <2>6. QED
    BY <1>4, <1>5, <2>5 DEF B, C, b, c
<1>6. CASE g[x] \notin K
  <2>1. \A k \in K : B[k] \in Int /\ C[k] = B[k]
    <3> SUFFICES ASSUME NEW k \in K PROVE B[k] \in Int /\ C[k] = B[k]
      OBVIOUS
    <3>1. C[k] = B[k] + (IF g[x] = k THEN a[x] ELSE 0) /\ g[x] # k
      BY <1>3, <1>6
    <3>2. B[k] \in Nat
      BY <1>2
    <3>3. QED
      BY <3>1, <3>2
  <2>2. SumOver(C, K) = SumOver(B, K)
    BY <2>1, SumOverEqual
  <2>3. QED
    BY <1>4, <1>6, <2>2 DEF B, C, b, c
<1>7. QED
  BY <1>5, <1>6

\* The parts add up to the whole, or to less where a term has no part.
LEMMA SumByParts ==
  ASSUME NEW S, IsFiniteSet(S), NEW K, IsFiniteSet(K), NEW a,
         \A m \in S : a[m] \in Nat, NEW g
  PROVE  /\ SumOver(PartSums(a, g, K, S), K) <= SumOver(a, S)
         /\ (\A m \in S : a[m] # 0 => g[m] \in K) =>
              SumOver(PartSums(a, g, K, S), K) = SumOver(a, S)
<1> DEFINE Parts(T) == SumOver(PartSums(Some(a, T, S), g, K, S), K)
           Whole(T) == SumOver(Some(a, T, S), S)
           All == \A m \in S : a[m] # 0 => g[m] \in K
           P == {T \in SUBSET S : /\ Parts(T) \in Nat /\ Whole(T) \in Nat
                                  /\ Parts(T) <= Whole(T)
                                  /\ All => Parts(T) = Whole(T)}
<1>1. {} \in P
  <2>1. Whole({}) = 0
    BY SumOfNone
  <2>2. \A k \in K : PartSums(Some(a, {}, S), g, K, S)[k] = 0
    <3> SUFFICES ASSUME NEW k \in K
                 PROVE  PartSums(Some(a, {}, S), g, K, S)[k] = 0
      OBVIOUS
    <3> DEFINE f == [m \in S |-> IF g[m] = k THEN Some(a, {}, S)[m] ELSE 0]
    <3>1. \A m \in S : f[m] = 0
      BY DEF Some
    <3>2. PartSums(Some(a, {}, S), g, K, S)[k] = SumOver(f, S)
      BY DEF PartSums
    <3> HIDE DEF f
    <3>3. SumOver(f, S) = 0
      BY <3>1, SumOverZero
    <3>4. QED
      BY <3>2, <3>3
  <2>3. Parts({}) = 0
    BY <2>2, SumOverZero
  <2> HIDE DEF Parts, Whole, All
  <2>4. QED
    BY <2>1, <2>3
<1>2. ASSUME NEW T \in SUBSET S, NEW x \in S \ T, T \in P
      PROVE  T \union {x} \in P
  <2>1. Whole(T \union {x}) = Whole(T) + a[x]
    BY SumOfSome
  <2>2. Parts(T \union {x}) = Parts(T) + (IF g[x] \in K THEN a[x] ELSE 0)
    BY PartSumsGrow
  <2>3. a[x] \in Nat /\ (All /\ g[x] \notin K => a[x] = 0)
    OBVIOUS
  <2>4. T \union {x} \in SUBSET S
    OBVIOUS
  <2> HIDE DEF Parts, Whole, All
  <2>5. /\ Parts(T) \in Nat /\ Whole(T) \in Nat /\ Parts(T) <= Whole(T)
        /\ All => Parts(T) = Whole(T)
    BY <1>2
  <2>6. CASE g[x] \in K
    <3>1. Parts(T \union {x}) = Parts(T) + a[x]
      BY <2>2, <2>6
    <3>2. QED
      BY <2>1, <2>3, <2>4, <2>5, <3>1
  <2>7. CASE g[x] \notin K
    <3>1. Parts(T \union {x}) = Parts(T)
      BY <2>2, <2>5, <2>7
    <3>2. QED
      BY <2>1, <2>3, <2>4, <2>5, <2>7, <3>1
  <2>8. QED
    BY <2>6, <2>7
<1>3. S \in P
  <2> HIDE DEF P
  <2> QED BY <1>1, <1>2, OneByOne
<1>4. Whole(S) = SumOver(a, S)
  BY SumOfAll
<1>5. PartSums(Some(a, S, S), g, K, S) = PartSums(a, g, K, S)
  <2>1. ASSUME NEW k \in K
        PROVE  [m \in S |-> IF g[m] = k THEN Some(a, S, S)[m] ELSE 0]
                 = [m \in S |-> IF g[m] = k THEN a[m] ELSE 0]
    BY DEF Some
  <2>2. QED
    BY <2>1 DEF PartSums
<1>6. Parts(S) = SumOver(PartSums(a, g, K, S), K)
  BY <1>5
<1> HIDE DEF Parts, Whole
<1>7. /\ Parts(S) <= Whole(S)
      /\ All => Parts(S) = Whole(S)
  BY <1>3
<1>8. QED
  BY <1>4, <1>6, <1>7
==============================================================================
