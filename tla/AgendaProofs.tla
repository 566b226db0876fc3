---------------------------- MODULE AgendaProofs -----------------------------
(***************************************************************************)
(* Proofs about Agenda: AgendaInv is an inductive invariant, so rows only  *)
(* lead to live rows of their user and ranges break only from races; and   *)
(* what the query of the streak counts, for every table of logs.           *)
(***************************************************************************)
EXTENDS AgendaInvariant, NumberLemmas

-----------------------------------------------------------------------------
(* Row numbers of finite sets of days                                        *)

\* ROW_NUMBER() of d, counted from the newest row of N.
RowsFrom(N, d) == {e \in N : e >= d}
RowsAfter(N, d) == {e \in N : e > d}
Rank(N, d) == Cardinality(RowsFrom(N, d))
After(N, d) == Cardinality(RowsAfter(N, d))

LEMMA RowsAreFinite ==
  ASSUME NEW N \in SUBSET Nat, IsFiniteSet(N), NEW d
  PROVE  /\ IsFiniteSet(RowsFrom(N, d)) /\ IsFiniteSet(RowsAfter(N, d))
         /\ Rank(N, d) \in Nat /\ After(N, d) \in Nat /\ Cardinality(N) \in Nat
         /\ Rank(N, d) <= Cardinality(N) /\ After(N, d) <= Cardinality(N)
<1>1. RowsFrom(N, d) \in SUBSET N /\ RowsAfter(N, d) \in SUBSET N
  BY DEF RowsFrom, RowsAfter
<1>2. /\ IsFiniteSet(RowsFrom(N, d)) /\ Cardinality(RowsFrom(N, d)) <= Cardinality(N)
  BY <1>1, FS_Subset
<1>3. /\ IsFiniteSet(RowsAfter(N, d)) /\ Cardinality(RowsAfter(N, d)) <= Cardinality(N)
  BY <1>1, FS_Subset
<1>4. QED
  BY <1>2, <1>3, FS_CardinalityType DEF Rank, After

\* A row counts itself and the rows after it.
LEMMA RankCountsItself ==
  ASSUME NEW N \in SUBSET Nat, IsFiniteSet(N), NEW d \in N
  PROVE  Rank(N, d) = After(N, d) + 1 /\ Rank(N, d) >= 1
<1>1. RowsFrom(N, d) = RowsAfter(N, d) \union {d} /\ d \notin RowsAfter(N, d)
  <2>1. d \in Nat /\ d \notin RowsAfter(N, d)
    BY DEF RowsAfter
  <2>2. \A e \in N : e >= d <=> e > d \/ e = d
    BY <2>1
  <2>3. QED
    BY <2>1, <2>2 DEF RowsFrom, RowsAfter
<1>2. IsFiniteSet(RowsAfter(N, d)) /\ After(N, d) \in Nat
  BY RowsAreFinite
<1>3. Cardinality(RowsAfter(N, d) \union {d}) = Cardinality(RowsAfter(N, d)) + 1
  BY <1>1, <1>2, AddOne
<1>4. QED
  BY <1>1, <1>2, <1>3 DEF Rank, After

\* An older row has a higher number.
LEMMA RankFalls ==
  ASSUME NEW N \in SUBSET Nat, IsFiniteSet(N), NEW c \in N, NEW d \in N, c < d
  PROVE  Rank(N, d) < Rank(N, c)
<1>1. RowsFrom(N, d) \in SUBSET RowsFrom(N, c) /\ RowsFrom(N, d) # RowsFrom(N, c)
  <2>1. c \in Nat /\ d \in Nat /\ c \in RowsFrom(N, c) /\ c \notin RowsFrom(N, d)
    BY DEF RowsFrom
  <2>2. ASSUME NEW e \in RowsFrom(N, d) PROVE e \in RowsFrom(N, c)
    BY <2>1 DEF RowsFrom
  <2>3. QED
    BY <2>1, <2>2
<1>2. IsFiniteSet(RowsFrom(N, c)) /\ Rank(N, c) \in Nat /\ Rank(N, d) \in Nat
  BY RowsAreFinite
<1>3. /\ Cardinality(RowsFrom(N, d)) <= Cardinality(RowsFrom(N, c))
      /\ Cardinality(RowsFrom(N, d)) # Cardinality(RowsFrom(N, c))
  BY <1>1, <1>2, FS_Subset
<1>4. QED
  BY <1>2, <1>3 DEF Rank

\* The rows are numbered from 1 without a gap.
LEMMA RanksAreAll ==
  ASSUME NEW N \in SUBSET Nat, IsFiniteSet(N), NEW k \in 1 .. Cardinality(N)
  PROVE  \E d \in N : Rank(N, d) = k
<1> DEFINE n == Cardinality(N)
           f == [d \in N |-> Rank(N, d)]
<1>1. n \in Nat
  BY FS_CardinalityType
<1>2. \A d \in N : Rank(N, d) \in 1 .. n
  BY <1>1, RowsAreFinite, RankCountsItself
<1>3. \A c, d \in N : Rank(N, c) = Rank(N, d) => c = d
  <2>1. ASSUME NEW c \in N, NEW d \in N, Rank(N, c) = Rank(N, d), c # d PROVE FALSE
    <3>1. CASE c < d
      BY <1>2, <2>1, <3>1, RankFalls
    <3>2. CASE d < c
      BY <1>2, <2>1, <3>2, RankFalls
    <3>3. QED
      BY <2>1, <3>1, <3>2
  <2>2. QED
    BY <2>1
<1>4. IsFiniteSet(1 .. n) /\ Cardinality(1 .. n) = n
  BY <1>1, FS_Interval
<1>5. f \in Injection(N, 1 .. n)
  BY <1>2, <1>3 DEF Injection, IsInjective
<1> HIDE DEF f
<1>6. f \in Surjection(N, 1 .. n)
  BY <1>4, <1>5, FS_Injection
<1>7. QED
  BY <1>6 DEF Surjection, f

\* As many rows as that have a number up to s.
LEMMA RowsUpTo ==
  ASSUME NEW N \in SUBSET Nat, IsFiniteSet(N), NEW s \in 0 .. Cardinality(N)
  PROVE  /\ IsFiniteSet({d \in N : Rank(N, d) <= s})
         /\ Cardinality({d \in N : Rank(N, d) <= s}) = s
<1> DEFINE R == {d \in N : Rank(N, d) <= s}
           f == [d \in R |-> Rank(N, d)]
<1>1. Cardinality(N) \in Nat /\ s \in Nat
  BY FS_CardinalityType
<1>2. IsFiniteSet(R)
  BY FS_Subset
<1>3. \A d \in R : Rank(N, d) \in 1 .. s
  BY <1>1, RowsAreFinite, RankCountsItself
<1>4. \A c, d \in R : Rank(N, c) = Rank(N, d) => c = d
  <2>1. ASSUME NEW c \in R, NEW d \in R, Rank(N, c) = Rank(N, d), c # d PROVE FALSE
    <3>1. CASE c < d
      BY <1>3, <2>1, <3>1, RankFalls
    <3>2. CASE d < c
      BY <1>3, <2>1, <3>2, RankFalls
    <3>3. QED
      BY <2>1, <3>1, <3>2
  <2>2. QED
    BY <2>1
<1>5. IsFiniteSet(1 .. s) /\ Cardinality(1 .. s) = s
  BY <1>1, FS_Interval
<1>6. \A k \in 1 .. s : \E d \in R : Rank(N, d) = k
  BY <1>1, RanksAreAll
<1>7. f \in Injection(R, 1 .. s) /\ f \in Surjection(R, 1 .. s)
  <2>1. f \in [R -> 1 .. s]
    BY <1>3
  <2>2. \A c, d \in R : f[c] = f[d] => c = d
    BY <1>4
  <2>3. \A k \in 1 .. s : \E d \in R : f[d] = k
    BY <1>6
  <2> HIDE DEF f, R
  <2>4. QED
    BY <2>1, <2>2, <2>3 DEF Injection, Surjection, IsInjective
<1> HIDE DEF f, R
<1>8. Cardinality(R) = s
  BY <1>5, <1>7, FS_Injection
<1>9. QED
  BY <1>2, <1>8 DEF R

\* A finite set of days has a newest one.
LEMMA NewestDay ==
  ASSUME NEW N \in SUBSET Nat, IsFiniteSet(N), N # {}
  PROVE  Max(N) \in N /\ \A d \in N : d <= Max(N)
<1> DEFINE ranks == {Rank(N, d) : d \in N}
<1>1. ranks \in SUBSET Nat /\ ranks # {}
  BY RowsAreFinite
<1> HIDE DEF ranks
<1>2. PICK n \in ranks : \A k \in ranks : n <= k
  BY <1>1, LeastNatural
<1>3. PICK d \in N : n = Rank(N, d)
  BY DEF ranks
<1>4. ASSUME NEW e \in N PROVE d >= e
  <2>1. Rank(N, e) \in Nat /\ Rank(N, d) \in Nat /\ Rank(N, d) <= Rank(N, e)
    BY <1>2, <1>3, RowsAreFinite DEF ranks
  <2>2. d < e => Rank(N, e) < Rank(N, d)
    BY RankFalls
  <2>3. QED
    BY <2>1, <2>2
<1>5. \E x \in N : \A y \in N : x >= y
  BY <1>4
<1>6. Max(N) \in N /\ \A y \in N : Max(N) >= y
  BY <1>5 DEF Max
<1>7. QED
  BY <1>6

LEMMA LeastRank ==
  ASSUME NEW S \in SUBSET Nat, S # {}
  PROVE  Min(S) \in S /\ \A k \in S : Min(S) <= k
<1>1. \E x \in S : \A y \in S : x <= y
  BY LeastNatural
<1>2. QED
  BY <1>1 DEF Min

\* The numbers of the rows and the skips between them count the logs after d.
LEMMA RowsAndSkips ==
  ASSUME NEW M \in SUBSET Nat, IsFiniteSet(M), NEW N \in SUBSET M, NEW d \in N
  PROVE  Rank(N, d) - 1 + After(M \ N, d) = After(M, d)
<1>1. IsFiniteSet(N) /\ IsFiniteSet(M \ N)
  BY FS_Subset
<1>2. RowsAfter(M, d) = RowsAfter(N, d) \union RowsAfter(M \ N, d)
      /\ RowsAfter(N, d) \intersect RowsAfter(M \ N, d) = {}
  BY DEF RowsAfter
<1>3. /\ IsFiniteSet(RowsAfter(N, d)) /\ IsFiniteSet(RowsAfter(M \ N, d))
      /\ After(N, d) \in Nat /\ After(M \ N, d) \in Nat
  BY <1>1, RowsAreFinite
<1>4. Cardinality(RowsAfter(N, d) \union RowsAfter(M \ N, d))
        = Cardinality(RowsAfter(N, d)) + Cardinality(RowsAfter(M \ N, d))
  <2>1. Cardinality(RowsAfter(N, d) \union RowsAfter(M \ N, d))
          = Cardinality(RowsAfter(N, d)) + Cardinality(RowsAfter(M \ N, d))
              - Cardinality(RowsAfter(N, d) \intersect RowsAfter(M \ N, d))
    BY <1>3, FS_Union
  <2>2. Cardinality(RowsAfter(N, d) \intersect RowsAfter(M \ N, d)) = 0
    BY <1>2, FS_EmptySet
  <2>3. QED
    BY <1>3, <2>1, <2>2 DEF After
<1>5. Rank(N, d) = After(N, d) + 1
  BY <1>1, RankCountsItself
<1>6. QED
  BY <1>2, <1>3, <1>4, <1>5 DEF After

\* As many logs after d as days means that every day has one.
LEMMA EveryDayLogged ==
  ASSUME NEW M \in SUBSET Nat, IsFiniteSet(M), NEW d \in M, NEW a \in M,
         \A e \in M : e <= a
  PROVE  d + After(M, d) = a <=> d .. a \subseteq M
<1>1. RowsAfter(M, d) \in SUBSET (d + 1 .. a) /\ d \in Nat /\ a \in Nat /\ d <= a
  <2>1. d \in Nat /\ a \in Nat /\ d <= a
    OBVIOUS
  <2>2. \A e \in M : e \in Nat /\ (e > d => e \in d + 1 .. a)
    BY <2>1
  <2>3. QED
    BY <2>1, <2>2 DEF RowsAfter
<1>2. IsFiniteSet(d + 1 .. a) /\ Cardinality(d + 1 .. a) = a - d
  <2>1. d + 1 \in Int /\ a \in Int
    BY <1>1
  <2>2. IsFiniteSet(d + 1 .. a)
        /\ Cardinality(d + 1 .. a) = IF d + 1 > a THEN 0 ELSE a - (d + 1) + 1
    BY <2>1, FS_Interval
  <2>3. QED
    BY <1>1, <2>2
<1>3. After(M, d) \in Nat
  BY RowsAreFinite
<1>4. After(M, d) = a - d => RowsAfter(M, d) = d + 1 .. a
  BY <1>1, <1>2, FS_Subset DEF After
<1>5. RowsAfter(M, d) = d + 1 .. a => After(M, d) = a - d
  BY <1>2 DEF After
<1>6. RowsAfter(M, d) = d + 1 .. a <=> d .. a \subseteq M
  BY <1>1 DEF RowsAfter
<1>7. QED
  BY <1>1, <1>3, <1>4, <1>5, <1>6
\* No log is not a status.
LEMMA DoneIsNotNone == None \notin Statuses
BY DaysAssumption DEF Statuses, HABIT_LOG_STATUSES

-----------------------------------------------------------------------------
(* The query of a table of logs                                              *)

\* The logs on scheduled days; those that are numbered; the ones that end it.
Masked(table, mask) == {d \in Days : table[d] # None /\ Scheduled(d, mask)}
Numbered(table, mask) == {d \in Masked(table, mask) : table[d] # "skipped"}
Cuts(table, mask, d) ==
  \/ table[d] \in {"missed", "not_done"}
  \/ d + (Rank(Numbered(table, mask), d) - 1
          + After(Masked(table, mask) \ Numbered(table, mask), d)) # Max(Masked(table, mask))
CutRanks(table, mask) ==
  {Rank(Numbered(table, mask), d) :
     d \in {e \in Numbered(table, mask) : Cuts(table, mask, e)}}

LEMMA QueryIsRanks ==
  ASSUME NEW table, NEW mask
  PROVE  current_streak(table, mask) =
           (IF CutRanks(table, mask) = {} THEN Cardinality(Numbered(table, mask)) + 1
            ELSE Min(CutRanks(table, mask))) - 1
BY DEF current_streak, CutRanks, Cuts, Numbered, Masked, Rank, After, RowsFrom, RowsAfter

LEMMA LogsAreDays ==
  ASSUME NEW table, NEW mask
  PROVE  /\ Masked(table, mask) \in SUBSET Nat /\ IsFiniteSet(Masked(table, mask))
         /\ Numbered(table, mask) \in SUBSET Masked(table, mask)
         /\ Numbered(table, mask) \in SUBSET Nat /\ IsFiniteSet(Numbered(table, mask))
         /\ Cardinality(Numbered(table, mask)) \in Nat
<1>1. Masked(table, mask) \in SUBSET Days /\ Numbered(table, mask) \in SUBSET Masked(table, mask)
  BY DEF Masked, Numbered
<1>2. Days \in SUBSET Nat /\ IsFiniteSet(Days)
  BY DaysAssumption
<1>3. IsFiniteSet(Masked(table, mask))
  BY <1>1, <1>2, FS_Subset
<1>4. IsFiniteSet(Numbered(table, mask))
  BY <1>1, <1>3, FS_Subset
<1>5. QED
  BY <1>1, <1>2, <1>3, <1>4, FS_CardinalityType

\* A row is uncut when it is done and every day from it to the newest log is
\* logged.
LEMMA UncutRow ==
  ASSUME NEW table \in Logs, NEW mask, NEW d \in Numbered(table, mask)
  PROVE  ~Cuts(table, mask, d) <=>
           /\ table[d] = "done"
           /\ d .. Max(Masked(table, mask)) \subseteq Masked(table, mask)
<1> DEFINE M == Masked(table, mask)
           N == Numbered(table, mask)
<1>1. /\ M \in SUBSET Nat /\ IsFiniteSet(M) /\ N \in SUBSET M /\ d \in M /\ d \in N
  BY LogsAreDays
<1>2. table[d] \in {"done", "missed", "not_done"}
  <2>1. d \in Days /\ table[d] # None /\ table[d] # "skipped"
    BY DEF Numbered, Masked
  <2>2. table[d] \in Statuses \union {None}
    BY <2>1 DEF Logs
  <2>3. QED
    BY <2>1, <2>2 DEF Statuses, HABIT_LOG_STATUSES
<1>3. Cuts(table, mask, d) <=>
        \/ table[d] \in {"missed", "not_done"}
        \/ d + (Rank(N, d) - 1 + After(M \ N, d)) # Max(M)
  BY DEF Cuts
<1> HIDE DEF M, N
<1>4. Rank(N, d) - 1 + After(M \ N, d) = After(M, d)
  BY <1>1, RowsAndSkips
<1>5. Max(M) \in M /\ \A e \in M : e <= Max(M)
  BY <1>1, NewestDay
<1>6. PICK a \in M : a = Max(M)
  BY <1>5
<1>7. d + After(M, d) = a <=> d .. a \subseteq M
  <2>1. \A e \in M : e <= a
    BY <1>5, <1>6
  <2>2. QED
    BY <1>1, <2>1, EveryDayLogged
<1>8. QED
  BY <1>2, <1>3, <1>4, <1>6, <1>7 DEF M

\* The rows the streak counts: up to the first cut.
LEMMA StreakRows ==
  ASSUME NEW table, NEW mask
  PROVE  /\ current_streak(table, mask) \in 0 .. Cardinality(Numbered(table, mask))
         /\ \A d \in Numbered(table, mask) :
              Rank(Numbered(table, mask), d) <= current_streak(table, mask) <=>
                \A e \in Numbered(table, mask) : e >= d => ~Cuts(table, mask, e)
<1> DEFINE N == Numbered(table, mask)
           cut == CutRanks(table, mask)
           s == current_streak(table, mask)
           Cut(e) == Cuts(table, mask, e)
<1>1. N \in SUBSET Nat /\ IsFiniteSet(N) /\ Cardinality(N) \in Nat
  BY LogsAreDays
<1>2. \A e \in N : Rank(N, e) \in 1 .. Cardinality(N)
  <2> HIDE DEF N
  <2>1. QED
    BY <1>1, RowsAreFinite, RankCountsItself
<1>3. s = (IF cut = {} THEN Cardinality(N) + 1 ELSE Min(cut)) - 1
  BY QueryIsRanks
<1>4. \A k : k \in cut <=> \E e \in N : Cut(e) /\ k = Rank(N, e)
  BY DEF CutRanks
<1> HIDE DEF N, cut, s, Cut
<1>5. cut \in SUBSET Nat /\ \A k \in cut : k \in 1 .. Cardinality(N)
  BY <1>2, <1>4
<1>6. cut # {} => Min(cut) \in cut /\ \A k \in cut : Min(cut) <= k
  BY <1>5, LeastRank
<1>7. s \in 0 .. Cardinality(N) /\ \A k \in cut : s < k
  <2>1. CASE cut = {}
    BY <1>1, <1>3, <2>1
  <2>2. CASE cut # {}
    <3>1. PICK n \in cut : n = Min(cut)
      BY <1>6, <2>2
    <3>2. n \in 1 .. Cardinality(N) /\ s = n - 1 /\ \A k \in cut : k \in Nat /\ n <= k
      BY <1>3, <1>5, <1>6, <2>2, <3>1
    <3>3. QED
      BY <1>1, <3>2
  <2>3. QED
    BY <2>1, <2>2
<1>8. ASSUME NEW d \in N
      PROVE  Rank(N, d) <= s <=> \A e \in N : e >= d => ~Cut(e)
  <2>1. ASSUME Rank(N, d) <= s, NEW e \in N, e >= d PROVE ~Cut(e)
    <3>1. SUFFICES ASSUME Cut(e) PROVE FALSE
      OBVIOUS
    <3>2. Rank(N, e) \in cut
      BY <1>4, <3>1
    <3>3. s < Rank(N, e)
      BY <1>7, <3>2
    <3>4. Rank(N, e) <= Rank(N, d)
      <4>1. CASE e = d
        BY <1>2, <4>1
      <4>2. CASE e # d
        <5>1. d < e
          BY <1>1, <2>1, <4>2
        <5>2. QED
          BY <1>1, <1>2, <5>1, RankFalls
      <4>3. QED
        BY <4>1, <4>2
    <3>5. QED
      BY <1>2, <1>7, <2>1, <3>3, <3>4
  <2>2. ASSUME \A e \in N : e >= d => ~Cut(e) PROVE Rank(N, d) <= s
    <3>1. CASE cut = {}
      BY <1>1, <1>2, <1>3, <3>1
    <3>2. CASE cut # {}
      <4>1. PICK c \in N : Cut(c) /\ Min(cut) = Rank(N, c)
        BY <1>4, <1>6, <3>2
      <4>2. c < d
        BY <1>1, <2>2, <4>1
      <4>3. Rank(N, d) < Rank(N, c)
        BY <1>1, <4>2, RankFalls
      <4>4. QED
        BY <1>1, <1>2, <1>3, <3>2, <4>1, <4>3
    <3>3. QED
      BY <3>1, <3>2
  <2>3. QED
    BY <2>1, <2>2
<1>9. QED
  BY <1>7, <1>8 DEF N, s, Cut

\* The days the comment counts.
Documented(table, mask) ==
  {d \in Days : /\ table[d] = "done" /\ Scheduled(d, mask)
                /\ Unbroken(table, mask, d)}

LEMMA DocumentedDays ==
  ASSUME NEW table \in Logs, NEW mask
  PROVE  /\ StreakAsDocumented(table, mask) = Cardinality(Documented(table, mask))
         /\ IsFiniteSet(Documented(table, mask))
         /\ \A d : d \in Documented(table, mask) <=>
              /\ d \in Numbered(table, mask) /\ table[d] = "done"
              /\ \A e \in d .. Max(Masked(table, mask)) :
                   Scheduled(e, mask) => table[e] \in {"done", "skipped"}
<1>1. StreakAsDocumented(table, mask) = Cardinality(Documented(table, mask))
  BY DEF StreakAsDocumented, Documented
<1>2. IsFiniteSet(Documented(table, mask))
  <2>1. Documented(table, mask) \in SUBSET Days
    BY DEF Documented
  <2>2. QED
    BY <2>1, DaysAssumption, FS_Subset
<1>3. \A d \in Days : table[d] = "done" =>
        (Scheduled(d, mask) <=> d \in Numbered(table, mask))
  <2>1. None # "done"
    BY DoneIsNotNone DEF Statuses, HABIT_LOG_STATUSES
  <2>2. QED
    BY <2>1 DEF Numbered, Masked
<1>4. \A d : Unbroken(table, mask, d) <=>
        \A e \in d .. Max(Masked(table, mask)) :
          Scheduled(e, mask) => table[e] \in {"done", "skipped"}
  BY DEF Unbroken, Masked
<1>5. Numbered(table, mask) \subseteq Days
  BY DEF Numbered, Masked
<1>6. QED
  BY <1>1, <1>2, <1>3, <1>4, <1>5 DEF Documented

\* The query never counts too much, and counts what the comment says when every
\* day is scheduled.
LEMMA QueryCountsTheRun ==
  ASSUME NEW table \in Logs, NEW mask
  PROVE  /\ current_streak(table, mask) <= StreakAsDocumented(table, mask)
         /\ mask = {} => current_streak(table, mask) = StreakAsDocumented(table, mask)
<1> DEFINE M == Masked(table, mask)
           N == Numbered(table, mask)
           D == Documented(table, mask)
           s == current_streak(table, mask)
           R == {d \in N : Rank(N, d) <= s}
<1>1. /\ M \in SUBSET Nat /\ IsFiniteSet(M) /\ N \in SUBSET M
      /\ N \in SUBSET Nat /\ IsFiniteSet(N) /\ Cardinality(N) \in Nat
  BY LogsAreDays
<1>2. s \in 0 .. Cardinality(N)
  BY StreakRows
<1>3. \A d \in N : Rank(N, d) <= s <=> \A e \in N : e >= d => ~Cuts(table, mask, e)
  BY StreakRows
<1>4. \A d \in N : ~Cuts(table, mask, d) <=>
                     table[d] = "done" /\ d .. Max(M) \subseteq M
  BY UncutRow
<1>5. \A e \in M : e \in N \/ table[e] = "skipped"
  BY DEF Numbered
<1>6. \A d : d \in D <=>
         /\ d \in N /\ table[d] = "done"
         /\ \A e \in d .. Max(M) : Scheduled(e, mask) => table[e] \in {"done", "skipped"}
  BY DocumentedDays
<1>7. IsFiniteSet(D) /\ StreakAsDocumented(table, mask) = Cardinality(D)
  BY DocumentedDays
<1>8. M # {} => Max(M) \in M
  <2> HIDE DEF M
  <2>1. QED
    BY <1>1, NewestDay
<1>9. mask = {} => \A d \in Days : table[d] # None => d \in M
  BY DEF Masked, Scheduled
<1>10. M \in SUBSET Days
  BY DEF Masked
<1> HIDE DEF M, N, D, s
<1>11. IsFiniteSet(R) /\ Cardinality(R) = s
  BY <1>1, <1>2, RowsUpTo
<1>12. R \subseteq D
  <2>1. ASSUME NEW d \in R PROVE d \in D
    <3>1. d \in N /\ d \in Nat /\ \A e \in N : e >= d => ~Cuts(table, mask, e)
      BY <1>1, <1>3
    <3>2. table[d] = "done" /\ d .. Max(M) \subseteq M
      BY <1>4, <3>1
    <3>3. ASSUME NEW e \in d .. Max(M) PROVE table[e] \in {"done", "skipped"}
      <4>1. e \in M /\ e >= d
        BY <3>1, <3>2
      <4>2. CASE e \in N
        BY <1>4, <3>1, <4>1, <4>2
      <4>3. QED
        BY <1>5, <4>1, <4>2
    <3>4. QED
      BY <1>6, <3>1, <3>2, <3>3
  <2>2. QED
    BY <2>1
<1>13. s <= Cardinality(D)
  BY <1>7, <1>11, <1>12, FS_Subset
<1>14. ASSUME mask = {} PROVE D \subseteq R
  <2>1. ASSUME NEW d \in D PROVE d \in R
    <3>1. /\ d \in N /\ d \in M /\ d \in Days /\ d \in Nat
          /\ \A e \in d .. Max(M) : table[e] \in {"done", "skipped"}
      <4>1. \A e : Scheduled(e, mask)
        BY <1>14 DEF Scheduled
      <4>2. QED
        BY <1>1, <1>6, <1>10, <4>1
    <3>2. Max(M) \in Days /\ Max(M) \in M
      BY <1>8, <1>10, <3>1
    <3>3. d .. Max(M) \subseteq M
      <4>1. d .. Max(M) \subseteq Days
        BY <3>1, <3>2, DaysAssumption
      <4>2. ASSUME NEW e \in d .. Max(M) PROVE e \in M
        <5>1. e \in Days /\ table[e] # None
          BY <3>1, <4>1, DoneIsNotNone DEF Statuses, HABIT_LOG_STATUSES
        <5>2. QED
          BY <1>9, <1>14, <5>1
      <4>3. QED
        BY <4>2
    <3>4. ASSUME NEW e \in N, e >= d PROVE ~Cuts(table, mask, e)
      <4>1. e \in M /\ e \in Nat /\ e <= Max(M)
        BY <1>1, NewestDay
      <4>2. e \in d .. Max(M) /\ Max(M) \in Nat
        <5>1. PICK a \in M : a = Max(M)
          BY <3>2
        <5>2. a \in Nat /\ e \in d .. a
          BY <1>1, <3>1, <3>4, <4>1, <5>1
        <5>3. QED
          BY <5>1, <5>2
      <4>3. table[e] = "done"
        BY <3>1, <4>2 DEF N, Numbered
      <4>4. \A x \in e .. Max(M) : x \in d .. Max(M)
        BY <3>1, <3>4, <4>1, <4>2
      <4>5. QED
        BY <1>4, <3>3, <4>3, <4>4
    <3>5. QED
      BY <1>3, <3>1, <3>4
  <2>2. QED
    BY <2>1
<1>15. QED
  BY <1>7, <1>11, <1>12, <1>13, <1>14 DEF s

-----------------------------------------------------------------------------
(* What a request can be                                                     *)

\* SQL NULL is no number, no status, no id and no category.
LEMMA NoneIsNothing ==
  /\ None \notin Nat /\ None \notin Statuses /\ None \notin Categories
  /\ None \notin Habits /\ None \notin Days
  /\ OwnCategories \subseteq Categories /\ OwnHabits \subseteq Habits
  /\ Days \subseteq Nat /\ Horizon \in Days /\ MaxRequests \in Nat
BY DaysAssumption, PlannerAssumption, PastAssumption

Ids == Habits \union Goals \union Events \union Notes \union {None}
LEMMA IdleIsRequest ==
  /\ NoBody \in Body /\ IdleRequest \in Request
  /\ IdleRequest.pc = "idle" /\ IdleRequest.op = "none" /\ IdleRequest.body = NoBody
  /\ NoBody.habit = None /\ NoBody.category = None
<1>1. NoBody \in Body
  BY DEF NoBody, Body
<1>2. QED
  BY <1>1 DEF IdleRequest, NoBody, Request, Pcs, Ops

\* Request r becomes q; the others stay.
Becomes(r, q) ==
  /\ q \in Request /\ req' \in [Requests -> Request] /\ started' \in 0 .. MaxRequests
  /\ req'[r] = q /\ \A x \in Requests \ {r} : req'[x] = req[x]

LEMMA StartBecomes ==
  ASSUME TypeOK, NEW r \in Requests, NEW op \in Ops, NEW id \in Ids, NEW body \in Body,
         NEW pc \in Pcs, Start(r, op, id, body, pc)
  PROVE  /\ Becomes(r, [pc |-> pc, op |-> op, id |-> id, body |-> body, snap |-> None])
         /\ req[r].pc = "idle"
<1> DEFINE q == [pc |-> pc, op |-> op, id |-> id, body |-> body, snap |-> None]
<1>1. q \in Request
  BY DEF Request, Ids
<1>2. req' = [req EXCEPT ![r] = q] /\ started' = started + 1 /\ started < MaxRequests
  BY DEF Start
<1> HIDE DEF q
<1>3. /\ req' \in [Requests -> Request] /\ req'[r] = q
      /\ \A x \in Requests \ {r} : req'[x] = req[x]
  BY <1>1, <1>2 DEF TypeOK
<1>4. started' \in 0 .. MaxRequests
  BY <1>2, NoneIsNothing DEF TypeOK
<1>5. Becomes(r, q)
  BY <1>1, <1>3, <1>4 DEF Becomes
<1>6. QED
  BY <1>5 DEF Start, q

LEMMA EndBecomes ==
  ASSUME TypeOK, NEW r \in Requests, End(r)
  PROVE  Becomes(r, IdleRequest)
<1>1. req' = [req EXCEPT ![r] = IdleRequest] /\ started' = started
  BY DEF End
<1>2. /\ req' \in [Requests -> Request] /\ req'[r] = IdleRequest
      /\ \A x \in Requests \ {r} : req'[x] = req[x]
  BY <1>1, IdleIsRequest DEF TypeOK
<1>3. QED
  BY <1>1, <1>2, IdleIsRequest DEF Becomes, TypeOK

\* Another stage of the same request.
LEMMA GotoBecomes ==
  ASSUME TypeOK, NEW r \in Requests, NEW pc \in Pcs, Goto(r, pc)
  PROVE  \E q \in Request :
           /\ Becomes(r, q) /\ q.pc = pc
           /\ q.op = req[r].op /\ q.id = req[r].id /\ q.body = req[r].body
           /\ q.snap = req[r].snap
<1>1. PICK p \in Request : p = req[r]
  BY DEF TypeOK
<1> DEFINE q == [p EXCEPT !.pc = pc]
<1>2. /\ q \in Request /\ q.pc = pc /\ q.op = p.op /\ q.id = p.id /\ q.body = p.body
      /\ q.snap = p.snap
  BY DEF Request
<1>3. req' = [req EXCEPT ![r] = q] /\ started' = started
  BY <1>1 DEF Goto
<1> HIDE DEF q
<1>4. /\ req' \in [Requests -> Request] /\ req'[r] = q
      /\ \A x \in Requests \ {r} : req'[x] = req[x]
  BY <1>2, <1>3 DEF TypeOK
<1>5. Becomes(r, q)
  BY <1>2, <1>3, <1>4 DEF Becomes, TypeOK
<1>6. QED
  BY <1>1, <1>2, <1>5

LEMMA ValidatedBecomes ==
  ASSUME TypeOK, NEW r \in Requests, NEW pc \in Pcs, NEW dates \in Dates,
         Validated(r, pc, dates)
  PROVE  \E q \in Request :
           /\ Becomes(r, q) /\ q.pc = pc /\ q.snap = dates
           /\ q.op = req[r].op /\ q.id = req[r].id /\ q.body = req[r].body
<1>1. PICK p \in Request : p = req[r]
  BY DEF TypeOK
<1> DEFINE q == [p EXCEPT !.pc = pc, !.snap = dates]
<1>2. /\ q \in Request /\ q.pc = pc /\ q.op = p.op /\ q.id = p.id /\ q.body = p.body
      /\ q.snap = dates
  BY DEF Request
<1>3. req' = [req EXCEPT ![r] = q] /\ started' = started
  <2>1. req' = [req EXCEPT ![r].pc = pc, ![r].snap = dates]
    BY DEF Validated
  <2>2. req \in [Requests -> Request]
    BY DEF TypeOK
  <2>3. QED
    BY <1>1, <2>1, <2>2 DEF Validated
<1> HIDE DEF q
<1>4. /\ req' \in [Requests -> Request] /\ req'[r] = q
      /\ \A x \in Requests \ {r} : req'[x] = req[x]
  BY <1>2, <1>3 DEF TypeOK
<1>5. Becomes(r, q)
  BY <1>2, <1>3, <1>4 DEF Becomes, TypeOK
<1>6. QED
  BY <1>1, <1>2, <1>5

-----------------------------------------------------------------------------
(* What the handlers know                                                    *)

\* The inductive invariant without what follows from it.
BaseInv == TypeOK /\ RowsInv /\ \A r \in Requests : Knows(req[r])

\* What nobody can take back from a PATCH that has read its habit.
HabitsMoveOn ==
  \A h \in Habits :
    habits[h].state # "unused" =>
      /\ habits'[h].state # "unused"
      /\ MyHabit(h)' => MyHabit(h) /\ habits'[h].start = habits[h].start

LEMMA KnowsStays ==
  ASSUME NEW q \in Request, Knows(q), HabitsMoveOn, today \in Nat, today' \in Nat,
         today <= today'
  PROVE  Knows(q)'
<1>1. SaysItsRow(q)'
  <2>1. q.op \in LogOps => q.body.date \in Nat /\ q.body.date <= today
    BY NoneIsNothing DEF Knows, SaysItsRow
  <2>2. QED
    BY <2>1 DEF Knows, SaysItsRow
<1>2. KnowsItsLinks(q)'
  BY DEF Knows, KnowsItsLinks
<1>3. KnowsItsDates(q)'
  <2>1. q.op = "patch_habit" => q.id \in Habits
    BY DEF Knows, SaysItsRow
  <2>2. KnowsItsDates(q)
    BY DEF Knows
  <2>3. QED
    BY <2>1, <2>2 DEF KnowsItsDates, HabitsMoveOn
<1>4. QED
  BY <1>1, <1>2, <1>3 DEF Knows

LEMMA SameKnowledge ==
  ASSUME NEW q \in Request, Knows(q), habits' = habits, today' = today
  PROVE  Knows(q)'
BY DEF Knows, SaysItsRow, KnowsItsLinks, KnowsItsDates, MyHabit

LEMMA IdleKnows == Knows(IdleRequest)
<1>1. IdleRequest.op \notin LogOps /\ IdleRequest.op # "patch_habit"
  BY IdleIsRequest DEF LogOps
<1>2. QED
  BY <1>1, IdleIsRequest DEF Knows, SaysItsRow, KnowsItsLinks, KnowsItsDates,
     HabitOps, GoalOps, EventOps

LEMMA IdleKnowsNext == Knows(IdleRequest)'
<1>1. Knows(IdleRequest)
  BY IdleKnows
<1>2. QED
  BY <1>1, PTL

\* A step of r after which r knows what it must.
Learns(r) == \E q \in Request : Becomes(r, q) /\ Knows(q)'

LEMMA EndLearns ==
  ASSUME TypeOK, NEW r \in Requests, End(r)
  PROVE  Learns(r)
BY EndBecomes, IdleKnowsNext, IdleIsRequest DEF Learns

\* The lookups of a body without a habit, and of one with.
LEMMA Lookups ==
  ASSUME NEW body \in Body
  PROVE  /\ AfterLink(body) \in {"category", "write"} /\ AfterLink(body) \in Pcs
         /\ AfterLink(body) = "write" <=> body.category = None
         /\ FirstLookup(body) \in {"link", "category", "write"} /\ FirstLookup(body) \in Pcs
         /\ FirstLookup(body) # "link" =>
              body.habit = None /\ FirstLookup(body) = AfterLink(body)
BY DEF AfterLink, FirstLookup, Pcs

\* Each operation, from the body the client sends.
LEMMA Bodily ==
  /\ \A b \in Bodies["create_habit"] \union Bodies["patch_habit"] :
       b \in Body /\ b.habit = None
  /\ \A b \in Bodies["log"] :
       b \in Body /\ b.habit = None /\ b.category = None /\ b.date \in Days
       /\ b.status \in HABIT_LOG_STATUSES
  /\ \A b \in Bodies["create_goal"] \union Bodies["patch_goal"] :
       b \in Body /\ b.habit = None
  /\ \A b \in Bodies["create_event"] : b \in Body /\ b.start \in Nat
  /\ \A b \in Bodies["patch_event"] : b \in Body
  /\ \A b \in Bodies["note"] : b \in Body /\ b.habit = None
<1>1. \A b \in Body : b.date \in Days \union {None} /\ b.start \in Nat \union {None}
  BY DEF Body
<1>2. \A b \in NoteBody : b \in Body /\ b.habit = None
  BY IdleIsRequest DEF NoteBody, Body
<1>3. QED
  BY <1>1, <1>2, HabitBodiesAssumption, GoalBodiesAssumption, EventBodiesAssumption,
     NoteBodiesAssumption DEF HabitBody, LogBody, GoalBody, EventBody

\* A habit or goal that is created, with its first day filled in.
LEMMA FirstDayIsADay ==
  ASSUME TypeOK, NEW body \in Body, NEW start \in FirstDays(body)
  PROVE  /\ start \in Nat /\ [body EXCEPT !.start = start] \in Body
         /\ [body EXCEPT !.start = start].start = start
         /\ [body EXCEPT !.start = start].end = body.end
         /\ [body EXCEPT !.start = start].habit = body.habit
         /\ [body EXCEPT !.start = start].category = body.category
<1>1. today \in Nat
  BY NoneIsNothing DEF TypeOK
<1>2. body.start \in Nat \union {None}
  BY DEF Body
<1>3. start \in Nat
  BY <1>1, <1>2 DEF FirstDays
<1>4. QED
  BY <1>3 DEF Body

LEMMA OpsOfTypes ==
  /\ {"none"} \union HabitOps \union GoalOps \union EventOps \union LogOps
       \union {"create_note", "patch_note"} \subseteq Ops
  /\ \A op \in HabitOps \union GoalOps \union {"create_note", "patch_note"} :
       op \notin LogOps /\ op \notin EventOps
  /\ \A op \in EventOps : op \notin LogOps
BY DEF Ops, HabitOps, GoalOps, EventOps, LogOps

LEMMA HabitStartsLearn ==
  ASSUME BaseInv, NEW r \in Requests, today' = today,
         create_habit(r) \/ patch_habit(r) \/ write_log(r)
  PROVE  Learns(r)
<1>1. TypeOK
  BY DEF BaseInv
<1>2. CASE create_habit(r)
  <2>0. PICK body \in Bodies["create_habit"] :
          \E start \in FirstDays(body) :
            /\ ValidDates(start, body.end)
            /\ Start(r, "create_habit", None, [body EXCEPT !.start = start], AfterLink(body))
    BY <1>2 DEF create_habit
  <2>1. PICK start \in FirstDays(body) :
          /\ ValidDates(start, body.end)
          /\ Start(r, "create_habit", None, [body EXCEPT !.start = start], AfterLink(body))
    BY <2>0
  <2>2. body \in Body /\ body.habit = None
    BY Bodily
  <2> DEFINE sent == [body EXCEPT !.start = start]
             q == [pc |-> AfterLink(body), op |-> "create_habit", id |-> None,
                   body |-> sent, snap |-> None]
  <2>3. /\ sent \in Body /\ start \in Nat /\ sent.start = start /\ sent.end = body.end
        /\ sent.habit = None /\ sent.category = body.category
    BY <1>1, <2>2, FirstDayIsADay
  <2>4. /\ AfterLink(body) \in {"category", "write"} /\ AfterLink(body) \in Pcs
        /\ AfterLink(body) = "write" <=> body.category = None
    BY <2>2, Lookups
  <2> HIDE DEF sent
  <2>5. "create_habit" \in Ops /\ None \in Ids
    BY DEF Ops, Ids
  <2>6. Becomes(r, q)
    BY <1>1, <2>1, <2>3, <2>4, <2>5, StartBecomes DEF sent
  <2>7. Knows(q)'
    <3>1. SaysItsRow(q)'
      BY <2>3, <2>4 DEF SaysItsRow, LogOps, EventOps
    <3>2. KnowsItsLinks(q)'
      BY <2>3, <2>4 DEF KnowsItsLinks
    <3>3. KnowsItsDates(q)'
      BY <2>1, <2>3 DEF KnowsItsDates
    <3>4. QED
      BY <3>1, <3>2, <3>3 DEF Knows
  <2>8. QED
    BY <2>6, <2>7 DEF Learns, Becomes
<1>3. CASE patch_habit(r)
  <2>1. PICK body \in Bodies["patch_habit"], h \in Habits :
          Start(r, "patch_habit", h, body, "read")
    BY <1>3 DEF patch_habit
  <2>2. body \in Body /\ body.habit = None
    BY Bodily
  <2> DEFINE q == [pc |-> "read", op |-> "patch_habit", id |-> h, body |-> body,
                   snap |-> None]
  <2>3. "patch_habit" \in Ops /\ h \in Ids /\ "read" \in Pcs
    BY DEF Ops, Ids, Pcs
  <2>4. Becomes(r, q)
    BY <1>1, <2>1, <2>2, <2>3, StartBecomes
  <2>5. Knows(q)'
    BY <2>2 DEF Knows, SaysItsRow, KnowsItsLinks, KnowsItsDates, LogOps, EventOps
  <2>6. QED
    BY <2>4, <2>5 DEF Learns, Becomes
<1>4. CASE write_log(r)
  <2>1. PICK op \in LogOps, body \in Bodies["log"], h \in Habits :
          /\ validate_log_date(body.date) /\ Start(r, op, h, body, "owner")
    BY <1>4 DEF write_log
  <2>2. body \in Body /\ body.habit = None /\ body.category = None /\ body.date \in Days
    BY Bodily
  <2> DEFINE q == [pc |-> "owner", op |-> op, id |-> h, body |-> body, snap |-> None]
  <2>3. op \in Ops /\ h \in Ids /\ "owner" \in Pcs
    BY DEF Ops, Ids, Pcs
  <2>4. Becomes(r, q)
    BY <1>1, <2>1, <2>2, <2>3, StartBecomes
  <2>5. body.date <= today /\ today' = today
    BY <1>4, <2>1 DEF validate_log_date
  <2>6. Knows(q)'
    BY <2>2, <2>5 DEF Knows, SaysItsRow, KnowsItsLinks, KnowsItsDates, LogOps
  <2>7. QED
    BY <2>4, <2>6 DEF Learns, Becomes
<1>5. QED
  BY <1>2, <1>3, <1>4

\* After the read of a PATCH, and after a lookup: what is known then.
LEMMA HabitStepsLearn ==
  ASSUME BaseInv, NEW r \in Requests, today' = today, HabitSteps(r)
  PROVE  Learns(r)
<1>1. TypeOK /\ Knows(req[r])
  BY DEF BaseInv
<1>2. CASE End(r)
  BY <1>1, <1>2, EndLearns
<1>3. CASE InsertHabit(r) \/ UpdateHabit(r) \/ WriteLog(r)
  BY <1>2, <1>3 DEF InsertHabit, UpdateHabit, WriteLog
<1>4. PICK p \in Request : p = req[r]
  BY <1>1 DEF TypeOK
<1>5. p.body \in Body /\ Knows(p)
  BY <1>1, <1>4 DEF Request
<1>6. CASE ReadHabit(r) /\ ~End(r)
  <2>1. /\ p.pc = "read" /\ p.op = "patch_habit" /\ habits' = habits
        /\ MyHabit(p.id) /\ ValidDates(habits[p.id].start, Given(p.body.end, habits[p.id].end))
        /\ Goto(r, AfterLink(p.body))
    BY <1>4, <1>6 DEF ReadHabit
  <2>2. /\ AfterLink(p.body) \in {"category", "write"} /\ AfterLink(p.body) \in Pcs
        /\ AfterLink(p.body) = "write" <=> p.body.category = None
    BY <1>5, Lookups
  <2>3. PICK q \in Request :
           /\ Becomes(r, q) /\ q.pc = AfterLink(p.body)
           /\ q.op = p.op /\ q.id = p.id /\ q.body = p.body
    BY <1>1, <1>4, <2>1, <2>2, GotoBecomes
  <2>4. p.body.habit = None /\ p.id \in Habits
    BY <1>5, <2>1, OpsOfTypes DEF Knows, SaysItsRow, HabitOps
  <2>5. SaysItsRow(q)'
    BY <2>1, <2>2, <2>3, <2>4 DEF SaysItsRow, LogOps, EventOps
  <2>6. KnowsItsLinks(q)'
    BY <2>2, <2>3, <2>4 DEF KnowsItsLinks
  <2>7. habits[p.id].state = "live" /\ ValidDates(habits[p.id].start, p.body.end)
    BY <2>1 DEF MyHabit, Given, ValidDates
  <2>8. KnowsItsDates(q)'
    BY <2>1, <2>3, <2>7 DEF KnowsItsDates
  <2>9. QED
    BY <2>3, <2>5, <2>6, <2>8 DEF Learns, Knows
<1>7. CASE CheckHabit(r) /\ ~End(r)
  <2>1. p.pc = "owner" /\ habits' = habits /\ Goto(r, "write") /\ "write" \in Pcs
    BY <1>4, <1>7 DEF CheckHabit, Pcs
  <2>2. PICK q \in Request :
           /\ Becomes(r, q) /\ q.pc = "write"
           /\ q.op = p.op /\ q.id = p.id /\ q.body = p.body
    BY <1>1, <1>4, <2>1, GotoBecomes
  <2>3. p.op \in LogOps /\ p.body.habit = None /\ p.body.category = None
    BY <1>5, <2>1, OpsOfTypes DEF Knows, SaysItsRow
  <2>4. SaysItsRow(q)' /\ KnowsItsLinks(q)' /\ KnowsItsDates(q)'
    BY <1>5, <2>1, <2>2, <2>3
       DEF Knows, SaysItsRow, KnowsItsLinks, KnowsItsDates, LogOps
  <2>5. QED
    BY <2>2, <2>4 DEF Learns, Knows
<1>8. QED
  BY <1>2, <1>3, <1>6, <1>7 DEF HabitSteps

LEMMA GoalsLearn ==
  ASSUME BaseInv, NEW r \in Requests, today' = today, habits' = habits,
         GoalStarts(r) \/ GoalSteps(r)
  PROVE  Learns(r)
<1>1. TypeOK /\ Knows(req[r])
  BY DEF BaseInv
<1>2. CASE create_goal(r)
  <2>0. PICK body \in Bodies["create_goal"] :
          \E start \in FirstDays(body) :
            /\ DueInTime(start, body.end)
            /\ Start(r, "create_goal", None, [body EXCEPT !.start = start], AfterLink(body))
    BY <1>2 DEF create_goal
  <2>1. PICK start \in FirstDays(body) :
          /\ DueInTime(start, body.end)
          /\ Start(r, "create_goal", None, [body EXCEPT !.start = start], AfterLink(body))
    BY <2>0
  <2>2. body \in Body /\ body.habit = None
    BY Bodily
  <2> DEFINE sent == [body EXCEPT !.start = start]
             q == [pc |-> AfterLink(body), op |-> "create_goal", id |-> None,
                   body |-> sent, snap |-> None]
  <2>3. /\ sent \in Body /\ start \in Nat /\ sent.start = start /\ sent.end = body.end
        /\ sent.habit = None /\ sent.category = body.category
    BY <1>1, <2>2, FirstDayIsADay
  <2>4. /\ AfterLink(body) \in {"category", "write"} /\ AfterLink(body) \in Pcs
        /\ AfterLink(body) = "write" <=> body.category = None
    BY <2>2, Lookups
  <2> HIDE DEF sent
  <2>5. "create_goal" \in Ops /\ None \in Ids
    BY DEF Ops, Ids
  <2>6. Becomes(r, q)
    BY <1>1, <2>1, <2>3, <2>4, <2>5, StartBecomes DEF sent
  <2>7. Knows(q)'
    BY <2>1, <2>3, <2>4
       DEF Knows, SaysItsRow, KnowsItsLinks, KnowsItsDates, LogOps, EventOps
  <2>8. QED
    BY <2>6, <2>7 DEF Learns, Becomes
<1>3. CASE patch_goal(r)
  <2>1. PICK body \in Bodies["patch_goal"], g \in Goals :
          Start(r, "patch_goal", g, body, "read")
    BY <1>3 DEF patch_goal
  <2>2. body \in Body /\ body.habit = None
    BY Bodily
  <2> DEFINE q == [pc |-> "read", op |-> "patch_goal", id |-> g, body |-> body,
                   snap |-> None]
  <2>3. "patch_goal" \in Ops /\ g \in Ids /\ "read" \in Pcs
    BY DEF Ops, Ids, Pcs
  <2>4. Becomes(r, q)
    BY <1>1, <2>1, <2>2, <2>3, StartBecomes
  <2>5. Knows(q)'
    BY <2>2 DEF Knows, SaysItsRow, KnowsItsLinks, KnowsItsDates, LogOps, EventOps
  <2>6. QED
    BY <2>4, <2>5 DEF Learns, Becomes
<1>4. CASE End(r)
  BY <1>1, <1>4, EndLearns
<1>5. CASE InsertGoal(r) \/ UpdateGoal(r)
  BY <1>4, <1>5 DEF InsertGoal, UpdateGoal
<1>6. CASE ReadGoal(r) /\ ~End(r)
  <2>1. PICK p \in Request : p = req[r]
    BY <1>1 DEF TypeOK
  <2>2. p.body \in Body /\ Knows(p)
    BY <1>1, <2>1 DEF Request
  <2>3. /\ p.pc = "read" /\ p.op = "patch_goal" /\ p.id \in list_goals
        /\ MergedDue(p.body, goals[p.id])
        /\ Validated(r, AfterLink(p.body), DatesOf(goals[p.id]))
    BY <1>6, <2>1 DEF ReadGoal
  <2>4. PICK dates \in Dates : /\ dates = DatesOf(goals[p.id])
                               /\ dates.start = goals[p.id].start
                               /\ dates.end = goals[p.id].end
    <3>1. goals[p.id] \in Goal
      BY <1>1, <2>3 DEF list_goals, TypeOK, GoalsTypeOK
    <3>2. DatesOf(goals[p.id]) \in Dates
      BY <3>1 DEF Goal, DatesOf, Dates
    <3>3. QED
      BY <3>2 DEF DatesOf
  <2>5. /\ AfterLink(p.body) \in {"category", "write"} /\ AfterLink(p.body) \in Pcs
        /\ AfterLink(p.body) = "write" <=> p.body.category = None
    BY <2>2, Lookups
  <2>6. PICK q \in Request :
           /\ Becomes(r, q) /\ q.pc = AfterLink(p.body) /\ q.snap = dates
           /\ q.op = p.op /\ q.id = p.id /\ q.body = p.body
    BY <1>1, <2>1, <2>3, <2>4, <2>5, ValidatedBecomes
  <2>7. p.body.habit = None /\ p.id \in Goals
    BY <2>2, <2>3 DEF Knows, SaysItsRow, EventOps
  <2>8. MergedDue(p.body, dates)
    BY <2>3, <2>4 DEF MergedDue
  <2>9. SaysItsRow(q)' /\ KnowsItsLinks(q)'
    BY <2>3, <2>5, <2>6, <2>7 DEF SaysItsRow, KnowsItsLinks, LogOps, EventOps
  <2>10. KnowsItsDates(q)'
    BY <2>3, <2>6, <2>8 DEF KnowsItsDates
  <2>11. QED
    BY <2>6, <2>9, <2>10 DEF Learns, Knows
<1>7. QED
  BY <1>2, <1>3, <1>4, <1>5, <1>6 DEF GoalStarts, GoalSteps

LEMMA EventsLearn ==
  ASSUME BaseInv, NEW r \in Requests, today' = today, habits' = habits,
         EventStarts(r) \/ EventSteps(r)
  PROVE  Learns(r)
<1>1. TypeOK /\ Knows(req[r])
  BY DEF BaseInv
<1>2. CASE create_event(r)
  <2>1. PICK body \in Bodies["create_event"] :
          /\ ValidRange(body.start, body.end)
          /\ Start(r, "create_event", None, body, FirstLookup(body))
    BY <1>2 DEF create_event
  <2>2. body \in Body /\ body.start \in Nat
    BY Bodily
  <2> DEFINE q == [pc |-> FirstLookup(body), op |-> "create_event", id |-> None,
                   body |-> body, snap |-> None]
  <2>3. /\ FirstLookup(body) \in {"link", "category", "write"} /\ FirstLookup(body) \in Pcs
        /\ FirstLookup(body) # "link" =>
             body.habit = None /\ FirstLookup(body) = AfterLink(body)
        /\ AfterLink(body) = "write" <=> body.category = None
    BY <2>2, Lookups
  <2>4. "create_event" \in Ops /\ None \in Ids
    BY DEF Ops, Ids
  <2>5. Becomes(r, q)
    BY <1>1, <2>1, <2>2, <2>3, <2>4, StartBecomes
  <2>6. Knows(q)'
    BY <2>1, <2>2, <2>3
       DEF Knows, SaysItsRow, KnowsItsLinks, KnowsItsDates, LogOps, EventOps, HabitOps,
           GoalOps
  <2>7. QED
    BY <2>5, <2>6 DEF Learns, Becomes
<1>3. CASE patch_event(r)
  <2>1. PICK body \in Bodies["patch_event"], e \in Events :
          Start(r, "patch_event", e, body, "read")
    BY <1>3 DEF patch_event
  <2>2. body \in Body
    BY Bodily
  <2> DEFINE q == [pc |-> "read", op |-> "patch_event", id |-> e, body |-> body,
                   snap |-> None]
  <2>3. "patch_event" \in Ops /\ e \in Ids /\ "read" \in Pcs
    BY DEF Ops, Ids, Pcs
  <2>4. Becomes(r, q)
    BY <1>1, <2>1, <2>2, <2>3, StartBecomes
  <2>5. Knows(q)'
    BY <2>2 DEF Knows, SaysItsRow, KnowsItsLinks, KnowsItsDates, LogOps, EventOps
  <2>6. QED
    BY <2>4, <2>5 DEF Learns, Becomes
<1>4. CASE End(r)
  BY <1>1, <1>4, EndLearns
<1>5. CASE InsertEvent(r) \/ UpdateEvent(r)
  BY <1>4, <1>5 DEF InsertEvent, UpdateEvent
<1>6. PICK p \in Request : p = req[r]
  BY <1>1 DEF TypeOK
<1>7. /\ p.body \in Body /\ Knows(p)
      /\ AfterLink(p.body) \in {"category", "write"} /\ AfterLink(p.body) \in Pcs
      /\ AfterLink(p.body) = "write" <=> p.body.category = None
      /\ FirstLookup(p.body) \in {"link", "category", "write"} /\ FirstLookup(p.body) \in Pcs
      /\ FirstLookup(p.body) # "link" =>
           p.body.habit = None /\ FirstLookup(p.body) = AfterLink(p.body)
  <2>1. p.body \in Body /\ Knows(p)
    BY <1>1, <1>6 DEF Request
  <2>2. QED
    BY <2>1, Lookups
<1>8. CASE ReadEvent(r) /\ ~End(r)
  <2>1. /\ p.pc = "read" /\ p.op = "patch_event" /\ events[p.id].state = "live"
        /\ MergedRange(p.body, events[p.id])
        /\ Validated(r, FirstLookup(p.body), DatesOf(events[p.id]))
    BY <1>6, <1>8 DEF ReadEvent
  <2>2. p.id \in Events
    BY <1>7, <2>1 DEF Knows, SaysItsRow
  <2>3. PICK dates \in Dates : /\ dates = DatesOf(events[p.id])
                               /\ dates.start = events[p.id].start
                               /\ dates.end = events[p.id].end
    <3>1. events[p.id] \in Event
      BY <1>1, <2>2 DEF TypeOK, EventsTypeOK
    <3>2. DatesOf(events[p.id]) \in Dates
      BY <3>1 DEF Event, DatesOf, Dates
    <3>3. QED
      BY <3>2 DEF DatesOf
  <2>4. PICK q \in Request :
           /\ Becomes(r, q) /\ q.pc = FirstLookup(p.body) /\ q.snap = dates
           /\ q.op = p.op /\ q.id = p.id /\ q.body = p.body
    BY <1>1, <1>6, <1>7, <2>1, <2>3, ValidatedBecomes
  <2>5. MergedRange(p.body, dates)
    BY <2>1, <2>3 DEF MergedRange
  <2>6. SaysItsRow(q)'
    BY <1>7, <2>1, <2>2, <2>4 DEF SaysItsRow, LogOps, EventOps
  <2>7. KnowsItsLinks(q)'
    BY <1>7, <2>4 DEF KnowsItsLinks
  <2>8. KnowsItsDates(q)'
    BY <2>1, <2>4, <2>5 DEF KnowsItsDates
  <2>9. QED
    BY <2>4, <2>6, <2>7, <2>8 DEF Learns, Knows
<1>9. CASE CheckLink(r) /\ ~End(r)
  <2>1. p.pc = "link" /\ p.body.habit \in OwnHabits /\ Goto(r, AfterLink(p.body))
    BY <1>6, <1>9 DEF CheckLink, Linkable, MyHabit
  <2>2. PICK q \in Request :
           /\ Becomes(r, q) /\ q.pc = AfterLink(p.body)
           /\ q.op = p.op /\ q.id = p.id /\ q.body = p.body /\ q.snap = p.snap
    BY <1>1, <1>6, <1>7, <2>1, GotoBecomes
  <2>3. SaysItsRow(q)'
    BY <1>7, <2>2 DEF Knows, SaysItsRow
  <2>4. KnowsItsLinks(q)'
    BY <1>7, <2>1, <2>2 DEF KnowsItsLinks
  <2>5. KnowsItsDates(q)'
    BY <1>7, <2>1, <2>2 DEF Knows, KnowsItsDates, MyHabit
  <2>6. QED
    BY <2>2, <2>3, <2>4, <2>5 DEF Learns, Knows
<1>10. QED
  BY <1>2, <1>3, <1>4, <1>5, <1>8, <1>9 DEF EventStarts, EventSteps

LEMMA NotesLearn ==
  ASSUME BaseInv, NEW r \in Requests, today' = today, habits' = habits,
         NoteStarts(r) \/ NoteSteps(r)
  PROVE  Learns(r)
<1>1. TypeOK /\ Knows(req[r])
  BY DEF BaseInv
<1>2. CASE create_note(r)
  <2>1. PICK body \in Bodies["note"] : Start(r, "create_note", None, body, AfterLink(body))
    BY <1>2 DEF create_note
  <2>2. body \in Body /\ body.habit = None
    BY Bodily
  <2> DEFINE q == [pc |-> AfterLink(body), op |-> "create_note", id |-> None,
                   body |-> body, snap |-> None]
  <2>3. /\ AfterLink(body) \in {"category", "write"} /\ AfterLink(body) \in Pcs
        /\ AfterLink(body) = "write" <=> body.category = None
    BY <2>2, Lookups
  <2>4. "create_note" \in Ops /\ None \in Ids
    BY DEF Ops, Ids
  <2>5. Becomes(r, q)
    BY <1>1, <2>1, <2>2, <2>3, <2>4, StartBecomes
  <2>6. Knows(q)'
    BY <2>2, <2>3 DEF Knows, SaysItsRow, KnowsItsLinks, KnowsItsDates, LogOps
  <2>7. QED
    BY <2>5, <2>6 DEF Learns, Becomes
<1>3. CASE patch_note(r)
  <2>1. PICK body \in Bodies["note"], n \in Notes :
          Start(r, "patch_note", n, body, "read")
    BY <1>3 DEF patch_note
  <2>2. body \in Body /\ body.habit = None
    BY Bodily
  <2> DEFINE q == [pc |-> "read", op |-> "patch_note", id |-> n, body |-> body,
                   snap |-> None]
  <2>3. "patch_note" \in Ops /\ n \in Ids /\ "read" \in Pcs
    BY DEF Ops, Ids, Pcs
  <2>4. Becomes(r, q)
    BY <1>1, <2>1, <2>2, <2>3, StartBecomes
  <2>5. Knows(q)'
    BY <2>2 DEF Knows, SaysItsRow, KnowsItsLinks, KnowsItsDates, LogOps
  <2>6. QED
    BY <2>4, <2>5 DEF Learns, Becomes
<1>4. CASE End(r)
  BY <1>1, <1>4, EndLearns
<1>5. CASE InsertNote(r) \/ UpdateNote(r)
  BY <1>4, <1>5 DEF InsertNote, UpdateNote
<1>6. CASE ReadNote(r) /\ ~End(r)
  <2>1. PICK p \in Request : p = req[r]
    BY <1>1 DEF TypeOK
  <2>2. p.body \in Body /\ Knows(p)
    BY <1>1, <2>1 DEF Request
  <2>3. p.pc = "read" /\ p.op = "patch_note" /\ Goto(r, AfterLink(p.body))
    BY <1>6, <2>1 DEF ReadNote
  <2>4. /\ AfterLink(p.body) \in {"category", "write"} /\ AfterLink(p.body) \in Pcs
        /\ AfterLink(p.body) = "write" <=> p.body.category = None
    BY <2>2, Lookups
  <2>5. PICK q \in Request :
           /\ Becomes(r, q) /\ q.pc = AfterLink(p.body)
           /\ q.op = p.op /\ q.id = p.id /\ q.body = p.body
    BY <1>1, <2>1, <2>3, <2>4, GotoBecomes
  <2>6. p.body.habit = None /\ p.id \in Notes
    BY <2>2, <2>3 DEF Knows, SaysItsRow, EventOps
  <2>7. Knows(q)'
    BY <2>3, <2>4, <2>5, <2>6
       DEF Knows, SaysItsRow, KnowsItsLinks, KnowsItsDates, LogOps
  <2>8. QED
    BY <2>5, <2>7 DEF Learns
<1>7. QED
  BY <1>2, <1>3, <1>4, <1>5, <1>6 DEF NoteStarts, NoteSteps

LEMMA CategoryLearns ==
  ASSUME BaseInv, NEW r \in Requests, today' = today, habits' = habits, CheckCategory(r)
  PROVE  Learns(r)
<1>1. TypeOK /\ Knows(req[r])
  BY DEF BaseInv
<1>2. CASE End(r)
  BY <1>1, <1>2, EndLearns
<1>3. CASE ~End(r)
  <2>1. PICK p \in Request : p = req[r]
    BY <1>1 DEF TypeOK
  <2>2. Knows(p)
    BY <1>1, <2>1
  <2>3. p.pc = "category" /\ CategoryFits(r) /\ Goto(r, "write") /\ "write" \in Pcs
    BY <1>3, <2>1 DEF CheckCategory, Pcs
  <2>4. /\ p.body.category \in OwnCategories
        /\ p.op \in HabitOps => KindOf[p.body.category] = "habit"
        /\ p.op \in GoalOps => KindOf[p.body.category] = "goal"
    BY <2>1, <2>3 DEF CategoryFits, MyCategories, HabitOps, GoalOps
  <2>5. PICK q \in Request :
           /\ Becomes(r, q) /\ q.pc = "write"
           /\ q.op = p.op /\ q.id = p.id /\ q.body = p.body /\ q.snap = p.snap
    BY <1>1, <2>1, <2>3, GotoBecomes
  <2>6. SaysItsRow(q)'
    BY <2>2, <2>5 DEF Knows, SaysItsRow
  <2>7. KnowsItsLinks(q)'
    BY <2>2, <2>3, <2>4, <2>5 DEF Knows, KnowsItsLinks
  <2>8. KnowsItsDates(q)'
    BY <2>2, <2>3, <2>5 DEF Knows, KnowsItsDates, MyHabit
  <2>9. QED
    BY <2>5, <2>6, <2>7, <2>8 DEF Learns, Knows
<1>4. QED
  BY <1>2, <1>3

-----------------------------------------------------------------------------
(* What the writes leave in the tables                                       *)

\* A habit or a log was written; no habit went away.
LEMMA HabitsKeepOrder ==
  ASSUME RowsInv, today' = today, categories' = categories, goals' = goals,
         events' = events, notes' = notes,
         \A h \in OwnHabits : HabitInOrder(habits'[h], MyCategories),
         \A h \in Habits, d \in Days : logs'[h][d] # None => MyHabit(h)' /\ d <= today,
         \A h \in Habits : MyHabit(h) => MyHabit(h)'
  PROVE  RowsInv'
<1>1. MyCategories' = MyCategories
  BY DEF MyCategories, LiveCategories
<1>2. \A h \in list_habits : h \in list_habits'
  BY NoneIsNothing DEF list_habits
<1>3. \A e \in Events : EventInOrder(events[e], MyCategories, list_habits')
  BY <1>2 DEF RowsInv, EventInOrder
<1>4. QED
  BY <1>1, <1>3 DEF RowsInv

\* What a request writes: a body of its own, whose links are in order.
LEMMA WriterBody ==
  ASSUME BaseInv, NEW r \in Requests, req[r].pc = "write"
  PROVE  \E p \in Request :
           /\ p = req[r] /\ p.pc = "write" /\ p.body \in Body /\ Knows(p)
           /\ p.body.start \in Nat \union {None} /\ p.body.end \in Nat \union {None}
           /\ p.body.category \in Categories \union {None}
           /\ p.body.habit \in Habits \union {None}
           /\ p.body.mask \in SUBSET (0 .. 6)
           /\ p.body.date \in Days \union {None}
           /\ p.body.status \in Statuses \union {None}
<1>1. PICK p \in Request : p = req[r]
  BY DEF BaseInv, TypeOK
<1>2. Knows(p) /\ p.body \in Body
  BY <1>1 DEF BaseInv, Request
<1>3. QED
  BY <1>1, <1>2 DEF Body

\* A category that still exists at the write is live, own and of the kind.
LEMMA WrittenCategory ==
  ASSUME NEW r \in Requests, NEW p \in Request, p = req[r], p.pc = "write", Knows(p),
         CategoryExists(r)
  PROVE  /\ p.body.category \in MyCategories \union {None}
         /\ p.op \in HabitOps => p.body.category = None
                                 \/ OfKind(p.body.category, "habit", MyCategories)
         /\ p.op \in GoalOps => p.body.category = None
                                \/ OfKind(p.body.category, "goal", MyCategories)
BY DEF CategoryExists, Knows, KnowsItsLinks, MyCategories, OfKind

LEMMA InsertHabitRows ==
  ASSUME BaseInv, NEW r \in Requests, InsertHabit(r), today' = today,
         categories' = categories, goals' = goals, events' = events, notes' = notes
  PROVE  HabitsTypeOK' /\ RowsInv' /\ HabitsMoveOn
<1>1. /\ req[r].pc = "write" /\ req[r].op = "create_habit" /\ logs' = logs
      /\ habits \in [Habits -> Habit] /\ logs \in [Habits -> Logs] /\ RowsInv
  BY DEF InsertHabit, BaseInv, TypeOK, HabitsTypeOK
<1>2. PICK p \in Request :
           /\ p = req[r] /\ p.pc = "write" /\ p.body \in Body /\ Knows(p)
           /\ p.body.start \in Nat \union {None} /\ p.body.end \in Nat \union {None}
           /\ p.body.category \in Categories \union {None}
           /\ p.body.mask \in SUBSET (0 .. 6)
  BY <1>1, WriterBody
<1>3. CASE habits' = habits
  BY <1>1, <1>3, HabitsKeepOrder DEF HabitsTypeOK, RowsInv, HabitsMoveOn, MyHabit
<1>4. CASE ~(habits' = habits)
  <2> DEFINE row == [state |-> "live", mask |-> p.body.mask, start |-> p.body.start,
                     end |-> p.body.end, category |-> p.body.category]
  <2>1. CategoryExists(r) /\ \E h \in OwnHabits : /\ habits[h].state = "unused"
                                                 /\ habits' = [habits EXCEPT ![h] = row]
    BY <1>2, <1>4 DEF InsertHabit
  <2>2. PICK h \in OwnHabits : /\ habits[h].state = "unused"
                               /\ habits' = [habits EXCEPT ![h] = row]
    BY <2>1
  <2>3. row \in Habit /\ row.state = "live"
    BY <1>2 DEF Habit, States
  <2>4. HabitInOrder(row, MyCategories)
    <3>1. p.body.category = None \/ OfKind(p.body.category, "habit", MyCategories)
      BY <1>1, <1>2, <2>1, WrittenCategory DEF HabitOps
    <3>2. p.body.start \in Nat /\ ValidDates(p.body.start, p.body.end)
      BY <1>1, <1>2 DEF Knows, KnowsItsDates
    <3>3. QED
      BY <3>1, <3>2 DEF HabitInOrder
  <2> HIDE DEF row
  <2>5. /\ habits' \in [Habits -> Habit] /\ habits'[h] = row
        /\ \A x \in Habits \ {h} : habits'[x] = habits[x]
    BY <1>1, <2>2, <2>3, NoneIsNothing
  <2>6. HabitsMoveOn
    BY <2>2, <2>5 DEF HabitsMoveOn, MyHabit
  <2>7. RowsInv'
    <3>1. \A x \in OwnHabits : HabitInOrder(habits'[x], MyCategories)
      BY <1>1, <2>4, <2>5, NoneIsNothing DEF RowsInv
    <3>2. \A x \in Habits : MyHabit(x) => MyHabit(x)'
      BY <2>2, <2>3, <2>5 DEF MyHabit
    <3>3. \A x \in Habits, d \in Days : logs'[x][d] # None => MyHabit(x)' /\ d <= today
      BY <1>1, <3>2 DEF RowsInv
    <3>4. QED
      BY <1>1, <3>1, <3>2, <3>3, HabitsKeepOrder
  <2>8. QED
    BY <1>1, <2>5, <2>6, <2>7 DEF HabitsTypeOK
<1>5. QED
  BY <1>3, <1>4

LEMMA UpdateHabitRows ==
  ASSUME BaseInv, NEW r \in Requests, UpdateHabit(r), today' = today,
         categories' = categories, goals' = goals, events' = events, notes' = notes
  PROVE  HabitsTypeOK' /\ RowsInv' /\ HabitsMoveOn
<1>1. /\ req[r].pc = "write" /\ req[r].op = "patch_habit" /\ logs' = logs
      /\ habits \in [Habits -> Habit] /\ logs \in [Habits -> Logs] /\ RowsInv
  BY DEF UpdateHabit, BaseInv, TypeOK, HabitsTypeOK
<1>2. PICK p \in Request :
           /\ p = req[r] /\ p.pc = "write" /\ p.body \in Body /\ Knows(p)
           /\ p.body.start \in Nat \union {None} /\ p.body.end \in Nat \union {None}
           /\ p.body.category \in Categories \union {None}
           /\ p.body.mask \in SUBSET (0 .. 6)
  BY <1>1, WriterBody
<1>3. CASE habits' = habits
  BY <1>1, <1>3, HabitsKeepOrder DEF HabitsTypeOK, RowsInv, HabitsMoveOn, MyHabit
<1>4. CASE ~(habits' = habits)
  <2>1. /\ MyHabit(p.id) /\ CategoryExists(r)
        /\ habits' = [habits EXCEPT ![p.id].end = Given(p.body.end, @),
                                    ![p.id].category = Given(p.body.category, @)]
    BY <1>2, <1>4 DEF UpdateHabit
  <2>2. PICK h \in OwnHabits : h = p.id /\ h \in Habits
    BY <2>1, NoneIsNothing DEF MyHabit
  <2>3. PICK old \in Habit : old = habits[h]
    BY <1>1, <2>2
  <2> DEFINE row == [old EXCEPT !.end = Given(p.body.end, @),
                                !.category = Given(p.body.category, @)]
  <2>4. habits' = [habits EXCEPT ![h] = row]
    BY <1>1, <2>1, <2>2, <2>3
  <2>5. /\ old.state = "live" /\ HabitInOrder(old, MyCategories)
        /\ old.end \in Nat \union {None} /\ old.category \in Categories \union {None}
    BY <1>1, <2>1, <2>2, <2>3 DEF RowsInv, MyHabit, Habit
  <2>6. /\ row.state = "live" /\ row.start = old.start
        /\ row.end = Given(p.body.end, old.end)
        /\ row.category = Given(p.body.category, old.category)
    BY <2>3, <2>5 DEF Habit
  <2>7. row \in Habit
    BY <1>2, <2>5 DEF Habit, Given
  <2> HIDE DEF row
  <2>8. HabitInOrder(row, MyCategories)
    <3>1. p.body.category = None \/ OfKind(p.body.category, "habit", MyCategories)
      BY <1>1, <1>2, <2>1, WrittenCategory DEF HabitOps
    <3>2. ValidDates(old.start, p.body.end)
      BY <1>1, <1>2, <2>1, <2>2, <2>3 DEF Knows, KnowsItsDates
    <3>3. QED
      BY <2>5, <2>6, <3>1, <3>2 DEF HabitInOrder, Given, ValidDates
  <2>9. /\ habits' \in [Habits -> Habit] /\ habits'[h] = row
        /\ \A x \in Habits \ {h} : habits'[x] = habits[x]
    BY <1>1, <2>2, <2>4, <2>7
  <2>10. HabitsMoveOn
    BY <2>3, <2>5, <2>6, <2>9 DEF HabitsMoveOn, MyHabit
  <2>11. RowsInv'
    <3>1. \A x \in OwnHabits : HabitInOrder(habits'[x], MyCategories)
      BY <1>1, <2>8, <2>9, NoneIsNothing DEF RowsInv
    <3>2. \A x \in Habits : MyHabit(x) => MyHabit(x)'
      BY <2>6, <2>9 DEF MyHabit
    <3>3. \A x \in Habits, d \in Days : logs'[x][d] # None => MyHabit(x)' /\ d <= today
      BY <1>1, <3>2 DEF RowsInv
    <3>4. QED
      BY <1>1, <3>1, <3>2, <3>3, HabitsKeepOrder
  <2>12. QED
    BY <1>1, <2>9, <2>10, <2>11 DEF HabitsTypeOK
<1>5. QED
  BY <1>3, <1>4

LEMMA WriteLogRows ==
  ASSUME BaseInv, NEW r \in Requests, WriteLog(r), today' = today,
         categories' = categories, goals' = goals, events' = events, notes' = notes
  PROVE  HabitsTypeOK' /\ RowsInv' /\ HabitsMoveOn
<1>1. /\ req[r].pc = "write" /\ req[r].op \in LogOps /\ habits' = habits
      /\ habits \in [Habits -> Habit] /\ logs \in [Habits -> Logs] /\ RowsInv
  BY DEF WriteLog, BaseInv, TypeOK, HabitsTypeOK
<1>2. PICK p \in Request :
           /\ p = req[r] /\ Knows(p) /\ p.body.status \in Statuses \union {None}
  BY <1>1, WriterBody
<1>3. p.id \in Habits /\ p.body.date \in Days /\ p.body.date <= today
  BY <1>1, <1>2 DEF Knows, SaysItsRow
<1>4. PICK h \in Habits, d \in Days : h = p.id /\ d = p.body.date
  BY <1>3
<1> DEFINE new == IF p.op = "delete_log" THEN None ELSE p.body.status
<1>5. new \in Statuses \union {None}
  BY <1>2
<1>6. \/ logs' = logs
      \/ MyHabit(h) /\ logs' = [logs EXCEPT ![h][d] = new]
  BY <1>1, <1>2, <1>4 DEF WriteLog
<1> HIDE DEF new
<1>7. \/ logs' = logs
      \/ /\ MyHabit(h) /\ logs' \in [Habits -> Logs]
         /\ \A x \in Habits, y \in Days :
              logs'[x][y] = IF x = h /\ y = d THEN new ELSE logs[x][y]
  <2>1. CASE MyHabit(h) /\ logs' = [logs EXCEPT ![h][d] = new]
    <3>1. PICK old \in Logs : old = logs[h]
      BY <1>1
    <3>2. [old EXCEPT ![d] = new] \in Logs
      BY <1>5 DEF Logs
    <3>3. logs' = [logs EXCEPT ![h] = [old EXCEPT ![d] = new]]
      BY <1>1, <2>1, <3>1
    <3>4. logs' \in [Habits -> Logs]
      BY <1>1, <3>2, <3>3
    <3>5. ASSUME NEW x \in Habits, NEW y \in Days
          PROVE  logs'[x][y] = IF x = h /\ y = d THEN new ELSE logs[x][y]
      <4>1. logs'[x] = IF x = h THEN [old EXCEPT ![d] = new] ELSE logs[x]
        BY <1>1, <3>3
      <4>2. [old EXCEPT ![d] = new][y] = IF y = d THEN new ELSE old[y]
        BY <3>1 DEF Logs
      <4>3. QED
        BY <3>1, <4>1, <4>2
    <3>6. QED
      BY <2>1, <3>4, <3>5
  <2>2. QED
    BY <1>6, <2>1
<1>8. HabitsTypeOK' /\ HabitsMoveOn /\ \A x \in Habits : MyHabit(x) => MyHabit(x)'
  BY <1>1, <1>7 DEF HabitsTypeOK, HabitsMoveOn, MyHabit
<1>9. \A x \in Habits, y \in Days : logs'[x][y] # None => MyHabit(x)' /\ y <= today
  BY <1>1, <1>3, <1>4, <1>7, <1>8 DEF RowsInv
<1>10. \A x \in OwnHabits : HabitInOrder(habits'[x], MyCategories)
  BY <1>1 DEF RowsInv
<1>11. QED
  BY <1>1, <1>8, <1>9, <1>10, HabitsKeepOrder

\* A goal, event or note was written: the other tables are as they were.
LEMMA GoalsKeepOrder ==
  ASSUME RowsInv, today' = today, categories' = categories, habits' = habits,
         logs' = logs, events' = events, notes' = notes,
         \A g \in Goals : GoalInOrder(goals'[g], MyCategories)
  PROVE  RowsInv'
BY DEF RowsInv, MyCategories, LiveCategories, MyHabit, list_habits

LEMMA EventsKeepOrder ==
  ASSUME RowsInv, today' = today, categories' = categories, habits' = habits,
         logs' = logs, goals' = goals, notes' = notes,
         \A e \in Events : EventInOrder(events'[e], MyCategories, list_habits)
  PROVE  RowsInv'
BY DEF RowsInv, MyCategories, LiveCategories, MyHabit, list_habits

LEMMA NotesKeepOrder ==
  ASSUME RowsInv, today' = today, categories' = categories, habits' = habits,
         logs' = logs, goals' = goals, events' = events,
         \A n \in Notes : NoteInOrder(notes'[n], MyCategories)
  PROVE  RowsInv'
BY DEF RowsInv, MyCategories, LiveCategories, MyHabit, list_habits

LEMMA InsertGoalRows ==
  ASSUME BaseInv, NEW r \in Requests, InsertGoal(r), today' = today,
         categories' = categories, habits' = habits, logs' = logs, events' = events,
         notes' = notes
  PROVE  GoalsTypeOK' /\ RowsInv'
<1>1. /\ req[r].pc = "write" /\ req[r].op = "create_goal"
      /\ goals \in [Goals -> Goal] /\ RowsInv
  BY DEF InsertGoal, BaseInv, TypeOK, GoalsTypeOK
<1>2. PICK p \in Request :
           /\ p = req[r] /\ p.pc = "write" /\ p.body \in Body /\ Knows(p)
           /\ p.body.start \in Nat \union {None} /\ p.body.end \in Nat \union {None}
           /\ p.body.category \in Categories \union {None}
  BY <1>1, WriterBody
<1>3. CASE goals' = goals
  BY <1>1, <1>3, GoalsKeepOrder DEF GoalsTypeOK, RowsInv
<1>4. CASE ~(goals' = goals)
  <2> DEFINE row == [state |-> "live", start |-> p.body.start, end |-> p.body.end,
                     category |-> p.body.category, raced |-> FALSE]
  <2>1. CategoryExists(r) /\ \E g \in Goals : goals' = [goals EXCEPT ![g] = row]
    BY <1>2, <1>4 DEF InsertGoal
  <2>2. PICK g \in Goals : goals' = [goals EXCEPT ![g] = row]
    BY <2>1
  <2>3. row \in Goal
    BY <1>2 DEF Goal, States
  <2>4. GoalInOrder(row, MyCategories)
    <3>1. p.body.category = None \/ OfKind(p.body.category, "goal", MyCategories)
      BY <1>1, <1>2, <2>1, WrittenCategory DEF GoalOps
    <3>2. p.body.start \in Nat /\ DueInTime(p.body.start, p.body.end)
      BY <1>1, <1>2 DEF Knows, KnowsItsDates
    <3>3. QED
      BY <3>1, <3>2 DEF GoalInOrder
  <2> HIDE DEF row
  <2>5. /\ goals' \in [Goals -> Goal] /\ goals'[g] = row
        /\ \A x \in Goals \ {g} : goals'[x] = goals[x]
    BY <1>1, <2>2, <2>3
  <2>6. \A x \in Goals : GoalInOrder(goals'[x], MyCategories)
    BY <1>1, <2>4, <2>5 DEF RowsInv
  <2>7. QED
    BY <1>1, <2>5, <2>6, GoalsKeepOrder DEF GoalsTypeOK
<1>5. QED
  BY <1>3, <1>4

\* A PATCH that finds the dates it was validated with leaves a range that fits;
\* one that finds others says so.
LEMMA UpdateGoalRows ==
  ASSUME BaseInv, NEW r \in Requests, UpdateGoal(r), today' = today,
         categories' = categories, habits' = habits, logs' = logs, events' = events,
         notes' = notes
  PROVE  GoalsTypeOK' /\ RowsInv'
<1>1. /\ req[r].pc = "write" /\ req[r].op = "patch_goal"
      /\ goals \in [Goals -> Goal] /\ RowsInv
  BY DEF UpdateGoal, BaseInv, TypeOK, GoalsTypeOK
<1>2. PICK p \in Request :
           /\ p = req[r] /\ p.pc = "write" /\ p.body \in Body /\ Knows(p)
           /\ p.body.start \in Nat \union {None} /\ p.body.end \in Nat \union {None}
           /\ p.body.category \in Categories \union {None}
  BY <1>1, WriterBody
<1>3. CASE goals' = goals
  BY <1>1, <1>3, GoalsKeepOrder DEF GoalsTypeOK, RowsInv
<1>4. CASE ~(goals' = goals)
  <2>1. /\ p.id \in list_goals /\ CategoryExists(r)
        /\ goals' = [goals EXCEPT ![p.id].start = Given(p.body.start, @),
                                  ![p.id].end = Given(p.body.end, @),
                                  ![p.id].category = Given(p.body.category, @),
                                  ![p.id].raced = @ \/ p.snap # DatesOf(goals[p.id])]
    BY <1>2, <1>4 DEF UpdateGoal
  <2>2. PICK g \in Goals : g = p.id
    BY <2>1 DEF list_goals
  <2>3. PICK old \in Goal : old = goals[g]
    BY <1>1
  <2>4. PICK race \in BOOLEAN : race <=> (old.raced \/ p.snap # DatesOf(old))
    OBVIOUS
  <2> DEFINE row == [old EXCEPT !.start = Given(p.body.start, old.start),
                                !.end = Given(p.body.end, old.end),
                                !.category = Given(p.body.category, old.category),
                                !.raced = race]
  <2>5. /\ old.state = "live" /\ GoalInOrder(old, MyCategories) /\ old.raced \in BOOLEAN
        /\ old.start \in Nat \union {None} /\ old.end \in Nat \union {None}
        /\ old.category \in Categories \union {None}
    BY <1>1, <2>1, <2>2, <2>3 DEF RowsInv, list_goals, Goal
  <2>6. goals' = [goals EXCEPT ![g] = row]
    <3>1. goals' = [goals EXCEPT ![g] =
                      [old EXCEPT !.start = Given(p.body.start, old.start),
                                  !.end = Given(p.body.end, old.end),
                                  !.category = Given(p.body.category, old.category),
                                  !.raced = old.raced \/ p.snap # DatesOf(old)]]
      BY <1>1, <2>1, <2>2, <2>3
    <3>2. (old.raced \/ p.snap # DatesOf(old)) = race
      BY <2>4, <2>5
    <3>3. QED
      BY <3>1, <3>2
  <2>7. row \in Goal /\ row.state = "live"
        /\ row.start = Given(p.body.start, old.start)
        /\ row.end = Given(p.body.end, old.end)
        /\ row.category = Given(p.body.category, old.category)
    <3>1. /\ Given(p.body.start, old.start) \in Nat \union {None}
          /\ Given(p.body.end, old.end) \in Nat \union {None}
          /\ Given(p.body.category, old.category) \in Categories \union {None}
      BY <1>2, <2>5 DEF Given
    <3>2. QED
      BY <2>3, <2>4, <2>5, <3>1 DEF Goal
  <2>7a. row.raced = race
    BY <2>3 DEF Goal
  <2> HIDE DEF row
  <2>8. GoalInOrder(row, MyCategories)
    <3>1. p.body.category = None \/ OfKind(p.body.category, "goal", MyCategories)
      BY <1>1, <1>2, <2>1, WrittenCategory DEF GoalOps
    <3>2. row.category = None \/ OfKind(row.category, "goal", MyCategories)
      BY <2>5, <2>7, <3>1 DEF GoalInOrder, Given
    <3>3. row.start \in Nat
      BY <1>2, <2>5, <2>7 DEF GoalInOrder, Given
    <3>4. DueInTime(row.start, row.end) \/ row.raced
      <4>1. CASE race
        BY <2>7a, <4>1
      <4>2. CASE ~race
        <5>1. p.snap = DatesOf(old) /\ p.snap.start = old.start /\ p.snap.end = old.end
          BY <2>4, <4>2 DEF DatesOf
        <5>2. MergedDue(p.body, p.snap)
          BY <1>1, <1>2 DEF Knows, KnowsItsDates
        <5>3. QED
          BY <2>7, <5>1, <5>2 DEF MergedDue
      <4>3. QED
        BY <4>1, <4>2
    <3>5. QED
      BY <3>2, <3>3, <3>4 DEF GoalInOrder
  <2>9. /\ goals' \in [Goals -> Goal] /\ goals'[g] = row
        /\ \A x \in Goals \ {g} : goals'[x] = goals[x]
    BY <1>1, <2>6, <2>7
  <2>10. \A x \in Goals : GoalInOrder(goals'[x], MyCategories)
    BY <1>1, <2>8, <2>9 DEF RowsInv
  <2>11. QED
    BY <1>1, <2>9, <2>10, GoalsKeepOrder DEF GoalsTypeOK
<1>5. QED
  BY <1>3, <1>4

LEMMA DeleteGoalRows ==
  ASSUME BaseInv, DeleteGoal
  PROVE  GoalsTypeOK' /\ RowsInv'
<1>1. PICK g \in Goals : delete_goal(g)
  BY DEF DeleteGoal
<1> DEFINE row == [NoGoal EXCEPT !.state = "deleted"]
<1>2. row \in Goal /\ row.state = "deleted"
  BY DEF NoGoal, Goal, States
<1>3. GoalInOrder(row, MyCategories)
  BY <1>2 DEF GoalInOrder
<1>4. goals' = [goals EXCEPT ![g] = row] /\ goals \in [Goals -> Goal] /\ RowsInv
  BY <1>1 DEF delete_goal, BaseInv, TypeOK, GoalsTypeOK
<1> HIDE DEF row
<1>5. goals' \in [Goals -> Goal] /\ \A x \in Goals : GoalInOrder(goals'[x], MyCategories)
  BY <1>2, <1>3, <1>4 DEF RowsInv
<1>6. QED
  BY <1>4, <1>5, GoalsKeepOrder DEF DeleteGoal, GoalsTypeOK

\* A link that still exists at the write is live and the user's own.
LEMMA WrittenHabit ==
  ASSUME NEW r \in Requests, NEW p \in Request, p = req[r], p.pc = "write", Knows(p),
         HabitExists(p.body.habit)
  PROVE  p.body.habit \in list_habits \union {None}
BY DEF HabitExists, Knows, KnowsItsLinks, list_habits, MyHabit

LEMMA InsertEventRows ==
  ASSUME BaseInv, NEW r \in Requests, InsertEvent(r), today' = today,
         categories' = categories, habits' = habits, logs' = logs, goals' = goals,
         notes' = notes
  PROVE  EventsTypeOK' /\ RowsInv'
<1>1. /\ req[r].pc = "write" /\ req[r].op = "create_event"
      /\ events \in [Events -> Event] /\ RowsInv
  BY DEF InsertEvent, BaseInv, TypeOK, EventsTypeOK
<1>2. PICK p \in Request :
           /\ p = req[r] /\ p.pc = "write" /\ p.body \in Body /\ Knows(p)
           /\ p.body.start \in Nat \union {None} /\ p.body.end \in Nat \union {None}
           /\ p.body.category \in Categories \union {None}
           /\ p.body.habit \in Habits \union {None}
  BY <1>1, WriterBody
<1>3. CASE events' = events
  BY <1>1, <1>3, EventsKeepOrder DEF EventsTypeOK, RowsInv
<1>4. CASE ~(events' = events)
  <2> DEFINE row == [state |-> "live", start |-> p.body.start, end |-> p.body.end,
                     habit |-> p.body.habit, category |-> p.body.category,
                     raced |-> FALSE]
  <2>1. LinksExist(r) /\ \E e \in Events : events' = [events EXCEPT ![e] = row]
    BY <1>2, <1>4 DEF InsertEvent
  <2>2. PICK e \in Events : events' = [events EXCEPT ![e] = row]
    BY <2>1
  <2>3. row \in Event
    BY <1>2 DEF Event, States
  <2>4. EventInOrder(row, MyCategories, list_habits)
    <3>1. p.body.category \in MyCategories \union {None}
      BY <1>2, <2>1, WrittenCategory DEF LinksExist
    <3>2. p.body.habit \in list_habits \union {None}
      BY <1>2, <2>1, WrittenHabit DEF LinksExist
    <3>3. p.body.start \in Nat /\ ValidRange(p.body.start, p.body.end)
      BY <1>1, <1>2 DEF Knows, KnowsItsDates
    <3>4. QED
      BY <3>1, <3>2, <3>3 DEF EventInOrder
  <2> HIDE DEF row
  <2>5. /\ events' \in [Events -> Event] /\ events'[e] = row
        /\ \A x \in Events \ {e} : events'[x] = events[x]
    BY <1>1, <2>2, <2>3
  <2>6. \A x \in Events : EventInOrder(events'[x], MyCategories, list_habits)
    BY <1>1, <2>4, <2>5 DEF RowsInv
  <2>7. QED
    BY <1>1, <2>5, <2>6, EventsKeepOrder DEF EventsTypeOK
<1>5. QED
  BY <1>3, <1>4

LEMMA UpdateEventRows ==
  ASSUME BaseInv, NEW r \in Requests, UpdateEvent(r), today' = today,
         categories' = categories, habits' = habits, logs' = logs, goals' = goals,
         notes' = notes
  PROVE  EventsTypeOK' /\ RowsInv'
<1>1. /\ req[r].pc = "write" /\ req[r].op = "patch_event"
      /\ events \in [Events -> Event] /\ RowsInv
  BY DEF UpdateEvent, BaseInv, TypeOK, EventsTypeOK
<1>2. PICK p \in Request :
           /\ p = req[r] /\ p.pc = "write" /\ p.body \in Body /\ Knows(p)
           /\ p.body.start \in Nat \union {None} /\ p.body.end \in Nat \union {None}
           /\ p.body.category \in Categories \union {None}
           /\ p.body.habit \in Habits \union {None}
  BY <1>1, WriterBody
<1>3. CASE events' = events
  BY <1>1, <1>3, EventsKeepOrder DEF EventsTypeOK, RowsInv
<1>4. CASE ~(events' = events)
  <2>1. /\ events[p.id].state = "live" /\ LinksExist(r)
        /\ events' = [events EXCEPT ![p.id].start = Given(p.body.start, @),
                                    ![p.id].end = Given(p.body.end, @),
                                    ![p.id].habit = Given(p.body.habit, @),
                                    ![p.id].category = Given(p.body.category, @),
                                    ![p.id].raced = @ \/ p.snap # DatesOf(events[p.id])]
    BY <1>2, <1>4 DEF UpdateEvent
  <2>2. PICK e \in Events : e = p.id
    BY <1>1, <1>2 DEF Knows, SaysItsRow
  <2>3. PICK old \in Event : old = events[e]
    BY <1>1
  <2>4. PICK race \in BOOLEAN : race <=> (old.raced \/ p.snap # DatesOf(old))
    OBVIOUS
  <2> DEFINE row == [old EXCEPT !.start = Given(p.body.start, old.start),
                                !.end = Given(p.body.end, old.end),
                                !.habit = Given(p.body.habit, old.habit),
                                !.category = Given(p.body.category, old.category),
                                !.raced = race]
  <2>5. /\ old.state = "live" /\ EventInOrder(old, MyCategories, list_habits)
        /\ old.raced \in BOOLEAN /\ old.start \in Nat \union {None}
        /\ old.end \in Nat \union {None} /\ old.habit \in Habits \union {None}
        /\ old.category \in Categories \union {None}
    BY <1>1, <2>1, <2>2, <2>3 DEF RowsInv, Event
  <2>6. events' = [events EXCEPT ![e] = row]
    <3>1. events' = [events EXCEPT ![e] =
                       [old EXCEPT !.start = Given(p.body.start, old.start),
                                   !.end = Given(p.body.end, old.end),
                                   !.habit = Given(p.body.habit, old.habit),
                                   !.category = Given(p.body.category, old.category),
                                   !.raced = old.raced \/ p.snap # DatesOf(old)]]
      BY <1>1, <2>1, <2>2, <2>3
    <3>2. (old.raced \/ p.snap # DatesOf(old)) = race
      BY <2>4, <2>5
    <3>3. QED
      BY <3>1, <3>2
  <2>7. row \in Event /\ row.state = "live"
        /\ row.start = Given(p.body.start, old.start)
        /\ row.end = Given(p.body.end, old.end)
        /\ row.habit = Given(p.body.habit, old.habit)
        /\ row.category = Given(p.body.category, old.category)
    <3>1. /\ Given(p.body.start, old.start) \in Nat \union {None}
          /\ Given(p.body.end, old.end) \in Nat \union {None}
          /\ Given(p.body.habit, old.habit) \in Habits \union {None}
          /\ Given(p.body.category, old.category) \in Categories \union {None}
      BY <1>2, <2>5 DEF Given
    <3>2. QED
      BY <2>3, <2>4, <2>5, <3>1 DEF Event
  <2>7a. row.raced = race
    BY <2>3 DEF Event
  <2> HIDE DEF row
  <2>8. EventInOrder(row, MyCategories, list_habits)
    <3>1. p.body.category \in MyCategories \union {None}
      BY <1>2, <2>1, WrittenCategory DEF LinksExist
    <3>2. p.body.habit \in list_habits \union {None}
      BY <1>2, <2>1, WrittenHabit DEF LinksExist
    <3>3. /\ row.category \in MyCategories \union {None}
          /\ row.habit \in list_habits \union {None}
      BY <2>5, <2>7, <3>1, <3>2 DEF EventInOrder, Given
    <3>4. row.start \in Nat
      BY <1>2, <2>5, <2>7 DEF EventInOrder, Given
    <3>5. ValidRange(row.start, row.end) \/ row.raced
      <4>1. CASE race
        BY <2>7a, <4>1
      <4>2. CASE ~race
        <5>1. p.snap = DatesOf(old) /\ p.snap.start = old.start /\ p.snap.end = old.end
          BY <2>4, <4>2 DEF DatesOf
        <5>2. MergedRange(p.body, p.snap)
          BY <1>1, <1>2 DEF Knows, KnowsItsDates
        <5>3. QED
          BY <2>7, <5>1, <5>2 DEF MergedRange
      <4>3. QED
        BY <4>1, <4>2
    <3>6. QED
      BY <3>3, <3>4, <3>5 DEF EventInOrder
  <2>9. /\ events' \in [Events -> Event] /\ events'[e] = row
        /\ \A x \in Events \ {e} : events'[x] = events[x]
    BY <1>1, <2>6, <2>7
  <2>10. \A x \in Events : EventInOrder(events'[x], MyCategories, list_habits)
    BY <1>1, <2>8, <2>9 DEF RowsInv
  <2>11. QED
    BY <1>1, <2>9, <2>10, EventsKeepOrder DEF EventsTypeOK
<1>5. QED
  BY <1>3, <1>4

LEMMA DeleteEventRows ==
  ASSUME BaseInv, DeleteEvent
  PROVE  EventsTypeOK' /\ RowsInv'
<1>1. PICK e \in Events : delete_event(e)
  BY DEF DeleteEvent
<1> DEFINE row == [NoEvent EXCEPT !.state = "deleted"]
<1>2. /\ row \in Event /\ row.state = "deleted" /\ row.category = None
      /\ row.habit = None
  BY DEF NoEvent, Event, States
<1>3. EventInOrder(row, MyCategories, list_habits)
  BY <1>2 DEF EventInOrder
<1>4. events' = [events EXCEPT ![e] = row] /\ events \in [Events -> Event] /\ RowsInv
  BY <1>1 DEF delete_event, BaseInv, TypeOK, EventsTypeOK
<1> HIDE DEF row
<1>5. /\ events' \in [Events -> Event]
      /\ \A x \in Events : EventInOrder(events'[x], MyCategories, list_habits)
  BY <1>2, <1>3, <1>4 DEF RowsInv
<1>6. QED
  BY <1>4, <1>5, EventsKeepOrder DEF DeleteEvent, EventsTypeOK

LEMMA InsertNoteRows ==
  ASSUME BaseInv, NEW r \in Requests, InsertNote(r), today' = today,
         categories' = categories, habits' = habits, logs' = logs, goals' = goals,
         events' = events
  PROVE  NotesTypeOK' /\ RowsInv'
<1>1. req[r].pc = "write" /\ notes \in [Notes -> Note] /\ RowsInv
  BY DEF InsertNote, BaseInv, TypeOK, NotesTypeOK
<1>2. PICK p \in Request :
           /\ p = req[r] /\ p.pc = "write" /\ p.body \in Body /\ Knows(p)
           /\ p.body.category \in Categories \union {None}
  BY <1>1, WriterBody
<1>3. CASE notes' = notes
  BY <1>1, <1>3, NotesKeepOrder DEF NotesTypeOK, RowsInv
<1>4. CASE ~(notes' = notes)
  <2> DEFINE row == [state |-> "live", category |-> p.body.category]
  <2>1. CategoryExists(r) /\ \E n \in Notes : notes' = [notes EXCEPT ![n] = row]
    BY <1>2, <1>4 DEF InsertNote
  <2>2. PICK n \in Notes : notes' = [notes EXCEPT ![n] = row]
    BY <2>1
  <2>3. row \in Note
    BY <1>2 DEF Note, States
  <2>4. NoteInOrder(row, MyCategories)
    <3>1. p.body.category \in MyCategories \union {None}
      BY <1>2, <2>1, WrittenCategory
    <3>2. QED
      BY <3>1 DEF NoteInOrder
  <2> HIDE DEF row
  <2>5. /\ notes' \in [Notes -> Note]
        /\ \A x \in Notes : NoteInOrder(notes'[x], MyCategories)
    BY <1>1, <2>2, <2>3, <2>4 DEF RowsInv
  <2>6. QED
    BY <1>1, <2>5, NotesKeepOrder DEF NotesTypeOK
<1>5. QED
  BY <1>3, <1>4

LEMMA UpdateNoteRows ==
  ASSUME BaseInv, NEW r \in Requests, UpdateNote(r), today' = today,
         categories' = categories, habits' = habits, logs' = logs, goals' = goals,
         events' = events
  PROVE  NotesTypeOK' /\ RowsInv'
<1>1. req[r].pc = "write" /\ notes \in [Notes -> Note] /\ RowsInv
  BY DEF UpdateNote, BaseInv, TypeOK, NotesTypeOK
<1>2. PICK p \in Request :
           /\ p = req[r] /\ p.pc = "write" /\ p.body \in Body /\ Knows(p)
           /\ p.body.category \in Categories \union {None}
  BY <1>1, WriterBody
<1>3. CASE notes' = notes
  BY <1>1, <1>3, NotesKeepOrder DEF NotesTypeOK, RowsInv
<1>4. CASE ~(notes' = notes)
  <2>1. /\ p.id \in list_notes /\ CategoryExists(r)
        /\ notes' = [notes EXCEPT ![p.id].category = Given(p.body.category, @)]
    BY <1>2, <1>4 DEF UpdateNote
  <2>2. PICK n \in Notes : n = p.id
    BY <2>1 DEF list_notes
  <2>3. PICK old \in Note : old = notes[n]
    BY <1>1
  <2> DEFINE row == [old EXCEPT !.category = Given(p.body.category, old.category)]
  <2>4. /\ old.category \in Categories \union {None} /\ old.state = "live"
        /\ NoteInOrder(old, MyCategories)
    BY <1>1, <2>1, <2>2, <2>3 DEF RowsInv, Note, list_notes
  <2>5. /\ row \in Note /\ row.state = "live"
        /\ row.category = Given(p.body.category, old.category)
    BY <1>2, <2>3, <2>4 DEF Note, Given
  <2>6. notes' = [notes EXCEPT ![n] = row]
    BY <1>1, <2>1, <2>2, <2>3
  <2> HIDE DEF row
  <2>7. NoteInOrder(row, MyCategories)
    <3>1. p.body.category \in MyCategories \union {None}
      BY <1>2, <2>1, WrittenCategory
    <3>2. QED
      BY <2>4, <2>5, <3>1 DEF NoteInOrder, Given
  <2>8. /\ notes' \in [Notes -> Note]
        /\ \A x \in Notes : NoteInOrder(notes'[x], MyCategories)
    BY <1>1, <2>5, <2>6, <2>7 DEF RowsInv
  <2>9. QED
    BY <1>1, <2>8, NotesKeepOrder DEF NotesTypeOK
<1>5. QED
  BY <1>3, <1>4

LEMMA DeleteNoteRows ==
  ASSUME BaseInv, DeleteNote
  PROVE  NotesTypeOK' /\ RowsInv'
<1>1. PICK n \in Notes : delete_note(n)
  BY DEF DeleteNote
<1> DEFINE row == [NoNote EXCEPT !.state = "deleted"]
<1>2. row \in Note /\ row.state = "deleted"
  BY DEF NoNote, Note, States
<1>3. NoteInOrder(row, MyCategories)
  BY <1>2 DEF NoteInOrder
<1>4. notes' = [notes EXCEPT ![n] = row] /\ notes \in [Notes -> Note] /\ RowsInv
  BY <1>1 DEF delete_note, BaseInv, TypeOK, NotesTypeOK
<1> HIDE DEF row
<1>5. notes' \in [Notes -> Note] /\ \A x \in Notes : NoteInOrder(notes'[x], MyCategories)
  BY <1>2, <1>3, <1>4 DEF RowsInv
<1>6. QED
  BY <1>4, <1>5, NotesKeepOrder DEF DeleteNote, NotesTypeOK

\* A habit that is deleted takes its logs along and leaves the events.
LEMMA DeleteHabitRows ==
  ASSUME BaseInv, DeleteHabit
  PROVE  HabitsTypeOK' /\ EventsTypeOK' /\ RowsInv' /\ HabitsMoveOn
<1>1. PICK h \in Habits : /\ delete_habit(h)
                          /\ events' = [e \in Events |->
                               [events[e] EXCEPT !.habit = Unlinked(h, @)]]
  BY DEF DeleteHabit
<1>2. /\ today' = today /\ categories' = categories /\ goals' = goals /\ notes' = notes
      /\ RowsInv /\ habits \in [Habits -> Habit] /\ logs \in [Habits -> Logs]
      /\ events \in [Events -> Event]
  BY DEF DeleteHabit, BaseInv, TypeOK, HabitsTypeOK, EventsTypeOK
<1> DEFINE row == [NoHabit EXCEPT !.state = "deleted"]
<1>3. row \in Habit /\ row.state = "deleted"
  BY DEF NoHabit, Habit, States
<1>4. NoLogs \in Logs /\ \A d \in Days : NoLogs[d] = None
  BY DEF NoLogs, Logs
<1>5. /\ habits' = [habits EXCEPT ![h] = row] /\ logs' = [logs EXCEPT ![h] = NoLogs]
      /\ MyHabit(h)
  BY <1>1 DEF delete_habit
<1> HIDE DEF row
<1>6. /\ habits' \in [Habits -> Habit] /\ habits'[h] = row
      /\ \A x \in Habits \ {h} : habits'[x] = habits[x]
      /\ logs' \in [Habits -> Logs] /\ logs'[h] = NoLogs
      /\ \A x \in Habits \ {h} : logs'[x] = logs[x]
  BY <1>2, <1>3, <1>4, <1>5
<1>7. HabitsMoveOn
  BY <1>3, <1>6 DEF HabitsMoveOn, MyHabit
<1>8. MyCategories' = MyCategories
  BY <1>2 DEF MyCategories, LiveCategories
<1>9. \A x \in OwnHabits : HabitInOrder(habits'[x], MyCategories)
  <2>1. HabitInOrder(row, MyCategories)
    BY <1>3 DEF HabitInOrder
  <2>2. QED
    BY <1>2, <1>6, <2>1, NoneIsNothing DEF RowsInv
<1>10. \A x \in Habits, d \in Days : logs'[x][d] # None => MyHabit(x)' /\ d <= today
  BY <1>2, <1>4, <1>6 DEF RowsInv, MyHabit
<1>11. \A x \in list_habits : x # h => x \in list_habits'
  BY <1>6, NoneIsNothing DEF list_habits, MyHabit
<1>12. ASSUME NEW e \in Events
       PROVE  /\ events'[e] \in Event
              /\ EventInOrder(events'[e], MyCategories, list_habits')
  <2>1. PICK old \in Event : old = events[e]
    BY <1>2
  <2> DEFINE new == [old EXCEPT !.habit = Unlinked(h, old.habit)]
  <2>2. events'[e] = new
    BY <1>1, <2>1
  <2>3. old.habit \in Habits \union {None} /\ Unlinked(h, old.habit) \in Habits \union {None}
    BY DEF Event, Unlinked
  <2>4. /\ new \in Event /\ new.habit = Unlinked(h, old.habit)
        /\ new.category = old.category /\ new.state = old.state
        /\ new.start = old.start /\ new.end = old.end
    BY <2>1, <2>3 DEF Event
  <2>5. new.raced = old.raced
    BY <2>1 DEF Event
  <2>6. EventInOrder(old, MyCategories, list_habits)
    BY <1>2, <2>1 DEF RowsInv
  <2> HIDE DEF new
  <2>7. new.habit \in list_habits' \union {None}
    BY <1>11, <2>4, <2>6 DEF EventInOrder, Unlinked
  <2>8. EventInOrder(new, MyCategories, list_habits')
    BY <2>4, <2>5, <2>6, <2>7 DEF EventInOrder
  <2>9. QED
    BY <2>2, <2>4, <2>8
<1>13. events' \in [Events -> Event]
  BY <1>1, <1>12
<1>14. RowsInv'
  BY <1>2, <1>8, <1>9, <1>10, <1>12 DEF RowsInv
<1>15. QED
  BY <1>6, <1>7, <1>13, <1>14 DEF HabitsTypeOK, EventsTypeOK

-----------------------------------------------------------------------------
(* Categories and days                                                       *)

\* More categories of the user: every row stays in order.
LEMMA MoreCategories ==
  ASSUME NEW own, NEW more, own \subseteq more
  PROVE  /\ \A row : HabitInOrder(row, own) => HabitInOrder(row, more)
         /\ \A row : GoalInOrder(row, own) => GoalInOrder(row, more)
         /\ \A row, mine : EventInOrder(row, own, mine) => EventInOrder(row, more, mine)
         /\ \A row : NoteInOrder(row, own) => NoteInOrder(row, more)
BY DEF HabitInOrder, GoalInOrder, EventInOrder, NoteInOrder, OfKind

LEMMA CreateCategoryRows ==
  ASSUME BaseInv, create_category
  PROVE  TypeOK' /\ RowsInv'
<1>1. PICK c \in OwnCategories : categories' = [categories EXCEPT ![c] = "live"]
  BY DEF create_category
<1>2. /\ today' = today /\ req' = req /\ started' = started /\ habits' = habits
      /\ logs' = logs /\ goals' = goals /\ events' = events /\ notes' = notes
      /\ TypeOK /\ RowsInv
  BY DEF create_category, requests, tables, BaseInv
<1>3. /\ categories' \in [Categories -> States]
      /\ \A x \in Categories : categories[x] = "live" => categories'[x] = "live"
  BY <1>1, <1>2 DEF TypeOK, States
<1>4. MyCategories \subseteq MyCategories'
  BY <1>3 DEF MyCategories, LiveCategories
<1>5. list_habits' = list_habits /\ \A h : MyHabit(h)' <=> MyHabit(h)
  BY <1>2 DEF list_habits, MyHabit
<1>6. TypeOK'
  BY <1>2, <1>3 DEF TypeOK, HabitsTypeOK, GoalsTypeOK, EventsTypeOK, NotesTypeOK
<1>7. /\ \A h \in OwnHabits : HabitInOrder(habits[h], MyCategories')
      /\ \A g \in Goals : GoalInOrder(goals[g], MyCategories')
      /\ \A e \in Events : EventInOrder(events[e], MyCategories', list_habits)
      /\ \A n \in Notes : NoteInOrder(notes[n], MyCategories')
  BY <1>2, <1>4, MoreCategories DEF RowsInv
<1>8. RowsInv'
  BY <1>2, <1>5, <1>7 DEF RowsInv
<1>9. QED
  BY <1>6, <1>8
\* Without category c, a row of c has none.
Without(row, c) == [row EXCEPT !.category = Unlinked(c, row.category)]

LEMMA UnlinkedHabit ==
  ASSUME NEW row \in Habit, NEW c, NEW own, HabitInOrder(row, own)
  PROVE  Without(row, c) \in Habit /\ HabitInOrder(Without(row, c), own \ {c})
<1> DEFINE new == Without(row, c)
<1>1. row.category \in Categories \union {None}
  BY DEF Habit
<1>2. Unlinked(c, row.category) \in Categories \union {None}
  BY <1>1 DEF Unlinked
<1>3. /\ new \in Habit /\ new.category = Unlinked(c, row.category)
      /\ new.state = row.state /\ new.start = row.start /\ new.end = row.end
  BY <1>2 DEF Habit, Without
<1> HIDE DEF new
<1>4. HabitInOrder(new, own \ {c})
  BY <1>3 DEF HabitInOrder, OfKind, Unlinked
<1>5. QED
  BY <1>3, <1>4 DEF new

LEMMA UnlinkedGoal ==
  ASSUME NEW row \in Goal, NEW c, NEW own, GoalInOrder(row, own)
  PROVE  Without(row, c) \in Goal /\ GoalInOrder(Without(row, c), own \ {c})
<1> DEFINE new == Without(row, c)
<1>1. row.category \in Categories \union {None}
  BY DEF Goal
<1>2. Unlinked(c, row.category) \in Categories \union {None}
  BY <1>1 DEF Unlinked
<1>3. /\ new \in Goal /\ new.category = Unlinked(c, row.category)
      /\ new.state = row.state /\ new.start = row.start /\ new.end = row.end
  BY <1>2 DEF Goal, Without
<1>4. new.raced = row.raced
  BY DEF Goal, Without
<1> HIDE DEF new
<1>5. GoalInOrder(new, own \ {c})
  BY <1>3, <1>4 DEF GoalInOrder, OfKind, Unlinked
<1>6. QED
  BY <1>3, <1>5 DEF new

LEMMA UnlinkedEvent ==
  ASSUME NEW row \in Event, NEW c, NEW own, NEW mine, EventInOrder(row, own, mine)
  PROVE  Without(row, c) \in Event /\ EventInOrder(Without(row, c), own \ {c}, mine)
<1> DEFINE new == Without(row, c)
<1>1. row.category \in Categories \union {None}
  BY DEF Event
<1>2. Unlinked(c, row.category) \in Categories \union {None}
  BY <1>1 DEF Unlinked
<1>3. /\ new \in Event /\ new.category = Unlinked(c, row.category)
      /\ new.habit = row.habit
      /\ new.state = row.state /\ new.start = row.start /\ new.end = row.end
  BY <1>2 DEF Event, Without
<1>4. new.raced = row.raced
  BY DEF Event, Without
<1> HIDE DEF new
<1>5. EventInOrder(new, own \ {c}, mine)
  BY <1>3, <1>4 DEF EventInOrder, Unlinked
<1>6. QED
  BY <1>3, <1>5 DEF new

LEMMA UnlinkedNote ==
  ASSUME NEW row \in Note, NEW c, NEW own, NoteInOrder(row, own)
  PROVE  Without(row, c) \in Note /\ NoteInOrder(Without(row, c), own \ {c})
<1> DEFINE new == Without(row, c)
<1>1. row.category \in Categories \union {None}
  BY DEF Note
<1>2. Unlinked(c, row.category) \in Categories \union {None}
  BY <1>1 DEF Unlinked
<1>3. /\ new \in Note /\ new.category = Unlinked(c, row.category)
      /\ new.state = row.state
  BY <1>2 DEF Note, Without
<1> HIDE DEF new
<1>4. NoteInOrder(new, own \ {c})
  BY <1>3 DEF NoteInOrder, Unlinked
<1>5. QED
  BY <1>3, <1>4 DEF new

LEMMA DeleteCategoryRows ==
  ASSUME BaseInv, delete_category
  PROVE  TypeOK' /\ RowsInv' /\ HabitsMoveOn
<1>1. PICK c \in MyCategories :
        /\ categories' = [categories EXCEPT ![c] = "deleted"]
        /\ habits' = [h \in Habits |-> Without(habits[h], c)]
        /\ goals' = [g \in Goals |-> Without(goals[g], c)]
        /\ events' = [e \in Events |-> Without(events[e], c)]
        /\ notes' = [n \in Notes |-> Without(notes[n], c)]
  BY DEF delete_category, Without
<1>2. /\ today' = today /\ req' = req /\ started' = started /\ logs' = logs
      /\ TypeOK /\ RowsInv
  BY DEF delete_category, requests, BaseInv
<1>3. /\ habits \in [Habits -> Habit] /\ goals \in [Goals -> Goal]
      /\ events \in [Events -> Event] /\ notes \in [Notes -> Note]
      /\ categories \in [Categories -> States]
  BY <1>2 DEF TypeOK, HabitsTypeOK, GoalsTypeOK, EventsTypeOK, NotesTypeOK
<1>4. categories' \in [Categories -> States] /\ MyCategories' = MyCategories \ {c}
  <2>1. c \in Categories
    BY DEF MyCategories, LiveCategories
  <2>2. categories' \in [Categories -> States]
    BY <1>1, <1>3, <2>1 DEF States
  <2>3. \A x \in Categories : categories'[x] = "live" <=> categories[x] = "live" /\ x # c
    BY <1>1, <1>3, <2>1
  <2>4. QED
    BY <2>2, <2>3 DEF MyCategories, LiveCategories
<1>5. ASSUME NEW h \in Habits
      PROVE  /\ habits'[h] \in Habit
             /\ habits'[h].state = habits[h].state /\ habits'[h].start = habits[h].start
             /\ h \in OwnHabits => HabitInOrder(habits'[h], MyCategories \ {c})
  <2>1. PICK row \in Habit : row = habits[h]
    BY <1>3
  <2>2. habits'[h] = Without(row, c)
    BY <1>1, <2>1
  <2>3. row.category \in Categories \union {None}
    BY DEF Habit
  <2>4. Unlinked(c, row.category) \in Categories \union {None}
    BY <2>3 DEF Unlinked
  <2>5. /\ Without(row, c) \in Habit /\ Without(row, c).state = row.state
        /\ Without(row, c).start = row.start
    BY <2>4 DEF Habit, Without
  <2>6. h \in OwnHabits => HabitInOrder(Without(row, c), MyCategories \ {c})
    <3>1. h \in OwnHabits => HabitInOrder(row, MyCategories)
      BY <1>2, <2>1 DEF RowsInv
    <3>2. QED
      BY <3>1, UnlinkedHabit
  <2>7. QED
    BY <2>1, <2>2, <2>5, <2>6
<1>6. ASSUME NEW g \in Goals
      PROVE  goals'[g] \in Goal /\ GoalInOrder(goals'[g], MyCategories \ {c})
  <2>1. PICK row \in Goal : row = goals[g]
    BY <1>3
  <2>2. goals'[g] = Without(row, c) /\ GoalInOrder(row, MyCategories)
    BY <1>1, <1>2, <2>1 DEF RowsInv
  <2>3. QED
    BY <2>2, UnlinkedGoal
<1>7. ASSUME NEW e \in Events
      PROVE  /\ events'[e] \in Event
             /\ EventInOrder(events'[e], MyCategories \ {c}, list_habits)
  <2>1. PICK row \in Event : row = events[e]
    BY <1>3
  <2>2. events'[e] = Without(row, c) /\ EventInOrder(row, MyCategories, list_habits)
    BY <1>1, <1>2, <2>1 DEF RowsInv
  <2>3. QED
    BY <2>2, UnlinkedEvent
<1>8. ASSUME NEW n \in Notes
      PROVE  notes'[n] \in Note /\ NoteInOrder(notes'[n], MyCategories \ {c})
  <2>1. PICK row \in Note : row = notes[n]
    BY <1>3
  <2>2. notes'[n] = Without(row, c) /\ NoteInOrder(row, MyCategories)
    BY <1>1, <1>2, <2>1 DEF RowsInv
  <2>3. QED
    BY <2>2, UnlinkedNote
<1>9. /\ habits' \in [Habits -> Habit] /\ goals' \in [Goals -> Goal]
      /\ events' \in [Events -> Event] /\ notes' \in [Notes -> Note]
  BY <1>1, <1>5, <1>6, <1>7, <1>8
<1>10. \A h \in Habits : MyHabit(h)' <=> MyHabit(h)
  BY <1>5 DEF MyHabit
<1>11. list_habits' = list_habits
  BY <1>10, NoneIsNothing DEF list_habits
<1>12. HabitsMoveOn
  BY <1>5, <1>10 DEF HabitsMoveOn
<1>13. TypeOK'
  BY <1>2, <1>4, <1>9 DEF TypeOK, HabitsTypeOK, GoalsTypeOK, EventsTypeOK, NotesTypeOK
<1>14. RowsInv'
  BY <1>2, <1>4, <1>5, <1>6, <1>7, <1>8, <1>10, <1>11, NoneIsNothing DEF RowsInv
<1>15. QED
  BY <1>12, <1>13, <1>14

LEMMA MidnightRows ==
  ASSUME BaseInv, Midnight
  PROVE  TypeOK' /\ RowsInv' /\ HabitsMoveOn /\ today <= today'
<1>1. /\ today < Horizon /\ today' = today + 1 /\ categories' = categories /\ req' = req
      /\ started' = started /\ habits' = habits /\ logs' = logs /\ goals' = goals
      /\ events' = events /\ notes' = notes /\ TypeOK /\ RowsInv
  BY DEF Midnight, requests, tables, BaseInv
<1>2. today \in Days /\ today \in Nat /\ Horizon \in Nat
  BY <1>1, NoneIsNothing DEF TypeOK
<1>3. today + 1 \in Days
  <2>1. today .. Horizon \subseteq Days
    BY <1>2, NoneIsNothing, DaysAssumption
  <2>2. QED
    BY <1>1, <1>2, <2>1
<1>4. TypeOK'
  BY <1>1, <1>3 DEF TypeOK, HabitsTypeOK, GoalsTypeOK, EventsTypeOK, NotesTypeOK
<1>5. /\ MyCategories' = MyCategories /\ list_habits' = list_habits
      /\ \A h : MyHabit(h)' <=> MyHabit(h)
  BY <1>1 DEF MyCategories, LiveCategories, list_habits, MyHabit
<1>6. \A h \in Habits, d \in Days : logs[h][d] # None => MyHabit(h) /\ d <= today + 1
  <2>1. \A d \in Days : d <= today => d <= today + 1
    BY <1>2, NoneIsNothing
  <2>2. QED
    BY <1>1, <2>1 DEF RowsInv
<1>7. RowsInv'
  BY <1>1, <1>5, <1>6 DEF RowsInv
<1>8. HabitsMoveOn
  BY <1>1 DEF HabitsMoveOn, MyHabit
<1>9. QED
  BY <1>1, <1>2, <1>4, <1>7, <1>8

-----------------------------------------------------------------------------
(* The invariant                                                             *)

\* A step that leaves all tables, categories and the day alone.
LEMMA TablesStay ==
  ASSUME BaseInv, today' = today, categories' = categories, UNCHANGED tables
  PROVE  /\ HabitsTypeOK' /\ GoalsTypeOK' /\ EventsTypeOK' /\ NotesTypeOK'
         /\ RowsInv' /\ HabitsMoveOn
<1>1. /\ habits' = habits /\ logs' = logs /\ goals' = goals /\ events' = events
      /\ notes' = notes /\ TypeOK /\ RowsInv
  BY DEF tables, BaseInv
<1>2. /\ MyCategories' = MyCategories /\ list_habits' = list_habits
      /\ \A h : MyHabit(h)' <=> MyHabit(h)
  BY <1>1 DEF MyCategories, LiveCategories, list_habits, MyHabit
<1>3. /\ HabitsTypeOK' /\ GoalsTypeOK' /\ EventsTypeOK' /\ NotesTypeOK'
  BY <1>1 DEF TypeOK, HabitsTypeOK, GoalsTypeOK, EventsTypeOK, NotesTypeOK
<1>4. RowsInv'
  BY <1>1, <1>2 DEF RowsInv
<1>5. HabitsMoveOn
  BY <1>1, <1>2 DEF HabitsMoveOn
<1>6. QED
  BY <1>3, <1>4, <1>5

\* The steps of request r.
RequestStep(r) ==
  \/ /\ HabitStarts(r) \/ HabitSteps(r)
     /\ UNCHANGED <<today, categories, goals, events, notes>>
  \/ /\ GoalStarts(r) \/ GoalSteps(r)
     /\ UNCHANGED <<today, categories, habits, logs, events, notes>>
  \/ /\ EventStarts(r) \/ EventSteps(r)
     /\ UNCHANGED <<today, categories, habits, logs, goals, notes>>
  \/ /\ NoteStarts(r) \/ NoteSteps(r)
     /\ UNCHANGED <<today, categories, habits, logs, goals, events>>
  \/ CheckCategory(r) /\ UNCHANGED <<today, categories, tables>>
  \/ Abandon(r)

LEMMA StepKeepsRows ==
  ASSUME BaseInv, NEW r \in Requests, RequestStep(r)
  PROVE  /\ today' = today /\ categories' = categories
         /\ HabitsTypeOK' /\ GoalsTypeOK' /\ EventsTypeOK' /\ NotesTypeOK'
         /\ RowsInv' /\ HabitsMoveOn
<1>1. today' = today /\ categories' = categories
  BY DEF RequestStep, Abandon
<1>2. HabitsTypeOK /\ GoalsTypeOK /\ EventsTypeOK /\ NotesTypeOK
  BY DEF BaseInv, TypeOK
<1>3. CASE UNCHANGED tables
  BY <1>1, <1>3, TablesStay
<1>4. CASE /\ HabitStarts(r) \/ HabitSteps(r)
           /\ UNCHANGED <<today, categories, goals, events, notes>>
  <2>1. GoalsTypeOK' /\ EventsTypeOK' /\ NotesTypeOK'
    BY <1>2, <1>4 DEF GoalsTypeOK, EventsTypeOK, NotesTypeOK
  <2>2. CASE InsertHabit(r) \/ UpdateHabit(r) \/ WriteLog(r)
    BY <1>1, <1>4, <2>1, <2>2, InsertHabitRows, UpdateHabitRows, WriteLogRows
  <2>3. CASE ~InsertHabit(r) /\ ~UpdateHabit(r) /\ ~WriteLog(r)
    <3>1. habits' = habits /\ logs' = logs
      BY <1>4, <2>3 DEF HabitStarts, HabitSteps, create_habit, patch_habit, write_log,
         ReadHabit, CheckHabit
    <3>2. QED
      BY <1>3, <1>4, <3>1 DEF tables
  <2>4. QED
    BY <2>2, <2>3
<1>5. CASE /\ GoalStarts(r) \/ GoalSteps(r)
           /\ UNCHANGED <<today, categories, habits, logs, events, notes>>
  <2>1. HabitsTypeOK' /\ EventsTypeOK' /\ NotesTypeOK' /\ HabitsMoveOn
    BY <1>2, <1>5 DEF HabitsTypeOK, EventsTypeOK, NotesTypeOK, HabitsMoveOn, MyHabit
  <2>2. CASE InsertGoal(r) \/ UpdateGoal(r)
    BY <1>1, <1>5, <2>1, <2>2, InsertGoalRows, UpdateGoalRows
  <2>3. CASE ~InsertGoal(r) /\ ~UpdateGoal(r)
    <3>1. goals' = goals
      BY <1>5, <2>3 DEF GoalStarts, GoalSteps, create_goal, patch_goal, ReadGoal
    <3>2. QED
      BY <1>3, <1>5, <3>1 DEF tables
  <2>4. QED
    BY <2>2, <2>3
<1>6. CASE /\ EventStarts(r) \/ EventSteps(r)
           /\ UNCHANGED <<today, categories, habits, logs, goals, notes>>
  <2>1. HabitsTypeOK' /\ GoalsTypeOK' /\ NotesTypeOK' /\ HabitsMoveOn
    BY <1>2, <1>6 DEF HabitsTypeOK, GoalsTypeOK, NotesTypeOK, HabitsMoveOn, MyHabit
  <2>2. CASE InsertEvent(r) \/ UpdateEvent(r)
    BY <1>1, <1>6, <2>1, <2>2, InsertEventRows, UpdateEventRows
  <2>3. CASE ~InsertEvent(r) /\ ~UpdateEvent(r)
    <3>1. events' = events
      BY <1>6, <2>3 DEF EventStarts, EventSteps, create_event, patch_event, ReadEvent,
         CheckLink
    <3>2. QED
      BY <1>3, <1>6, <3>1 DEF tables
  <2>4. QED
    BY <2>2, <2>3
<1>7. CASE /\ NoteStarts(r) \/ NoteSteps(r)
           /\ UNCHANGED <<today, categories, habits, logs, goals, events>>
  <2>1. HabitsTypeOK' /\ GoalsTypeOK' /\ EventsTypeOK' /\ HabitsMoveOn
    BY <1>2, <1>7 DEF HabitsTypeOK, GoalsTypeOK, EventsTypeOK, HabitsMoveOn, MyHabit
  <2>2. CASE InsertNote(r) \/ UpdateNote(r)
    BY <1>1, <1>7, <2>1, <2>2, InsertNoteRows, UpdateNoteRows
  <2>3. CASE ~InsertNote(r) /\ ~UpdateNote(r)
    <3>1. notes' = notes
      BY <1>7, <2>3 DEF NoteStarts, NoteSteps, create_note, patch_note, ReadNote
    <3>2. QED
      BY <1>3, <1>7, <3>1 DEF tables
  <2>4. QED
    BY <2>2, <2>3
<1>8. CASE CheckCategory(r) /\ UNCHANGED <<today, categories, tables>>
  BY <1>3, <1>8
<1>9. CASE Abandon(r)
  BY <1>3, <1>9 DEF Abandon
<1>10. QED
  BY <1>4, <1>5, <1>6, <1>7, <1>8, <1>9 DEF RequestStep

LEMMA StepLearns ==
  ASSUME BaseInv, NEW r \in Requests, RequestStep(r)
  PROVE  Learns(r)
<1>1. today' = today /\ TypeOK
  BY DEF RequestStep, Abandon, BaseInv
<1>2. CASE HabitStarts(r) \/ HabitSteps(r)
  BY <1>1, <1>2, HabitStartsLearn, HabitStepsLearn DEF HabitStarts
<1>3. CASE (GoalStarts(r) \/ GoalSteps(r)) /\ habits' = habits
  BY <1>1, <1>3, GoalsLearn
<1>4. CASE (EventStarts(r) \/ EventSteps(r)) /\ habits' = habits
  BY <1>1, <1>4, EventsLearn
<1>5. CASE (NoteStarts(r) \/ NoteSteps(r)) /\ habits' = habits
  BY <1>1, <1>5, NotesLearn
<1>6. CASE CheckCategory(r) /\ habits' = habits
  BY <1>1, <1>6, CategoryLearns
<1>7. CASE End(r)
  BY <1>1, <1>7, EndLearns
<1>8. QED
  BY <1>2, <1>3, <1>4, <1>5, <1>6, <1>7 DEF RequestStep, Abandon, tables

\* Everybody else still knows what he knew.
LEMMA OthersKnow ==
  ASSUME BaseInv, HabitsMoveOn, TypeOK', today <= today',
         NEW x \in Requests, req'[x] = req[x]
  PROVE  Knows(req[x])'
<1>1. PICK q \in Request : q = req[x]
  BY DEF BaseInv, TypeOK
<1>2. Knows(q) /\ today \in Nat /\ today' \in Nat
  BY <1>1, NoneIsNothing DEF BaseInv, TypeOK
<1>3. Knows(q)'
  BY <1>2, KnowsStays
<1>4. QED
  BY <1>1, <1>3 DEF Knows, SaysItsRow, KnowsItsLinks, KnowsItsDates

LEMMA BaseStep ==
  ASSUME BaseInv, [Next]_vars
  PROVE  BaseInv'
<1>1. TypeOK /\ today \in Nat
  BY NoneIsNothing DEF BaseInv, TypeOK
<1>2. ASSUME NEW r \in Requests, RequestStep(r)
      PROVE  BaseInv'
  <2>1. /\ today' = today /\ categories' = categories
        /\ HabitsTypeOK' /\ GoalsTypeOK' /\ EventsTypeOK' /\ NotesTypeOK'
        /\ RowsInv' /\ HabitsMoveOn
    BY <1>2, StepKeepsRows
  <2>2. PICK q \in Request : Becomes(r, q) /\ Knows(q)'
    BY <1>2, StepLearns DEF Learns
  <2>3. TypeOK'
    BY <1>1, <2>1, <2>2 DEF TypeOK, Becomes
  <2>4. Knows(req[r])'
    BY <2>2 DEF Becomes, Knows, SaysItsRow, KnowsItsLinks, KnowsItsDates
  <2>5. ASSUME NEW x \in Requests \ {r} PROVE Knows(req[x])'
    <3>1. req'[x] = req[x] /\ today <= today'
      BY <1>1, <2>1, <2>2 DEF Becomes
    <3>2. QED
      BY <2>1, <2>3, <3>1, OthersKnow
  <2>6. QED
    BY <2>1, <2>3, <2>4, <2>5 DEF BaseInv
<1>3. ASSUME TypeOK', RowsInv', HabitsMoveOn, today <= today', req' = req
      PROVE  BaseInv'
  <2>1. ASSUME NEW x \in Requests PROVE Knows(req[x])'
    BY <1>3, OthersKnow
  <2>2. QED
    BY <1>3, <2>1 DEF BaseInv
<1>4. CASE create_category
  <2>1. req' = req /\ today' = today /\ habits' = habits
    BY <1>4 DEF create_category, requests, tables
  <2>2. HabitsMoveOn
    BY <2>1 DEF HabitsMoveOn, MyHabit
  <2>3. QED
    BY <1>1, <1>3, <1>4, <2>1, <2>2, CreateCategoryRows
<1>5. CASE delete_category
  <2>1. req' = req /\ today' = today
    BY <1>5 DEF delete_category, requests
  <2>2. QED
    BY <1>1, <1>3, <1>5, <2>1, DeleteCategoryRows
<1>6. CASE DeleteHabit
  <2>1. /\ req' = req /\ started' = started /\ today' = today
        /\ categories' = categories /\ goals' = goals /\ notes' = notes
    BY <1>6 DEF DeleteHabit, requests
  <2>2. HabitsTypeOK' /\ EventsTypeOK' /\ RowsInv' /\ HabitsMoveOn
    BY <1>6, DeleteHabitRows
  <2>3. TypeOK'
    BY <1>1, <2>1, <2>2 DEF TypeOK, GoalsTypeOK, NotesTypeOK
  <2>4. QED
    BY <1>1, <1>3, <2>1, <2>2, <2>3
<1>7. CASE DeleteGoal \/ DeleteEvent \/ DeleteNote
  <2>1. /\ req' = req /\ started' = started /\ today' = today
        /\ categories' = categories /\ habits' = habits /\ logs' = logs
    BY <1>7 DEF DeleteGoal, DeleteEvent, DeleteNote, requests
  <2>2. HabitsMoveOn
    BY <2>1 DEF HabitsMoveOn, MyHabit
  <2>3. GoalsTypeOK' /\ EventsTypeOK' /\ NotesTypeOK' /\ RowsInv'
    <3>1. CASE DeleteGoal
      BY <1>1, <3>1, DeleteGoalRows DEF DeleteGoal, TypeOK, EventsTypeOK, NotesTypeOK
    <3>2. CASE DeleteEvent
      BY <1>1, <3>2, DeleteEventRows DEF DeleteEvent, TypeOK, GoalsTypeOK, NotesTypeOK
    <3>3. CASE DeleteNote
      BY <1>1, <3>3, DeleteNoteRows DEF DeleteNote, TypeOK, GoalsTypeOK, EventsTypeOK
    <3>4. QED
      BY <1>7, <3>1, <3>2, <3>3
  <2>4. TypeOK'
    BY <1>1, <2>1, <2>3 DEF TypeOK, HabitsTypeOK
  <2>5. QED
    BY <1>1, <1>3, <2>1, <2>2, <2>3, <2>4
<1>8. CASE Midnight
  <2>1. req' = req
    BY <1>8 DEF Midnight, requests
  <2>2. QED
    BY <1>3, <1>8, <2>1, MidnightRows
<1>9. CASE UNCHANGED vars
  <2>1. /\ req' = req /\ started' = started /\ today' = today
        /\ categories' = categories /\ UNCHANGED tables
    BY <1>9 DEF vars, tables
  <2>2. /\ HabitsTypeOK' /\ GoalsTypeOK' /\ EventsTypeOK' /\ NotesTypeOK'
        /\ RowsInv' /\ HabitsMoveOn
    BY <2>1, TablesStay
  <2>3. TypeOK'
    BY <1>1, <2>1, <2>2 DEF TypeOK
  <2>4. QED
    BY <1>1, <1>3, <2>1, <2>2, <2>3
<1>10. QED
  BY <1>2, <1>4, <1>5, <1>6, <1>7, <1>8, <1>9 DEF Next, RequestStep

LEMMA BaseInit ==
  ASSUME Init
  PROVE  BaseInv
<1>1. PICK past \in Past :
        /\ today = past.today /\ categories = past.categories
        /\ started = past.started
        /\ habits = past.habits /\ logs = past.logs
        /\ goals = past.goals /\ events = past.events /\ notes = past.notes
  BY DEF Init
<1>2. req = [r \in Requests |-> IdleRequest]
  BY DEF Init
<1>3. TypeOK
  BY <1>1, <1>2, PastAssumption, IdleIsRequest
     DEF TypeOK, HabitsTypeOK, GoalsTypeOK, EventsTypeOK, NotesTypeOK
<1>4. MyCategories = {c \in OwnCategories : past.categories[c] = "live"}
  BY <1>1, NoneIsNothing DEF MyCategories, LiveCategories
<1>5. list_habits = {h \in OwnHabits : past.habits[h].state = "live"}
  BY <1>1 DEF list_habits, MyHabit
<1>6. \A h : MyHabit(h) <=> h \in list_habits
  BY DEF MyHabit, list_habits
<1>7. RowsInv
  BY <1>1, <1>4, <1>5, <1>6, PastAssumption DEF RowsInv
<1>8. QED
  BY <1>2, <1>3, <1>7, IdleKnows DEF BaseInv

LEMMA BaseAlways == Spec => []BaseInv
<1>1. Init => BaseInv
  BY BaseInit
<1>2. BaseInv /\ [Next]_vars => BaseInv'
  BY BaseStep
<1>3. QED
  BY <1>1, <1>2, PTL DEF Spec

-----------------------------------------------------------------------------
(* The theorems                                                              *)

\* Rows in order lead to rows of their user.
LEMMA LinksOfRows ==
  ASSUME BaseInv
  PROVE  LinksAreOwned
<1>1. RowsInv
  BY DEF BaseInv
<1>2. \A h \in list_habits : h \in OwnHabits /\ habits[h].state = "live" /\ MyHabit(h)
  BY DEF list_habits, MyHabit
<1>3. \A h \in list_habits :
        habits[h].category # None => OfKind(habits[h].category, "habit", MyCategories)
  BY <1>1, <1>2 DEF RowsInv, HabitInOrder
<1>4. \A g \in list_goals :
        goals[g].category # None => OfKind(goals[g].category, "goal", MyCategories)
  BY <1>1 DEF RowsInv, GoalInOrder, list_goals
<1>5. \A e \in Events :
        /\ events[e].category \in MyCategories \union {None}
        /\ events[e].habit # None => MyHabit(events[e].habit)
  BY <1>1, <1>2 DEF RowsInv, EventInOrder
<1>6. \A n \in list_notes : notes[n].category \in MyCategories \union {None}
  BY <1>1 DEF RowsInv, NoteInOrder, list_notes
<1>7. \A log \in list_logs_range(1, Horizon) : MyHabit(log[1])
  BY <1>1, NoneIsNothing DEF list_logs_range, RowsInv
<1>8. QED
  BY <1>3, <1>4, <1>5, <1>6, <1>7 DEF LinksAreOwned

\* AgendaInv is an inductive invariant: whatever is deleted between the lookups
\* of a handler and its write, no row leads to one that is gone or is somebody
\* else's, and no log is of a day to come.
THEOREM AgendaInvHolds == Spec => []AgendaInv
<1>1. BaseInv => AgendaInv
  BY LinksOfRows DEF BaseInv, AgendaInv
<1>2. QED
  BY <1>1, BaseAlways, PTL

\* A habit never ends before it starts; a goal or an event may end before it
\* starts only when a PATCH wrote over dates that had changed since it read them.
THEOREM RangesBreakOnlyFromRaces == Spec => []RangeBreaksOnlyFromOverlap
<1>1. BaseInv => RangeBreaksOnlyFromOverlap
  <2>1. SUFFICES ASSUME BaseInv PROVE RangeBreaksOnlyFromOverlap
    OBVIOUS
  <2>2. RowsInv
    BY <2>1 DEF BaseInv
  <2>3. \A h \in list_habits : ValidDates(habits[h].start, habits[h].end)
    BY <2>2 DEF RowsInv, HabitInOrder, list_habits, MyHabit
  <2>4. \A g \in list_goals : DueInTime(goals[g].start, goals[g].end) \/ goals[g].raced
    BY <2>2 DEF RowsInv, GoalInOrder, list_goals
  <2>5. ASSUME NEW e \in Events, events[e].state = "live"
        PROVE  \/ e \in list_events(events[e].start, events[e].start + 1)
               \/ events[e].raced
    <3>1. /\ events[e].start \in Nat
          /\ ValidRange(events[e].start, events[e].end) \/ events[e].raced
      BY <2>2, <2>5 DEF RowsInv, EventInOrder
    <3>2. QED
      BY <2>5, <3>1 DEF list_events, ValidRange
  <2>6. QED
    BY <2>3, <2>4, <2>5 DEF RangeBreaksOnlyFromOverlap
<1>2. QED
  BY <1>1, BaseAlways, PTL

\* On every table of logs the query of the streak never counts more than its
\* comment says, and just as much when every day is scheduled.
THEOREM StreakCountsTheRun == Spec => []StreakIsRun
<1>1. BaseInv => StreakIsRun
  <2>1. SUFFICES ASSUME BaseInv, NEW h \in Habits
                 PROVE  /\ get_streak(h) <= StreakAsDocumented(logs[h], habits[h].mask)
                        /\ habits[h].mask = {} =>
                             get_streak(h) = StreakAsDocumented(logs[h], habits[h].mask)
    BY DEF StreakIsRun
  <2>2. PICK table \in Logs : table = logs[h]
    BY <2>1 DEF BaseInv, TypeOK, HabitsTypeOK
  <2>3. PICK mask : mask = habits[h].mask
    OBVIOUS
  <2>4. QED
    BY <2>2, <2>3, QueryCountsTheRun DEF get_streak
<1>2. QED
  BY <1>1, BaseAlways, PTL

\* A log of today is the newest of a table without logs of days to come.
LEMMA TodayLeads ==
  ASSUME NEW table \in Logs, NEW mask, NEW day \in Days,
         \A d \in Days : table[d] # None => d <= day,
         day \in Numbered(table, mask)
  PROVE  /\ table[day] = "done" => current_streak(table, mask) > 0
         /\ table[day] # "done" => current_streak(table, mask) = 0
<1> DEFINE M == Masked(table, mask)
           N == Numbered(table, mask)
           s == current_streak(table, mask)
<1>1. /\ M \in SUBSET Nat /\ IsFiniteSet(M) /\ N \in SUBSET M
      /\ N \in SUBSET Nat /\ IsFiniteSet(N) /\ Cardinality(N) \in Nat
  BY LogsAreDays
<1>2. /\ s \in 0 .. Cardinality(N)
      /\ \A d \in N : Rank(N, d) <= s <=> \A e \in N : e >= d => ~Cuts(table, mask, e)
  BY StreakRows
<1>3. \A d \in M : d <= day
  BY DEF Masked
<1>4. ~Cuts(table, mask, day) <=> table[day] = "done" /\ day .. Max(M) \subseteq M
  BY UncutRow
<1> HIDE DEF M, N, s
<1>5. day \in N /\ day \in M /\ day \in Nat
  BY <1>1 DEF N
<1>6. Max(M) = day
  <2>1. PICK a \in M : a = Max(M) /\ day <= a
    BY <1>1, <1>5, NewestDay
  <2>2. a \in Nat /\ a <= day
    BY <1>1, <1>3
  <2>3. QED
    BY <1>5, <2>1, <2>2
<1>7. \A e \in N : e >= day => e = day
  BY <1>1, <1>3, <1>5
<1>8. ASSUME table[day] = "done" PROVE s > 0
  <2>1. day .. day \subseteq M
    BY <1>5
  <2>2. ~Cuts(table, mask, day)
    BY <1>4, <1>6, <1>8, <2>1
  <2>3. Rank(N, day) <= s
    BY <1>2, <1>5, <1>7, <2>2
  <2>4. Rank(N, day) >= 1 /\ Rank(N, day) \in Nat
    BY <1>1, <1>5, RankCountsItself, RowsAreFinite
  <2>5. QED
    BY <1>1, <1>2, <2>3, <2>4
<1>9. ASSUME table[day] # "done" PROVE s = 0
  <2>1. SUFFICES ASSUME s # 0 PROVE FALSE
    OBVIOUS
  <2>2. 1 \in 1 .. Cardinality(N)
    BY <1>1, <1>2, <2>1
  <2>3. PICK d \in N : Rank(N, d) = 1
    BY <1>1, <2>2, RanksAreAll
  <2>4. \A e \in N : e >= d => ~Cuts(table, mask, e)
    BY <1>1, <1>2, <2>1, <2>3
  <2>5. d <= day
    BY <1>1, <1>3
  <2>6. ~Cuts(table, mask, day)
    BY <1>1, <1>5, <2>4, <2>5
  <2>7. QED
    BY <1>4, <1>9, <2>6
<1>10. QED
  BY <1>8, <1>9 DEF s

\* The two numbers on the page of a day agree: a scheduled day that is done is
\* in the streak, and one that is missed has ended it.
THEOREM PageOfTheDayAgrees == Spec => []TodayMatchesStreak
<1>1. BaseInv => TodayMatchesStreak
  <2>1. SUFFICES ASSUME BaseInv, NEW h \in list_habits, Scheduled(today, habits[h].mask)
                 PROVE  /\ today_status(logs[h], habits[h].mask, today) = "done" =>
                             current_streak(logs[h], habits[h].mask) > 0
                        /\ today_status(logs[h], habits[h].mask, today)
                              \in {"missed", "not_done"} =>
                             current_streak(logs[h], habits[h].mask) = 0
    BY DEF TodayMatchesStreak
  <2>2. h \in Habits
    BY NoneIsNothing DEF list_habits
  <2>3. PICK table \in Logs : table = logs[h]
    BY <2>1, <2>2 DEF BaseInv, TypeOK, HabitsTypeOK
  <2>4. PICK mask : mask = habits[h].mask
    OBVIOUS
  <2>5. PICK day \in Days : day = today
    BY <2>1 DEF BaseInv, TypeOK
  <2>6. \A d \in Days : table[d] # None => d <= day
    BY <2>1, <2>2, <2>3, <2>5 DEF BaseInv, RowsInv
  <2>7. ASSUME table[day] \in {"done", "missed", "not_done"}
        PROVE  day \in Numbered(table, mask)
    <3>1. table[day] # None /\ table[day] # "skipped"
      BY <2>7, DoneIsNotNone DEF Statuses, HABIT_LOG_STATUSES
    <3>2. QED
      BY <2>1, <2>4, <2>5, <3>1 DEF Numbered, Masked
  <2>8. /\ today_status(table, mask, day) = "done" => table[day] = "done"
        /\ today_status(table, mask, day) \in {"missed", "not_done"} =>
             table[day] \in {"missed", "not_done"}
    BY DEF today_status
  <2>9. /\ table[day] = "done" => current_streak(table, mask) > 0
        /\ table[day] \in {"missed", "not_done"} => current_streak(table, mask) = 0
    BY <2>6, <2>7, TodayLeads
  <2>10. QED
    BY <2>3, <2>4, <2>5, <2>8, <2>9
<1>2. QED
  BY <1>1, BaseAlways, PTL
==============================================================================
