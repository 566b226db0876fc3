---------------------------- MODULE SummaryProofs ----------------------------
(***************************************************************************)
(* The summary of movements, for any tables, windows and units: the first  *)
(* day of a unit that Rust computes is the one date_trunc computes, the    *)
(* buckets tile the window, and the parts of an answer that no commit tore *)
(* add up.                                                                 *)
(***************************************************************************)
EXTENDS SummaryInvariant, NumberLemmas

-----------------------------------------------------------------------------
(* Dates as numbers.                                                       *)

LEMMA DateParts ==
  ASSUME NEW month \in Nat, NEW day \in 1 .. 31
  PROVE  /\ DateOf(month, day) \in Nat
         /\ MonthOf(DateOf(month, day)) = month
         /\ DayOf(DateOf(month, day)) = day
BY DEF DateOf, MonthOf, DayOf

LEMMA LastDayRange ==
  ASSUME NEW month \in Nat
  PROVE  LastDay(month) \in 28 .. 31
BY DEF LastDay

\* The days of a month are numbered from 1 to its last one.
LEMMA DaysOfMonth ==
  ASSUME NEW month \in Nat, NEW day \in 1 .. 31
  PROVE  IsDate(DateOf(month, day)) <=> day <= LastDay(month)
BY DateParts DEF IsDate

LEMMA PartsOfDate ==
  ASSUME NEW d, IsDate(d)
  PROVE  /\ d \in Nat /\ MonthOf(d) \in Nat /\ DayOf(d) \in 1 .. 31
         /\ DayOf(d) <= LastDay(MonthOf(d))
         /\ d = DateOf(MonthOf(d), DayOf(d))
BY DEF IsDate, DateOf, MonthOf, DayOf

-----------------------------------------------------------------------------
(* Counting days.                                                          *)

LEMMA DaysType ==
  ASSUME NEW a \in Int, NEW b \in Int
  PROVE  /\ IsFiniteSet({d \in a .. b - 1 : IsDate(d)})
         /\ Days(a, b) \in Nat
<1>1. IsFiniteSet(a .. b - 1)
  BY FS_Interval
<1>2. IsFiniteSet({d \in a .. b - 1 : IsDate(d)})
  BY <1>1, FS_Subset
<1>3. QED
  BY <1>2, FS_CardinalityType DEF Days

LEMMA DaysAdd ==
  ASSUME NEW a \in Int, NEW b \in Int, NEW c \in Int, a <= b, b <= c
  PROVE  Days(a, c) = Days(a, b) + Days(b, c)
<1> DEFINE A == {d \in a .. b - 1 : IsDate(d)}
           B == {d \in b .. c - 1 : IsDate(d)}
<1>1. IsFiniteSet(A) /\ IsFiniteSet(B)
  BY DaysType
<1>2. A \cap B = {}
  OBVIOUS
<1>3. {d \in a .. c - 1 : IsDate(d)} = A \union B
  OBVIOUS
<1>4. Cardinality(A) \in Nat /\ Cardinality(B) \in Nat
  BY <1>1, FS_CardinalityType
<1>5. Cardinality(A \union B) = Cardinality(A) + Cardinality(B)
  <2> HIDE DEF A, B
  <2>1. Cardinality(A \union B)
          = Cardinality(A) + Cardinality(B) - Cardinality(A \cap B)
    BY <1>1, FS_Union
  <2>2. Cardinality(A \cap B) = 0
    BY <1>2, FS_EmptySet
  <2>3. QED
    BY <1>4, <2>1, <2>2
<1>6. QED
  BY <1>3, <1>5 DEF Days

\* Numbers that are all dates, and numbers that are none.
LEMMA DaysSolid ==
  ASSUME NEW a \in Int, NEW b \in Int, a <= b, \A x \in a .. b - 1 : IsDate(x)
  PROVE  Days(a, b) = b - a
<1>1. {d \in a .. b - 1 : IsDate(d)} = a .. b - 1
  OBVIOUS
<1>2. Cardinality(a .. b - 1) = b - a
  <2>1. b - 1 \in Int
    OBVIOUS
  <2>2. Cardinality(a .. b - 1) = IF a > b - 1 THEN 0 ELSE (b - 1) - a + 1
    BY <2>1, FS_Interval
  <2>3. QED
    BY <2>2
<1>3. QED
  BY <1>1, <1>2 DEF Days

LEMMA DaysHollow ==
  ASSUME NEW a \in Int, NEW b \in Int, \A x \in a .. b - 1 : ~IsDate(x)
  PROVE  Days(a, b) = 0
<1>1. {d \in a .. b - 1 : IsDate(d)} = {}
  OBVIOUS
<1>2. QED
  BY <1>1, FS_EmptySet DEF Days

\* Later dates are more days away.
LEMMA DaysGrow ==
  ASSUME NEW a \in Int, NEW b \in Int, NEW c \in Int, a <= b, b < c, IsDate(b)
  PROVE  Days(a, b) < Days(a, c)
<1>1. b \in {d \in b .. c - 1 : IsDate(d)}
  OBVIOUS
<1>2. Days(b, c) # 0
  BY <1>1, DaysType, FS_EmptySet DEF Days
<1>3. Days(a, b) \in Nat /\ Days(b, c) \in Nat /\ Days(a, c) \in Nat
  BY DaysType
<1>4. QED
  BY <1>2, <1>3, DaysAdd

\* The first part of a month, and what is left of it with the gap up to the
\* next one.
LEMMA DaysInMonth ==
  ASSUME NEW month \in Nat, NEW i \in 1 .. 31, NEW j \in 1 .. 31, i <= j,
         j <= LastDay(month)
  PROVE  Days(DateOf(month, i), DateOf(month, j)) = j - i
<1> DEFINE a == DateOf(month, i)
           b == DateOf(month, j)
<1>1. a \in Int /\ b \in Int /\ a <= b /\ b - a = j - i
  BY DEF DateOf
<1>2. ASSUME NEW x \in a .. b - 1
      PROVE  IsDate(x)
  <2> DEFINE k == x - a + i
  <2>1. k \in 1 .. 31 /\ k <= j /\ x = DateOf(month, k)
    BY DEF DateOf
  <2>2. k <= LastDay(month)
    BY <2>1, LastDayRange
  <2> HIDE DEF k
  <2>3. QED
    BY <2>1, <2>2, DaysOfMonth
<1> HIDE DEF a, b
<1>3. Days(a, b) = b - a
  BY <1>1, <1>2, DaysSolid
<1>4. QED
  BY <1>1, <1>3 DEF a, b

LEMMA DaysLeftInMonth ==
  ASSUME NEW month \in Nat, NEW i \in 1 .. 31, i <= LastDay(month)
  PROVE  Days(DateOf(month, i), DateOf(month + 1, 1)) = LastDay(month) - i + 1
<1> DEFINE a == DateOf(month, i)
           b == DateOf(month, LastDay(month))
           c == DateOf(month + 1, 1)
<1>1. LastDay(month) \in 28 .. 31
  BY LastDayRange
<1>2. a \in Int /\ b \in Int /\ c \in Int /\ a <= b /\ b < c
  BY <1>1 DEF DateOf
<1>3. Days(a, b) = LastDay(month) - i
  BY <1>1, DaysInMonth
<1>4. IsDate(b)
  BY <1>1, DaysOfMonth
<1>5. Days(b, b + 1) = 1
  <2>1. \A x \in b .. b + 1 - 1 : IsDate(x)
    <3> HIDE DEF b
    <3> QED BY <1>2, <1>4
  <2> HIDE DEF b
  <2>2. QED
    BY <1>2, <2>1, DaysSolid
<1>6. Days(b + 1, c) = 0
  <2>1. ASSUME NEW x \in b + 1 .. c - 1
        PROVE  ~IsDate(x)
    <3> DEFINE k == x - DateOf(month, 1) + 1
    <3>1. k \in 1 .. 31 /\ k > LastDay(month) /\ x = DateOf(month, k)
      BY <1>1 DEF DateOf
    <3> HIDE DEF k
    <3>2. QED
      BY <1>1, <3>1, DaysOfMonth
  <2> HIDE DEF b, c
  <2>2. QED
    BY <1>2, <2>1, DaysHollow
<1> HIDE DEF a, b, c
<1>7. /\ Days(b, c) = Days(b, b + 1) + Days(b + 1, c)
      /\ Days(a, c) = Days(a, b) + Days(b, c)
  BY <1>2, DaysAdd
<1>8. Days(a, c) = LastDay(month) - i + 1
  BY <1>1, <1>3, <1>5, <1>6, <1>7
<1>9. QED
  BY <1>8 DEF a, c

-----------------------------------------------------------------------------
(* The date some days later or earlier, and the day of the week.           *)

LEMMA Forward ==
  ASSUME NEW d, IsDate(d), NEW n \in 0 .. 7
  PROVE  \E e \in d .. d + n + 3 : IsDate(e) /\ Days(d, e) = n
<1> DEFINE m == MonthOf(d)
           k == DayOf(d)
<1>1. /\ d \in Nat /\ m \in Nat /\ k \in 1 .. 31 /\ k <= LastDay(m)
      /\ d = DateOf(m, k)
  BY PartsOfDate
<1>2. LastDay(m) \in 28 .. 31 /\ LastDay(m + 1) \in 28 .. 31
  BY <1>1, LastDayRange
<1> HIDE DEF m, k
<1>3. CASE k + n <= LastDay(m)
  <2> DEFINE e == DateOf(m, k + n)
  <2>1. k + n \in 1 .. 31 /\ e \in d .. d + n + 3
    BY <1>1, <1>2, <1>3 DEF DateOf
  <2>2. IsDate(e)
    BY <1>1, <1>3, <2>1, DaysOfMonth
  <2>3. Days(DateOf(m, k), DateOf(m, k + n)) = (k + n) - k
    <3> DEFINE i == k + n
    <3>1. k \in 1 .. 31 /\ i \in 1 .. 31 /\ k <= i /\ i <= LastDay(m) /\ m \in Nat
      BY <1>1, <1>3, <2>1
    <3> HIDE DEF i
    <3>2. Days(DateOf(m, k), DateOf(m, i)) = i - k
      BY <3>1, DaysInMonth
    <3>3. QED
      BY <3>2 DEF i
  <2>4. Days(d, e) = n
    BY <1>1, <2>3
  <2>5. QED
    BY <2>1, <2>2, <2>4
<1>4. CASE k + n > LastDay(m)
  <2> DEFINE j == n - (LastDay(m) - k + 1)
             first == DateOf(m + 1, 1)
             e == DateOf(m + 1, 1 + j)
  <2>1. j \in 0 .. 7 /\ 1 + j \in 1 .. 31 /\ 1 + j <= LastDay(m + 1)
    BY <1>1, <1>2, <1>4
  <2>2. /\ e \in d .. d + n + 3 /\ first \in Int /\ d <= first /\ first <= e
    BY <1>1, <1>2, <1>4 DEF DateOf
  <2>3. m + 1 \in Nat
    BY <1>1
  <2>4. IsDate(e)
    BY <2>1, <2>3, DaysOfMonth
  <2>5. Days(d, first) = LastDay(m) - k + 1
    BY <1>1, DaysLeftInMonth
  <2>6. Days(first, e) = (1 + j) - 1
    BY <2>1, <2>3, DaysInMonth
  <2>7. Days(d, e) = Days(d, first) + Days(first, e)
    BY <1>1, <2>2, DaysAdd
  <2>8. Days(d, e) = n
    BY <1>1, <1>2, <2>1, <2>5, <2>6, <2>7
  <2>9. QED
    BY <2>2, <2>4, <2>8
<1>5. QED
  BY <1>1, <1>2, <1>3, <1>4

LEMMA Backward ==
  ASSUME NEW d, IsDate(d), MonthOf(d) > 0, NEW n \in 0 .. 6
  PROVE  \E e \in d - n - 3 .. d : IsDate(e) /\ Days(e, d) = n
<1> DEFINE m == MonthOf(d)
           k == DayOf(d)
<1>1. /\ d \in Nat /\ m \in Nat /\ m > 0 /\ k \in 1 .. 31 /\ k <= LastDay(m)
      /\ d = DateOf(m, k)
  BY PartsOfDate
<1>2. m - 1 \in Nat /\ LastDay(m - 1) \in 28 .. 31
  BY <1>1, LastDayRange
<1> HIDE DEF m, k
<1>3. CASE n < k
  <2> DEFINE e == DateOf(m, k - n)
  <2>1. k - n \in 1 .. 31 /\ k - n <= LastDay(m) /\ e \in d - n - 3 .. d
    <3>1. LastDay(m) \in 28 .. 31
      BY <1>1, LastDayRange
    <3>2. QED
      BY <1>1, <1>3, <3>1 DEF DateOf
  <2>2. IsDate(e)
    BY <1>1, <2>1, DaysOfMonth
  <2>3. Days(DateOf(m, k - n), DateOf(m, k)) = k - (k - n)
    <3> DEFINE i == k - n
    <3>1. i \in 1 .. 31 /\ k \in 1 .. 31 /\ i <= k /\ k <= LastDay(m) /\ m \in Nat
      BY <1>1, <2>1
    <3> HIDE DEF i
    <3>2. Days(DateOf(m, i), DateOf(m, k)) = k - i
      BY <3>1, DaysInMonth
    <3>3. QED
      BY <3>2 DEF i
  <2>4. Days(e, d) = n
    BY <1>1, <2>3
  <2>5. QED
    BY <2>1, <2>2, <2>4
<1>4. CASE n >= k
  <2> DEFINE j == LastDay(m - 1) - (n - (k - 1)) + 1
             first == DateOf(m, 1)
             e == DateOf(m - 1, j)
  <2>1. j \in 1 .. 31 /\ j <= LastDay(m - 1)
    BY <1>1, <1>2, <1>4
  <2>2. e \in d - n - 3 .. d /\ first \in Int /\ first <= d /\ e <= first
    BY <1>1, <1>2, <1>4 DEF DateOf
  <2>3. IsDate(e)
    BY <1>2, <2>1, DaysOfMonth
  <2>4. Days(e, first) = LastDay(m - 1) - j + 1
    <3>1. Days(e, DateOf(m - 1 + 1, 1)) = LastDay(m - 1) - j + 1
      BY <1>2, <2>1, DaysLeftInMonth
    <3>2. m - 1 + 1 = m
      BY <1>1
    <3>3. QED
      BY <3>1, <3>2
  <2>5. Days(first, d) = k - 1
    BY <1>1, DaysInMonth
  <2>6. Days(e, d) = Days(e, first) + Days(first, d)
    BY <1>1, <2>2, DaysAdd
  <2>7. Days(e, d) = n
    BY <1>1, <1>2, <2>4, <2>5, <2>6
  <2>8. QED
    BY <2>2, <2>3, <2>7
<1>5. QED
  BY <1>1, <1>3, <1>4

LEMMA AddedDays ==
  ASSUME NEW d, IsDate(d), NEW n \in 0 .. 7
  PROVE  /\ AddDays(d, n) \in d .. d + n + 3
         /\ IsDate(AddDays(d, n)) /\ Days(d, AddDays(d, n)) = n
BY Forward DEF AddDays

LEMMA SubtractedDays ==
  ASSUME NEW d, IsDate(d), MonthOf(d) > 0, NEW n \in 0 .. 6
  PROVE  /\ SubDays(d, n) \in d - n - 3 .. d
         /\ IsDate(SubDays(d, n)) /\ Days(SubDays(d, n), d) = n
BY Backward DEF SubDays

LEMMA AMondayIsNat == AMonday \in Nat
BY DEF AMonday, DateOf

LEMMA WeekdayType ==
  ASSUME NEW d \in Int
  PROVE  Weekday(d) \in 0 .. 6
<1>1. AMonday \in Int
  BY AMondayIsNat
<1>2. Days(AMonday, d) \in Nat /\ Days(d, AMonday) \in Nat
  BY <1>1, DaysType
<1>3. QED
  BY <1>1, <1>2 DEF Weekday

\* Every day moves the weekday on by one.
LEMMA WeekdayMoves ==
  ASSUME NEW d \in Int, NEW e \in Int, d <= e
  PROVE  Weekday(e) = (Weekday(d) + Days(d, e)) % 7
<1>0. AMonday \in Int
  BY AMondayIsNat
<1>1. /\ Days(AMonday, d) \in Nat /\ Days(d, AMonday) \in Nat
      /\ Days(AMonday, e) \in Nat /\ Days(e, AMonday) \in Nat
      /\ Days(d, e) \in Nat
  BY <1>0, DaysType
<1>2. CASE AMonday <= d
  <2>1. Days(AMonday, e) = Days(AMonday, d) + Days(d, e)
    BY <1>0, <1>2, DaysAdd
  <2>2. Weekday(e) = Days(AMonday, e) % 7 /\ Weekday(d) = Days(AMonday, d) % 7
    BY <1>0, <1>2 DEF Weekday
  <2>3. QED
    BY <1>1, <2>1, <2>2
<1>3. CASE d < AMonday /\ AMonday <= e
  <2>1. Days(d, e) = Days(d, AMonday) + Days(AMonday, e)
    BY <1>0, <1>3, DaysAdd
  <2>2. /\ Weekday(e) = Days(AMonday, e) % 7
        /\ Weekday(d) = (7 - (Days(d, AMonday) % 7)) % 7
    BY <1>0, <1>3 DEF Weekday
  <2>3. QED
    BY <1>1, <2>1, <2>2
<1>4. CASE e < AMonday
  <2>1. Days(d, AMonday) = Days(d, e) + Days(e, AMonday)
    BY <1>0, <1>4, DaysAdd
  <2>2. /\ Weekday(e) = (7 - (Days(e, AMonday) % 7)) % 7
        /\ Weekday(d) = (7 - (Days(d, AMonday) % 7)) % 7
    BY <1>0, <1>4 DEF Weekday
  <2>3. QED
    BY <1>1, <2>1, <2>2
<1>5. QED
  BY <1>0, <1>2, <1>3, <1>4

-----------------------------------------------------------------------------
(* The units.                                                              *)

\* t is the next first day of a unit after s.
FollowsIn(group, s, t) ==
  /\ t \in Int /\ s < t /\ IsDate(t) /\ FirstDay(group, t)
  /\ \A x \in s + 1 .. t - 1 : IsDate(x) => ~FirstDay(group, x)

\* How far a first day can be back.
Span(group) == IF group = "year" THEN 371 ELSE 31

LEMMA WeekStart ==
  ASSUME NEW d, IsDate(d), MonthOf(d) > 0
  PROVE  LET s == SubDays(d, Weekday(d))
         IN  /\ s \in d - 9 .. d /\ IsDate(s) /\ Weekday(s) = 0
             /\ \A x \in s + 1 .. d : IsDate(x) => Weekday(x) # 0
<1> DEFINE w == Weekday(d)
           s == SubDays(d, w)
<1>1. d \in Int /\ w \in 0 .. 6
  BY PartsOfDate, WeekdayType
<1> HIDE DEF w
<1>2. s \in d - w - 3 .. d /\ IsDate(s) /\ Days(s, d) = w
  BY <1>1, SubtractedDays
<1>3. s \in d - 9 .. d
  BY <1>1, <1>2
<1> HIDE DEF s
<1>4. Weekday(s) = 0
  <2>1. Weekday(d) = (Weekday(s) + w) % 7
    BY <1>1, <1>2, <1>3, WeekdayMoves
  <2>2. Weekday(s) \in 0 .. 6
    BY <1>1, <1>3, WeekdayType
  <2>3. Weekday(d) = w
    BY DEF w
  <2>4. QED
    BY <1>1, <2>1, <2>2, <2>3
<1>5. ASSUME NEW x \in s + 1 .. d, IsDate(x)
      PROVE  Weekday(x) # 0
  <2>1. x \in Int /\ s \in Int /\ s < x /\ x <= d
    BY <1>1, <1>3
  <2>2. Weekday(x) = (Weekday(s) + Days(s, x)) % 7
    BY <2>1, WeekdayMoves
  <2>3. Days(s, s) < Days(s, x)
    BY <1>2, <2>1, DaysGrow
  <2>4. Days(s, x) <= Days(s, d)
    <3>1. CASE x = d
      BY <1>1, <1>2, <3>1
    <3>2. CASE x < d
      <4>1. Days(s, x) < Days(s, d)
        BY <1>1, <1>5, <2>1, <3>2, DaysGrow
      <4>2. Days(s, x) \in Nat /\ Days(s, d) \in Nat
        BY <1>1, <2>1, DaysType
      <4>3. QED
        BY <4>1, <4>2
    <3>3. QED
      BY <1>1, <2>1, <3>1, <3>2
  <2>5. Days(s, s) \in Nat /\ Days(s, x) \in Nat
    BY <2>1, DaysType
  <2>6. Days(s, x) \in 1 .. 6
    BY <1>1, <1>2, <2>3, <2>4, <2>5
  <2>7. QED
    BY <1>4, <2>2, <2>6
<1>6. QED
  BY <1>2, <1>3, <1>4, <1>5 DEF s, w

LEMMA WeekNext ==
  ASSUME NEW s, IsDate(s), Weekday(s) = 0
  PROVE  /\ FollowsIn("week", s, AddDays(s, 7))
         /\ IsDate(AddDays(s, 6)) /\ AddDays(s, 6) \in s .. AddDays(s, 7) - 1
         /\ \A x \in AddDays(s, 6) + 1 .. AddDays(s, 7) - 1 : ~IsDate(x)
<1> DEFINE e == AddDays(s, 6)
           t == AddDays(s, 7)
<1>1. s \in Int
  BY PartsOfDate
<1>2. /\ e \in s .. s + 6 + 3 /\ IsDate(e) /\ Days(s, e) = 6
      /\ t \in s .. s + 7 + 3 /\ IsDate(t) /\ Days(s, t) = 7
  <2>1. \A n \in 0 .. 7 : /\ AddDays(s, n) \in s .. s + n + 3
                          /\ IsDate(AddDays(s, n)) /\ Days(s, AddDays(s, n)) = n
    BY AddedDays
  <2>2. 6 \in 0 .. 7 /\ 7 \in 0 .. 7
    OBVIOUS
  <2>3. QED
    BY <2>1, <2>2
<1>3. e \in Int /\ t \in Int /\ s <= e /\ s <= t
  BY <1>1, <1>2
<1> HIDE DEF e, t
<1>4. e < t
  <2>1. CASE t < e
    BY <1>1, <1>2, <1>3, <2>1, DaysGrow
  <2>2. CASE t = e
    BY <1>2, <2>2
  <2>3. QED
    BY <1>3, <2>1, <2>2
<1>5. Days(s, s) = 0
  BY <1>1, DaysHollow
<1>6. s < t
  BY <1>1, <1>3, <1>4
<1>7. Weekday(t) = 0
  BY <1>1, <1>2, <1>3, WeekdayMoves
<1>8. ASSUME NEW x \in s + 1 .. t - 1, IsDate(x)
      PROVE  Weekday(x) # 0
  <2>1. x \in Int /\ s < x /\ x < t
    BY <1>1, <1>3
  <2>2. Days(s, s) < Days(s, x) /\ Days(s, x) < Days(s, t)
    <3>1. s <= s /\ s <= x
      BY <1>1, <2>1
    <3>2. Days(s, s) < Days(s, x)
      BY <1>1, <2>1, <3>1, DaysGrow
    <3>3. Days(s, x) < Days(s, t)
      BY <1>1, <1>3, <1>8, <2>1, <3>1, DaysGrow
    <3>4. QED
      BY <3>2, <3>3
  <2>3. Days(s, x) \in Nat
    BY <1>1, <2>1, DaysType
  <2>4. Days(s, x) \in 1 .. 6
    BY <1>2, <1>5, <2>2, <2>3
  <2>5. Weekday(x) = (Weekday(s) + Days(s, x)) % 7
    BY <1>1, <2>1, WeekdayMoves
  <2>6. QED
    BY <2>4, <2>5
<1>9. ASSUME NEW x \in e + 1 .. t - 1, IsDate(x)
      PROVE  FALSE
  <2>1. x \in Int /\ e < x /\ x < t /\ s <= x
    BY <1>1, <1>3
  <2>2. Days(s, e) < Days(s, x) /\ Days(s, x) < Days(s, t)
    <3>1. Days(s, e) < Days(s, x)
      BY <1>1, <1>2, <1>3, <2>1, DaysGrow
    <3>2. Days(s, x) < Days(s, t)
      BY <1>1, <1>3, <1>9, <2>1, DaysGrow
    <3>3. QED
      BY <3>1, <3>2
  <2>3. Days(s, x) \in Nat
    BY <1>1, <2>1, DaysType
  <2>4. QED
    BY <1>2, <2>2, <2>3
<1>10. FollowsIn("week", s, t)
  BY <1>2, <1>3, <1>6, <1>7, <1>8 DEF FollowsIn, FirstDay
<1>11. e \in s .. t - 1
  BY <1>1, <1>3, <1>4
<1>12. QED
  BY <1>2, <1>9, <1>10, <1>11 DEF e, t

\* Months and years.
LEMMA MonthUnit ==
  ASSUME NEW month \in Nat
  PROVE  LET s == DateOf(month, 1)
             t == DateOf(month + 1, 1)
             e == DateOf(month, LastDay(month))
         IN  /\ FollowsIn("month", s, t)
             /\ IsDate(e) /\ e \in s .. t - 1
             /\ \A x \in e + 1 .. t - 1 : ~IsDate(x)
<1> DEFINE s == DateOf(month, 1)
           t == DateOf(month + 1, 1)
           e == DateOf(month, LastDay(month))
<1>1. LastDay(month) \in 28 .. 31 /\ LastDay(month + 1) \in 28 .. 31
  BY LastDayRange
<1>2. t \in Int /\ s < t /\ e \in s .. t - 1
  BY <1>1 DEF DateOf
<1>3. IsDate(t) /\ DayOf(t) = 1
  <2>1. month + 1 \in Nat /\ 1 \in 1 .. 31
    OBVIOUS
  <2>2. IsDate(DateOf(month + 1, 1))
    BY <1>1, <2>1, DaysOfMonth
  <2>3. DayOf(DateOf(month + 1, 1)) = 1
    BY <2>1, DateParts
  <2>4. QED
    BY <2>2, <2>3
<1>4. IsDate(e)
  BY <1>1, DaysOfMonth
<1>5. ASSUME NEW x \in s + 1 .. t - 1
      PROVE  DayOf(x) # 1
  BY DEF DateOf, DayOf
<1>6. ASSUME NEW x \in e + 1 .. t - 1
      PROVE  ~IsDate(x)
  <2> DEFINE k == x - s + 1
  <2>1. k \in 1 .. 31 /\ k > LastDay(month) /\ x = DateOf(month, k)
    BY <1>1 DEF DateOf
  <2> HIDE DEF k
  <2>2. QED
    BY <1>1, <2>1, DaysOfMonth
<1>7. FollowsIn("month", s, t)
  BY <1>2, <1>3, <1>5 DEF FollowsIn, FirstDay
<1>8. QED
  BY <1>2, <1>4, <1>6, <1>7

LEMMA YearUnit ==
  ASSUME NEW month \in Nat, month % 12 = 0
  PROVE  LET s == DateOf(month, 1)
             t == DateOf(month + 12, 1)
             e == DateOf(month + 11, 31)
         IN  /\ FollowsIn("year", s, t)
             /\ IsDate(e) /\ e \in s .. t - 1
             /\ \A x \in e + 1 .. t - 1 : ~IsDate(x)
<1> DEFINE s == DateOf(month, 1)
           t == DateOf(month + 12, 1)
           e == DateOf(month + 11, 31)
<1>1. LastDay(month + 11) = 31 /\ LastDay(month + 12) \in 28 .. 31
  BY DEF LastDay
<1>2. t \in Int /\ s < t /\ e \in s .. t - 1 /\ e + 1 = t
  BY DEF DateOf
<1>3. IsDate(t) /\ DayOf(t) = 1 /\ MonthOf(t) % 12 = 0
  <2>1. DayOf(t) = 1 /\ MonthOf(t) = month + 12
    BY DateParts
  <2>2. IsDate(t)
    BY <1>1, DaysOfMonth
  <2>3. QED
    BY <2>1, <2>2
<1>4. IsDate(e)
  BY <1>1, DaysOfMonth
<1>5. ASSUME NEW x \in s + 1 .. t - 1
      PROVE  ~(DayOf(x) = 1 /\ MonthOf(x) % 12 = 0)
  <2>1. MonthOf(x) \in month .. month + 11 /\ (MonthOf(x) = month => DayOf(x) # 1)
    BY DEF DateOf, DayOf, MonthOf
  <2>2. QED
    BY <2>1
<1>6. FollowsIn("year", s, t)
  BY <1>2, <1>3, <1>5 DEF FollowsIn, FirstDay
<1>7. QED
  BY <1>2, <1>4, <1>6

LEMMA DayUnit ==
  ASSUME NEW s, IsDate(s)
  PROVE  /\ FollowsIn("day", s, AddDays(s, 1))
         /\ s \in s .. AddDays(s, 1) - 1
         /\ \A x \in s + 1 .. AddDays(s, 1) - 1 : ~IsDate(x)
<1> DEFINE t == AddDays(s, 1)
<1>1. s \in Int
  BY PartsOfDate
<1>2. t \in s .. s + 1 + 3 /\ IsDate(t) /\ Days(s, t) = 1
  <2>1. \A n \in 0 .. 7 : /\ AddDays(s, n) \in s .. s + n + 3
                          /\ IsDate(AddDays(s, n)) /\ Days(s, AddDays(s, n)) = n
    BY AddedDays
  <2>2. 1 \in 0 .. 7
    OBVIOUS
  <2>3. QED
    BY <2>1, <2>2
<1>3. t \in Int
  BY <1>1, <1>2
<1> HIDE DEF t
<1>4. Days(s, s) = 0
  BY <1>1, DaysHollow
<1>5. s < t
  <2>1. s # t
    BY <1>2, <1>4
  <2>2. QED
    BY <1>1, <1>2, <2>1
<1>6. ASSUME NEW x \in s + 1 .. t - 1, IsDate(x)
      PROVE  FALSE
  <2>1. x \in Int /\ s < x /\ x < t /\ s <= s /\ s <= x
    BY <1>1, <1>3
  <2>2. Days(s, s) < Days(s, x)
    BY <1>1, <2>1, DaysGrow
  <2>3. Days(s, x) < Days(s, t)
    BY <1>1, <1>3, <1>6, <2>1, DaysGrow
  <2>4. Days(s, x) \in Nat
    BY <1>1, <2>1, DaysType
  <2>5. QED
    BY <1>2, <1>4, <2>2, <2>3, <2>4
<1>7. FollowsIn("day", s, t)
  BY <1>2, <1>3, <1>5, <1>6 DEF FollowsIn, FirstDay
<1>8. s \in s .. t - 1
  BY <1>1, <1>3, <1>5
<1>9. QED
  BY <1>6, <1>7, <1>8 DEF t

\* summary_unit_start: the last first day of a unit up to d.
LEMMA UnitStart ==
  ASSUME NEW group \in SummaryGroups, NEW d, IsDate(d), MonthOf(d) > 0
  PROVE  LET s == summary_unit_start(group, d)
         IN  /\ s \in d - Span(group) .. d /\ IsDate(s) /\ FirstDay(group, s)
             /\ \A x \in s + 1 .. d : IsDate(x) => ~FirstDay(group, x)
<1> DEFINE m == MonthOf(d)
           k == DayOf(d)
<1>1. /\ d \in Nat /\ m \in Nat /\ k \in 1 .. 31 /\ k <= LastDay(m)
      /\ d = DateOf(m, k)
  BY PartsOfDate
<1> HIDE DEF m, k
<1>2. CASE group = "day"
  BY <1>1, <1>2 DEF summary_unit_start, FirstDay, Span
<1>3. CASE group = "week"
  <2>1. summary_unit_start(group, d) = SubDays(d, Weekday(d))
    BY <1>3 DEF summary_unit_start
  <2>2. \A x : FirstDay(group, x) <=> Weekday(x) = 0
    BY <1>3 DEF FirstDay
  <2>3. Span(group) = 31
    BY <1>3 DEF Span
  <2> DEFINE s == SubDays(d, Weekday(d))
  <2>4. /\ s \in d - 9 .. d /\ IsDate(s) /\ Weekday(s) = 0
        /\ \A x \in s + 1 .. d : IsDate(x) => Weekday(x) # 0
    BY WeekStart
  <2> HIDE DEF s
  <2>5. s \in d - 31 .. d
    BY <1>1, <2>4
  <2>6. QED
    BY <2>1, <2>2, <2>3, <2>4, <2>5 DEF s
<1>4. CASE group = "month"
  <2> DEFINE s == DateOf(m, 1)
  <2>1. summary_unit_start(group, d) = s
    BY <1>4 DEF summary_unit_start, m
  <2>2. \A x : FirstDay(group, x) <=> DayOf(x) = 1
    BY <1>4 DEF FirstDay
  <2>3. Span(group) = 31
    BY <1>4 DEF Span
  <2>4. s \in d - 31 .. d
    BY <1>1 DEF DateOf
  <2>5. LastDay(m) \in 28 .. 31
    BY <1>1, LastDayRange
  <2>6. IsDate(s) /\ DayOf(s) = 1
    <3>1. 1 \in 1 .. 31
      OBVIOUS
    <3>2. IsDate(DateOf(m, 1))
      BY <1>1, <2>5, <3>1, DaysOfMonth
    <3>3. DayOf(DateOf(m, 1)) = 1
      BY <1>1, <3>1, DateParts
    <3>4. QED
      BY <3>2, <3>3
  <2>7. ASSUME NEW x \in s + 1 .. d
        PROVE  DayOf(x) # 1
    BY <1>1 DEF DateOf, DayOf
  <2> HIDE DEF s
  <2>8. QED
    BY <2>1, <2>2, <2>3, <2>4, <2>6, <2>7
<1>5. CASE group = "year"
  <2> DEFINE j == m - (m % 12)
             s == DateOf(j, 1)
  <2>1. summary_unit_start(group, d) = s
    BY <1>5 DEF summary_unit_start, JanuaryOf, m
  <2>2. \A x : FirstDay(group, x) <=> DayOf(x) = 1 /\ MonthOf(x) % 12 = 0
    BY <1>5 DEF FirstDay
  <2>3. Span(group) = 371
    BY <1>5 DEF Span
  <2>4. j \in Nat /\ j % 12 = 0 /\ j <= m /\ m <= j + 11
    BY <1>1
  <2> HIDE DEF j
  <2>5. s \in d - 371 .. d
    BY <1>1, <2>4 DEF DateOf
  <2>6. LastDay(j) \in 28 .. 31
    BY <2>4, LastDayRange
  <2>7. IsDate(s) /\ DayOf(s) = 1 /\ MonthOf(s) = j
    <3>1. 1 \in 1 .. 31
      OBVIOUS
    <3>2. IsDate(DateOf(j, 1))
      BY <2>4, <2>6, <3>1, DaysOfMonth
    <3>3. DayOf(DateOf(j, 1)) = 1 /\ MonthOf(DateOf(j, 1)) = j
      BY <2>4, <3>1, DateParts
    <3>4. QED
      BY <3>2, <3>3
  <2>8. ASSUME NEW x \in s + 1 .. d
        PROVE  ~(DayOf(x) = 1 /\ MonthOf(x) % 12 = 0)
    <3>1. MonthOf(x) \in j .. j + 11 /\ (MonthOf(x) = j => DayOf(x) # 1)
      BY <1>1, <2>4 DEF DateOf, DayOf, MonthOf
    <3>2. QED
      BY <2>4, <3>1
  <2> HIDE DEF s
  <2>9. QED
    BY <2>1, <2>2, <2>3, <2>4, <2>5, <2>7, <2>8
<1>6. QED
  BY <1>2, <1>3, <1>4, <1>5 DEF SummaryGroups

\* next_summary_unit_start and summary_unit_end: the next first day, and the
\* last date before it.
LEMMA NextUnit ==
  ASSUME NEW group \in SummaryGroups, NEW s, IsDate(s), FirstDay(group, s)
  PROVE  LET t == next_summary_unit_start(group, s)
             e == summary_unit_end(group, s)
         IN  /\ FollowsIn(group, s, t)
             /\ IsDate(e) /\ e \in s .. t - 1
             /\ \A x \in e + 1 .. t - 1 : ~IsDate(x)
<1> DEFINE m == MonthOf(s)
           k == DayOf(s)
<1>1. /\ s \in Nat /\ m \in Nat /\ k \in 1 .. 31 /\ k <= LastDay(m)
      /\ s = DateOf(m, k)
  BY PartsOfDate
<1> HIDE DEF m, k
<1>2. CASE group = "day"
  <2>1. /\ next_summary_unit_start(group, s) = AddDays(s, 1)
        /\ summary_unit_end(group, s) = s
    BY <1>2 DEF next_summary_unit_start, summary_unit_end
  <2>2. QED
    BY <1>2, <2>1, DayUnit
<1>3. CASE group = "week"
  <2>1. /\ next_summary_unit_start(group, s) = AddDays(s, 7)
        /\ summary_unit_end(group, s) = AddDays(s, 6)
    BY <1>3 DEF next_summary_unit_start, summary_unit_end
  <2>2. Weekday(s) = 0
    BY <1>3 DEF FirstDay
  <2>3. QED
    BY <1>3, <2>1, <2>2, WeekNext
<1>4. CASE group = "month"
  <2>1. k = 1
    BY <1>4 DEF FirstDay, k
  <2>2. LastDay(m + 1) \in 28 .. 31
    BY <1>1, LastDayRange
  <2>3. AddMonthsClamped(s, 1) = DateOf(m + 1, 1)
    BY <2>1, <2>2 DEF AddMonthsClamped, Earlier, m, k
  <2>4. /\ next_summary_unit_start(group, s) = DateOf(m + 1, 1)
        /\ summary_unit_end(group, s) = DateOf(m, LastDay(m))
    BY <1>4, <2>3 DEF next_summary_unit_start, summary_unit_end, m
  <2>5. QED
    BY <1>1, <1>4, <2>1, <2>4, MonthUnit
<1>5. CASE group = "year"
  <2>1. k = 1 /\ m % 12 = 0
    BY <1>5 DEF FirstDay, k, m
  <2>2. /\ next_summary_unit_start(group, s) = DateOf(m + 12, 1)
        /\ summary_unit_end(group, s) = DateOf(m + 11, 31)
    BY <1>5 DEF next_summary_unit_start, summary_unit_end, m
  <2>3. QED
    BY <1>1, <1>5, <2>1, <2>2, YearUnit
<1>6. QED
  BY <1>2, <1>3, <1>4, <1>5 DEF SummaryGroups

\* The first day before the next one is the one the unit of d starts with.
LEMMA OneUnitStart ==
  ASSUME NEW group \in SummaryGroups, NEW d, IsDate(d), MonthOf(d) > 0,
         NEW s, IsDate(s), FirstDay(group, s), s <= d,
         d < next_summary_unit_start(group, s)
  PROVE  s = summary_unit_start(group, d)
<1> DEFINE t == next_summary_unit_start(group, s)
           u == summary_unit_start(group, d)
<1>1. s \in Int /\ d \in Int
  BY PartsOfDate
<1>2. /\ t \in Int /\ s < t
      /\ \A x \in s + 1 .. t - 1 : IsDate(x) => ~FirstDay(group, x)
  BY NextUnit DEF FollowsIn
<1>3. /\ u \in d - Span(group) .. d /\ IsDate(u) /\ FirstDay(group, u)
      /\ \A x \in u + 1 .. d : IsDate(x) => ~FirstDay(group, x)
  BY UnitStart
<1>4. u \in Int /\ u <= d
  BY <1>1, <1>3 DEF Span
<1> HIDE DEF t, u
<1>5. d < t
  BY DEF t
<1>6. ~(u < s)
  BY <1>1, <1>3, <1>4
<1>7. ~(s < u)
  BY <1>1, <1>2, <1>3, <1>4, <1>5
<1>8. s = u
  BY <1>1, <1>4, <1>6, <1>7
<1>9. QED
  BY <1>8 DEF u

\* The first day of a unit that Rust puts on a bucket (summary_unit_start) is
\* the one PostgreSQL groups the rows by (date_trunc): no row misses its bucket.
THEOREM TruncationsAgree ==
  ASSUME NEW group \in SummaryGroups, NEW d, IsDate(d), MonthOf(d) > 0
  PROVE  date_trunc(group, d) = summary_unit_start(group, d)
<1> DEFINE s == summary_unit_start(group, d)
           firsts == {e \in d - Span(group) .. d : IsDate(e) /\ FirstDay(group, e)}
<1>1. d \in Int /\ Span(group) \in Nat
  BY PartsOfDate DEF Span
<1>2. /\ s \in d - Span(group) .. d /\ IsDate(s) /\ FirstDay(group, s)
      /\ \A x \in s + 1 .. d : IsDate(x) => ~FirstDay(group, x)
  BY UnitStart
<1>3. date_trunc(group, d) = Max(firsts)
  BY DEF date_trunc, Span
<1> HIDE DEF s
<1>4. s \in firsts /\ \A x \in firsts : s >= x
  BY <1>1, <1>2
<1>5. firsts \subseteq Int
  BY <1>1
<1> HIDE DEF firsts
<1>6. Max(firsts) = s
  <2> DEFINE latest == CHOOSE x \in firsts : \A y \in firsts : x >= y
  <2>1. latest \in firsts /\ \A y \in firsts : latest >= y
    BY <1>4
  <2>2. Max(firsts) = latest
    BY DEF Max
  <2> HIDE DEF latest
  <2>3. latest = s
    BY <1>4, <1>5, <2>1
  <2>4. QED
    BY <2>2, <2>3
<1>7. QED
  BY <1>3, <1>6 DEF s

-----------------------------------------------------------------------------
(* The buckets of a window.                                                *)

\* start holds the first days of n units after the one of from.
IsStarts(start, group, from, n) ==
  start = [i \in 0 .. n |-> IF i = 0 THEN summary_unit_start(group, from)
                            ELSE next_summary_unit_start(group, start[i - 1])]

LEMMA StartsExist ==
  ASSUME NEW group, NEW from, NEW n \in Nat
  PROVE  \E start : IsStarts(start, group, from, n)
<1> DEFINE Good(k) == \E start : IsStarts(start, group, from, k)
           Bad == {k \in 0 .. n : ~Good(k)}
<1>1. SUFFICES ASSUME Bad # {} PROVE FALSE
  OBVIOUS
<1>2. Bad \in SUBSET Nat
  OBVIOUS
<1>3. PICK k \in Bad : \A j \in Bad : k <= j
  <2> HIDE DEF Bad
  <2> QED  BY <1>1, <1>2, LeastNatural
<1>4. k # 0
  <2> DEFINE g == [i \in 0 .. 0 |-> summary_unit_start(group, from)]
  <2>1. IsStarts(g, group, from, 0)
    BY DEF IsStarts
  <2>2. Good(0)
    BY <2>1
  <2>3. QED
    BY <1>3, <2>2
<1>5. k - 1 \in 0 .. n /\ k - 1 \notin Bad
  BY <1>3, <1>4
<1>6. PICK g : IsStarts(g, group, from, k - 1)
  BY <1>5
<1> DEFINE Next1(x) == next_summary_unit_start(group, x)
           first == summary_unit_start(group, from)
           h == [i \in 0 .. k |-> IF i = k THEN Next1(g[k - 1]) ELSE g[i]]
<1>7. g = [i \in 0 .. k - 1 |-> IF i = 0 THEN first ELSE Next1(g[i - 1])]
  BY <1>6 DEF IsStarts
<1> HIDE DEF Next1, first
<1>8. \A i \in 0 .. k - 1 : g[i] = IF i = 0 THEN first ELSE Next1(g[i - 1])
  BY <1>7
<1>9. ASSUME NEW i \in 0 .. k
      PROVE  h[i] = IF i = 0 THEN first ELSE Next1(h[i - 1])
  <2>1. CASE i = k
    BY <1>3, <1>4, <2>1
  <2>2. CASE i # k
    <3>1. i \in 0 .. k - 1 /\ i # k /\ (i # 0 => i - 1 \in 0 .. k /\ i - 1 # k)
      BY <1>3, <1>4, <2>2
    <3>2. h[i] = g[i] /\ (i # 0 => h[i - 1] = g[i - 1])
      BY <3>1
    <3>3. QED
      BY <1>8, <3>1, <3>2
  <2>3. QED
    BY <2>1, <2>2
<1>10. h = [i \in 0 .. k |-> IF i = 0 THEN first ELSE Next1(h[i - 1])]
  BY <1>9
<1> HIDE DEF h
<1>11. IsStarts(h, group, from, k)
  BY <1>10 DEF IsStarts, Next1, first
<1>12. QED
  BY <1>3, <1>11

\* Every one of them is a first day, and they run ahead of from.
LEMMA StartsAreFirstDays ==
  ASSUME NEW group \in SummaryGroups, NEW from, IsDate(from), MonthOf(from) > 0,
         NEW n \in Nat, NEW start, IsStarts(start, group, from, n)
  PROVE  \A i \in 0 .. n : /\ IsDate(start[i]) /\ FirstDay(group, start[i])
                           /\ i > 0 => start[i] >= from + i
                           /\ i = 0 => start[i] = summary_unit_start(group, from)
                           /\ i < n => start[i + 1] = next_summary_unit_start(group, start[i])
<1> DEFINE Right(i) == /\ IsDate(start[i]) /\ FirstDay(group, start[i])
                       /\ i > 0 => start[i] >= from + i
           Bad == {i \in 0 .. n : ~Right(i)}
           first == summary_unit_start(group, from)
<1>1. \A i \in 0 .. n : start[i] = IF i = 0 THEN first
                                   ELSE next_summary_unit_start(group, start[i - 1])
  BY DEF IsStarts
<1>2. from \in Int
  BY PartsOfDate
<1>3. /\ IsDate(first) /\ FirstDay(group, first) /\ first \in Int /\ first <= from
      /\ \A x \in first + 1 .. from : IsDate(x) => ~FirstDay(group, x)
  BY <1>2, UnitStart DEF Span
<1>4. start[0] = first
  BY <1>1
<1> HIDE DEF first
<1>5. Right(0)
  BY <1>3, <1>4
<1>6. ASSUME NEW i \in 0 .. n, i + 1 \in 0 .. n, Right(i)
      PROVE  Right(i + 1)
  <2> DEFINE s == start[i]
             t == start[i + 1]
  <2>1. t = next_summary_unit_start(group, s)
    BY <1>1, <1>6
  <2>2. IsDate(s) /\ FirstDay(group, s)
    BY <1>6
  <2>3. FollowsIn(group, s, next_summary_unit_start(group, s))
    BY <2>2, NextUnit
  <2>4. t \in Int /\ s < t /\ IsDate(t) /\ FirstDay(group, t)
    BY <2>1, <2>3 DEF FollowsIn
  <2>5. s \in Int
    BY <2>2, PartsOfDate
  <2>6. t >= from + (i + 1)
    <3>1. CASE i = 0
      <4>1. s = first
        BY <1>4, <3>1
      <4>2. ~(t <= from)
        BY <1>2, <1>3, <2>4, <2>5, <4>1
      <4>3. QED
        BY <1>2, <2>4, <3>1, <4>2
    <3>2. CASE i > 0
      <4>1. s >= from + i
        BY <1>6, <3>2
      <4>2. QED
        BY <1>2, <2>4, <2>5, <4>1
    <3>3. QED
      BY <3>1, <3>2
  <2>7. QED
    BY <2>4, <2>6
<1>7. Bad = {}
  <2>1. SUFFICES ASSUME Bad # {} PROVE FALSE
    OBVIOUS
  <2>2. Bad \in SUBSET Nat
    OBVIOUS
  <2>3. PICK k \in Bad : \A j \in Bad : k <= j
    <3> HIDE DEF Bad
    <3> QED  BY <2>1, <2>2, LeastNatural
  <2> HIDE DEF Right
  <2>4. k \in 0 .. n /\ k # 0 /\ k - 1 \in 0 .. n /\ k - 1 \notin Bad
    BY <1>5, <2>3
  <2>5. Right(k - 1)
    BY <2>4
  <2>6. k - 1 + 1 = k
    BY <2>4
  <2>7. Right(k - 1 + 1)
    BY <1>6, <2>4, <2>5, <2>6
  <2>8. QED
    BY <2>3, <2>6, <2>7
<1>8. ASSUME NEW i \in 0 .. n, i < n
      PROVE  start[i + 1] = next_summary_unit_start(group, start[i])
  <2>1. i + 1 \in 0 .. n /\ i + 1 # 0 /\ i + 1 - 1 = i
    BY <1>8
  <2>2. QED
    BY <1>1, <2>1
<1>9. \A i \in 0 .. n : Right(i)
  BY <1>7
<1>10. QED
  BY <1>4, <1>8, <1>9 DEF first

\* A date a summary may be asked from or to.
IsBound(d) == IsDate(d) /\ MonthOf(d) > 0

\* The windows are those of the first days up to the end of the window.
IsCut(start, last, group, from, to) ==
  /\ last \in Nat
  /\ \A i \in 0 .. last :
       /\ IsDate(start[i]) /\ FirstDay(group, start[i]) /\ start[i] <= to
       /\ i > 0 => start[i] >= from
       /\ i < last => start[i + 1] = next_summary_unit_start(group, start[i])
  /\ start[0] = summary_unit_start(group, from)
  /\ next_summary_unit_start(group, start[last]) > to
  /\ summary_bucket_windows(group, from, to)
       = {[from |-> start[i], to |-> summary_unit_end(group, start[i])] : i \in 0 .. last}

LEMMA WindowsAreCut ==
  ASSUME NEW group \in SummaryGroups, NEW from, IsBound(from), NEW to, IsBound(to),
         from <= to
  PROVE  \E start, last : IsCut(start, last, group, from, to)
<1> DEFINE n == to - from
           start == CHOOSE start : IsStarts(start, group, from, n)
           Stops(i) == start[i] <= to /\ (i = n \/ start[i + 1] > to)
           last == CHOOSE i \in 0 .. n : Stops(i)
           W == {[from |-> start[i], to |-> summary_unit_end(group, start[i])] : i \in 0 .. last}
<1>1. summary_bucket_windows(group, from, to) = W
  BY DEF summary_bucket_windows, IsStarts
<1>2. from \in Int /\ to \in Int /\ n \in Nat
  BY PartsOfDate DEF IsBound
<1>3. IsStarts(start, group, from, n)
  <2> HIDE DEF n
  <2> QED BY <1>2, StartsExist
<1> HIDE DEF start, W
<1>4. \A i \in 0 .. n : /\ IsDate(start[i]) /\ FirstDay(group, start[i])
                        /\ i > 0 => start[i] >= from + i
                        /\ i = 0 => start[i] = summary_unit_start(group, from)
                        /\ i < n => start[i + 1] = next_summary_unit_start(group, start[i])
  <2> HIDE DEF n
  <2> QED BY <1>2, <1>3, StartsAreFirstDays DEF IsBound
<1>5. \A i \in 0 .. n : start[i] \in Int
  BY <1>4, PartsOfDate
<1>6. \A i \in 0 .. n : LET t == next_summary_unit_start(group, start[i])
                        IN  /\ t \in Int /\ start[i] < t
                            /\ \A x \in start[i] + 1 .. t - 1 :
                                 IsDate(x) => ~FirstDay(group, x)
                            /\ IsDate(t) /\ FirstDay(group, t)
  <2> SUFFICES ASSUME NEW i \in 0 .. n
               PROVE  FollowsIn(group, start[i], next_summary_unit_start(group, start[i]))
    BY DEF FollowsIn
  <2> QED BY <1>4, NextUnit
<1>7. /\ start[0] = summary_unit_start(group, from) /\ start[0] \in Int /\ start[0] <= from
      /\ \A x \in start[0] + 1 .. from : IsDate(x) => ~FirstDay(group, x)
  <2>1. 0 \in 0 .. n
    BY <1>2
  <2>2. start[0] = summary_unit_start(group, from)
    BY <1>4, <2>1
  <2>3. QED
    BY <1>2, <2>2, UnitStart DEF Span, IsBound
<1> HIDE DEF n
<1>8. \E i \in 0 .. n : Stops(i)
  <2> DEFINE stops == {i \in 0 .. n : i = n \/ start[i + 1] > to}
  <2>1. stops \in SUBSET Nat /\ n \in stops
    BY <1>2
  <2>2. PICK m \in stops : \A j \in stops : m <= j
    <3> HIDE DEF stops
    <3> QED BY <2>1, LeastNatural
  <2>3. start[m] <= to
    <3>1. CASE m = 0
      BY <1>2, <1>7, <3>1
    <3>2. CASE m # 0
      <4>1. m \in 0 .. n /\ m - 1 \in 0 .. n /\ m - 1 \notin stops
        BY <1>2, <2>2, <3>2
      <4>2. ~(start[m - 1 + 1] > to) /\ m - 1 + 1 = m
        BY <1>2, <4>1
      <4>3. start[m] \in Int
        BY <1>5, <4>1
      <4>4. QED
        BY <1>2, <4>2, <4>3
    <3>3. QED
      BY <3>1, <3>2
  <2>4. QED
    BY <2>2, <2>3
<1>9. last \in 0 .. n /\ Stops(last)
  <2> HIDE DEF Stops
  <2> QED BY <1>8
<1> HIDE DEF last
<1>10. next_summary_unit_start(group, start[last]) > to
  <2>1. CASE last # n
    BY <1>2, <1>4, <1>9, <2>1
  <2>2. CASE last = n /\ n > 0
    BY <1>2, <1>4, <1>5, <1>6, <1>9, <2>2 DEF n
  <2>3. CASE last = n /\ n = 0
    <3> DEFINE t == next_summary_unit_start(group, start[0])
    <3>1. from = to
      BY <1>2, <2>3 DEF n
    <3>2. t \in Int /\ start[0] < t /\ IsDate(t) /\ FirstDay(group, t)
      BY <1>6, <2>3
    <3> HIDE DEF t
    <3>3. ~(t <= from)
      BY <1>2, <1>7, <3>2
    <3>4. t > to
      BY <1>2, <3>1, <3>2, <3>3
    <3>5. QED
      BY <2>3, <3>4 DEF t
  <2>4. QED
    BY <1>2, <2>1, <2>2, <2>3
<1>11. \A i \in 0 .. last : start[i] <= to
  <2> DEFINE Bad == {k \in 0 .. last : ~(start[last - k] <= to)}
  <2>1. SUFFICES ASSUME Bad # {} PROVE FALSE
    <3>1. SUFFICES ASSUME NEW i \in 0 .. last PROVE start[i] <= to
      OBVIOUS
    <3>2. last - i \in 0 .. last /\ last - (last - i) = i
      BY <1>9
    <3>3. last - i \notin Bad
      OBVIOUS
    <3>4. QED
      BY <3>2, <3>3
  <2>2. Bad \in SUBSET Nat
    BY <1>9
  <2>3. PICK k \in Bad : \A j \in Bad : k <= j
    <3> HIDE DEF Bad
    <3> QED  BY <2>1, <2>2, LeastNatural
  <2> DEFINE i == last - k
  <2>4. k # 0 /\ k \in 1 .. last
    BY <1>9, <2>3
  <2>5. k - 1 \in 0 .. last /\ k - 1 \notin Bad
    BY <1>9, <2>3, <2>4
  <2>6. start[last - (k - 1)] <= to /\ last - (k - 1) = i + 1
    BY <1>9, <2>4, <2>5
  <2>7. i \in 0 .. n /\ i < n /\ i + 1 \in 0 .. n /\ ~(start[i] <= to)
    BY <1>2, <1>9, <2>3, <2>4
  <2> HIDE DEF i
  <2>8. start[i] < start[i + 1]
    BY <1>4, <1>6, <2>7
  <2>9. start[i] \in Int /\ start[i + 1] \in Int
    BY <1>5, <2>7
  <2>10. QED
    BY <1>2, <2>6, <2>7, <2>8, <2>9
<1>12. \A i \in 0 .. last : /\ i \in 0 .. n /\ (i < last => i < n)
                            /\ i > 0 => start[i] >= from
  <2>1. SUFFICES ASSUME NEW i \in 0 .. last
                 PROVE  /\ i \in 0 .. n /\ (i < last => i < n)
                        /\ i > 0 => start[i] >= from
    OBVIOUS
  <2>2. i \in 0 .. n /\ (i < last => i < n)
    BY <1>2, <1>9
  <2>3. i > 0 => start[i] >= from + i
    BY <1>4, <2>2
  <2>4. QED
    BY <1>2, <1>5, <2>2, <2>3
<1>13. IsCut(start, last, group, from, to)
  <2>1. last \in Nat
    BY <1>9
  <2>2. summary_bucket_windows(group, from, to)
          = {[from |-> start[i], to |-> summary_unit_end(group, start[i])] : i \in 0 .. last}
    BY <1>1 DEF W
  <2>3. ASSUME NEW i \in 0 .. last
        PROVE  /\ IsDate(start[i]) /\ FirstDay(group, start[i]) /\ start[i] <= to
               /\ i > 0 => start[i] >= from
               /\ i < last => start[i + 1] = next_summary_unit_start(group, start[i])
    BY <1>4, <1>11, <1>12
  <2>4. QED
    BY <1>7, <1>10, <2>1, <2>2, <2>3 DEF IsCut
<1>14. QED
  BY <1>13

\* What the summary and the chart need of the buckets.
LEMMA BucketFacts ==
  ASSUME NEW group \in SummaryGroups, NEW from, IsBound(from), NEW to, IsBound(to),
         from <= to
  PROVE  LET W == summary_bucket_windows(group, from, to)
         IN  /\ IsFiniteSet(W)
             /\ \A b \in W :
                  /\ b = [from |-> b.from, to |-> summary_unit_end(group, b.from)]
                  /\ IsDate(b.from) /\ FirstDay(group, b.from)
                  /\ \E d \in from .. to : IsDate(d) /\ b.from <= d /\ d <= b.to
             /\ \A d \in from .. to : IsDate(d) =>
                  \E b \in W : /\ b.from = summary_unit_start(group, d)
                               /\ b.from <= d /\ d <= b.to
<1> DEFINE W == summary_bucket_windows(group, from, to)
<1>1. PICK start, last : IsCut(start, last, group, from, to)
  BY WindowsAreCut
<1> DEFINE Bucket(i) == [from |-> start[i], to |-> summary_unit_end(group, start[i])]
<1>2. W = {Bucket(i) : i \in 0 .. last} /\ last \in Nat
  BY <1>1 DEF IsCut
<1>3. from \in Int /\ to \in Int
  BY PartsOfDate DEF IsBound
<1>4. \A i \in 0 .. last :
        /\ IsDate(start[i]) /\ FirstDay(group, start[i]) /\ start[i] <= to
        /\ i > 0 => start[i] >= from
        /\ i < last => start[i + 1] = next_summary_unit_start(group, start[i])
  BY <1>1 DEF IsCut
<1>5. start[0] = summary_unit_start(group, from)
  BY <1>1 DEF IsCut
<1>6. next_summary_unit_start(group, start[last]) > to
  BY <1>1 DEF IsCut
<1> HIDE DEF W
<1>7. IsFiniteSet(W)
  <2> DEFINE f == [i \in 0 .. last |-> Bucket(i)]
  <2>1. f \in [0 .. last -> W] /\ \A b \in W : \E i \in 0 .. last : f[i] = b
    BY <1>2
  <2> HIDE DEF f
  <2>2. f \in Surjection(0 .. last, W)
    BY <2>1 DEF Surjection
  <2>3. IsFiniteSet(0 .. last)
    BY <1>2, FS_Interval
  <2>4. QED
    BY <2>2, <2>3, FS_Surjection
<1>8. \A d \in Int : IsDate(d) => \A i \in 0 .. last :
        start[i] <= d /\ d < next_summary_unit_start(group, start[i])
          => d <= summary_unit_end(group, start[i])
  <2>1. SUFFICES ASSUME NEW d \in Int, IsDate(d), NEW i \in 0 .. last,
                        start[i] <= d, d < next_summary_unit_start(group, start[i])
                 PROVE  d <= summary_unit_end(group, start[i])
    OBVIOUS
  <2> DEFINE s == start[i]
             t == next_summary_unit_start(group, s)
             e == summary_unit_end(group, s)
  <2>2. IsDate(s) /\ FirstDay(group, s)
    BY <1>4
  <2> HIDE DEF s
  <2>3. /\ FollowsIn(group, s, t) /\ e \in s .. t - 1
        /\ \A x \in e + 1 .. t - 1 : ~IsDate(x)
    BY <2>2, NextUnit
  <2>4. t \in Int /\ s \in Int /\ e \in Int
    BY <2>2, <2>3, PartsOfDate DEF FollowsIn
  <2>5. s <= d /\ d < t
    BY <2>1 DEF s
  <2> HIDE DEF t, e
  <2>6. d <= e
    BY <2>1, <2>3, <2>4, <2>5
  <2>7. QED
    BY <2>6 DEF e, s
<1>9. \A i \in 0 .. last : start[i] \in Int
  BY <1>4, PartsOfDate
<1>10. ASSUME NEW d \in from .. to, IsDate(d)
       PROVE  \E i \in 0 .. last :
                start[i] <= d /\ d < next_summary_unit_start(group, start[i])
  <2> DEFINE S == {k \in 0 .. last : start[last - k] <= d}
  <2>1. start[0] <= from
    BY <1>3, <1>5, UnitStart DEF Span, IsBound
  <2>2. start[last - last] <= d
    <3>1. last - last = 0 /\ 0 \in 0 .. last
      BY <1>2
    <3>2. start[0] \in Int
      BY <1>9, <3>1
    <3>3. QED
      BY <1>3, <2>1, <3>1, <3>2
  <2>3. last \in S /\ S \in SUBSET Nat
    BY <1>2, <2>2
  <2>4. PICK k \in S : \A j \in S : k <= j
    <3> HIDE DEF S
    <3> QED BY <2>3, LeastNatural
  <2> DEFINE i == last - k
  <2>5. i \in 0 .. last /\ start[i] <= d
    BY <1>2, <2>4
  <2>6. d < next_summary_unit_start(group, start[i])
    <3>1. CASE k = 0
      <4>1. i = last
        BY <1>2, <3>1
      <4>2. start[last] \in Int /\ IsDate(start[last]) /\ FirstDay(group, start[last])
        BY <1>2, <1>4, <1>9
      <4>3. next_summary_unit_start(group, start[last]) \in Int
        BY <4>2, NextUnit DEF FollowsIn
      <4>4. QED
        BY <1>3, <1>6, <4>1, <4>3
    <3>2. CASE k # 0
      <4>1. k - 1 \in 0 .. last /\ k - 1 \notin S /\ last - (k - 1) = i + 1
        BY <1>2, <2>4, <3>2
      <4>2. ~(start[i + 1] <= d) /\ i < last /\ i + 1 \in 0 .. last
        BY <1>2, <2>5, <3>2, <4>1
      <4>3. start[i + 1] \in Int
        BY <1>9, <4>2
      <4>4. start[i + 1] = next_summary_unit_start(group, start[i])
        BY <1>4, <2>5, <4>2
      <4>5. QED
        BY <1>3, <4>2, <4>3, <4>4
    <3>3. QED
      BY <3>1, <3>2
  <2>7. QED
    BY <2>5, <2>6
<1>11. ASSUME NEW d \in from .. to, IsDate(d)
       PROVE  \E b \in W : /\ b.from = summary_unit_start(group, d)
                           /\ b.from <= d /\ d <= b.to
  <2>1. PICK i \in 0 .. last :
          start[i] <= d /\ d < next_summary_unit_start(group, start[i])
    BY <1>10, <1>11
  <2>2. d \in Int
    BY <1>3
  <2>3. d <= summary_unit_end(group, start[i])
    BY <1>8, <1>11, <2>1, <2>2
  <2>4. MonthOf(d) > 0
    BY <1>3, <2>2 DEF IsBound, MonthOf
  <2>5. start[i] = summary_unit_start(group, d)
    BY <1>4, <1>11, <2>1, <2>4, OneUnitStart
  <2>6. Bucket(i) \in W
    BY <1>2
  <2>7. Bucket(i).from = start[i] /\ Bucket(i).to = summary_unit_end(group, start[i])
    OBVIOUS
  <2> HIDE DEF Bucket
  <2>8. QED
    BY <2>1, <2>3, <2>5, <2>6, <2>7
<1>12. ASSUME NEW b \in W
       PROVE  /\ b = [from |-> b.from, to |-> summary_unit_end(group, b.from)]
              /\ IsDate(b.from) /\ FirstDay(group, b.from)
              /\ \E d \in from .. to : IsDate(d) /\ b.from <= d /\ d <= b.to
  <2>1. PICK i \in 0 .. last : b = Bucket(i)
    BY <1>2
  <2>2. /\ b = [from |-> b.from, to |-> summary_unit_end(group, b.from)]
        /\ b.from = start[i] /\ b.to = summary_unit_end(group, start[i])
    BY <2>1
  <2>3. IsDate(start[i]) /\ FirstDay(group, start[i]) /\ start[i] \in Int
    BY <1>4, <1>9
  <2>4. /\ start[i] < next_summary_unit_start(group, start[i])
        /\ next_summary_unit_start(group, start[i]) \in Int
        /\ \A x \in start[i] + 1 .. next_summary_unit_start(group, start[i]) - 1 :
             IsDate(x) => ~FirstDay(group, x)
        /\ IsDate(next_summary_unit_start(group, start[i]))
        /\ FirstDay(group, next_summary_unit_start(group, start[i]))
    BY <2>3, NextUnit DEF FollowsIn
  <2>5. CASE i = 0
    <3> DEFINE t == next_summary_unit_start(group, start[0])
    <3>1. /\ start[0] <= from
          /\ \A x \in start[0] + 1 .. from : IsDate(x) => ~FirstDay(group, x)
      BY <1>3, <1>5, UnitStart DEF Span, IsBound
    <3>2. t \in Int /\ start[0] < t /\ IsDate(t) /\ FirstDay(group, t) /\ start[0] \in Int
      BY <2>3, <2>4, <2>5
    <3> HIDE DEF t
    <3>3. from < t
      BY <1>3, <3>1, <3>2
    <3>4. from <= summary_unit_end(group, start[i])
      BY <1>3, <1>8, <2>5, <3>1, <3>3 DEF t, IsBound
    <3>5. from \in from .. to /\ IsDate(from)
      BY <1>3 DEF IsBound
    <3>6. QED
      BY <2>2, <2>3, <2>5, <3>1, <3>4, <3>5
  <2>6. CASE i > 0
    <3>1. start[i] \in from .. to
      BY <1>3, <1>4, <2>3, <2>6
    <3>2. start[i] <= summary_unit_end(group, start[i])
      BY <1>8, <2>3, <2>4
    <3>3. start[i] <= start[i]
      BY <2>3
    <3>4. QED
      BY <2>2, <2>3, <3>1, <3>2, <3>3
  <2>7. QED
    BY <1>2, <2>2, <2>3, <2>5, <2>6
<1>13. QED
  BY <1>7, <1>11, <1>12 DEF W

\* A bucket that holds d is the one its unit start gives.
LEMMA OneBucket ==
  ASSUME NEW group \in SummaryGroups, NEW from, IsBound(from), NEW to, IsBound(to),
         from <= to, NEW d \in from .. to, IsDate(d),
         NEW b \in summary_bucket_windows(group, from, to), b.from <= d, d <= b.to
  PROVE  LET u == summary_unit_start(group, d)
         IN  b = [from |-> u, to |-> summary_unit_end(group, u)]
<1> DEFINE s == b.from
           t == next_summary_unit_start(group, s)
           e == summary_unit_end(group, s)
<1>1. /\ b = [from |-> s, to |-> e]
      /\ IsDate(s) /\ FirstDay(group, s)
  BY BucketFacts
<1>2. b.to = e
  BY <1>1
<1>3. FollowsIn(group, s, t) /\ e \in s .. t - 1
  BY <1>1, NextUnit
<1>4. from \in Int /\ to \in Int /\ s \in Int /\ t \in Int
  BY <1>1, <1>3, PartsOfDate DEF IsBound, FollowsIn
<1>5. d \in Int /\ MonthOf(d) > 0
  BY <1>4 DEF IsBound, MonthOf
<1>6. d < t
  <2> HIDE DEF e, t, s
  <2> QED BY <1>2, <1>3, <1>4, <1>5
<1>7. s = summary_unit_start(group, d)
  BY <1>1, <1>5, <1>6, OneUnitStart
<1>8. QED
  BY <1>1, <1>7

\* The buckets tile every window, in every unit: summary_bucket_windows leaves
\* no day of the window out, counts none twice and adds none outside it.
THEOREM WindowsTile ==
  ASSUME NEW group \in SummaryGroups, NEW from, IsBound(from), NEW to, IsBound(to),
         from <= to
  PROVE  LET W == summary_bucket_windows(group, from, to)
             window == {d \in from .. to : IsDate(d)}
         IN  /\ \A d \in window : Cardinality({b \in W : b.from <= d /\ d <= b.to}) = 1
             /\ \A b \in W : \E d \in window : b.from <= d /\ d <= b.to
<1> DEFINE W == summary_bucket_windows(group, from, to)
<1>1. ASSUME NEW d \in from .. to, IsDate(d)
      PROVE  Cardinality({b \in W : b.from <= d /\ d <= b.to}) = 1
  <2> DEFINE u == summary_unit_start(group, d)
             one == [from |-> u, to |-> summary_unit_end(group, u)]
  <2>1. PICK b \in W : b.from <= d /\ d <= b.to
    BY <1>1, BucketFacts
  <2>2. \A c \in W : c.from <= d /\ d <= c.to => c = one
    BY <1>1, OneBucket
  <2> HIDE DEF W, one
  <2>3. b = one
    BY <2>1, <2>2
  <2>4. {c \in W : c.from <= d /\ d <= c.to} = {one}
    BY <2>1, <2>2, <2>3
  <2>5. QED
    BY <2>4, FS_Singleton
<1>2. \A b \in W : \E d \in from .. to : IsDate(d) /\ b.from <= d /\ d <= b.to
  BY BucketFacts
<1>3. QED
  BY <1>1, <1>2

-----------------------------------------------------------------------------
(* The sums of the statements.                                             *)

\* What the rows of ms add to a sum.
Terms(ms, direction) ==
  [m \in Movements |-> IF m \in ms /\ movements[m].direction = direction
                       THEN movements[m].amount ELSE 0]

LEMMA RowTypes ==
  ASSUME TypeOK, NEW m \in Rows
  PROVE  /\ m \in Movements
         /\ movements[m].account \in Accounts
         /\ movements[m].amount \in Nat
         /\ IsDate(movements[m].on)
<1>1. m \in Movements /\ movements[m] \in Movement
  BY DEF Rows, TypeOK
<1>2. /\ movements[m].account \in Accounts /\ movements[m].amount \in Amounts
      /\ movements[m].on \in Dates
  BY <1>1 DEF Movement
<1>3. (\A n \in Amounts : n \in Nat) /\ (\A d \in Dates : IsDate(d))
  BY SummaryAssumption DEF IsAmount
<1>4. QED
  BY <1>1, <1>2, <1>3

LEMMA FiniteIds ==
  IsFiniteSet(Movements) /\ IsFiniteSet(Accounts) /\ IsFiniteSet(Categories)
BY SummaryAssumption

LEMMA TermTypes ==
  ASSUME TypeOK, NEW ms, ms \subseteq Rows, NEW direction
  PROVE  /\ \A m \in Movements : Terms(ms, direction)[m] \in Nat
         /\ \A m \in Movements : Terms(ms, direction)[m] # 0 => m \in ms
<1>1. ASSUME NEW m \in Movements, m \in ms
      PROVE  movements[m].amount \in Nat
  BY <1>1, RowTypes
<1>2. QED
  BY <1>1 DEF Terms

LEMMA SumTypes ==
  ASSUME TypeOK, NEW ms, ms \subseteq Rows
  PROVE  /\ \A direction : Sum(ms, direction) \in Nat
         /\ SumsOf(ms) \in Sums
<1>1. ASSUME NEW direction
      PROVE  Sum(ms, direction) \in Nat
  <2>1. \A m \in Movements : Terms(ms, direction)[m] \in Nat
    BY TermTypes
  <2>2. SumOver(Terms(ms, direction), Movements) \in Nat
    BY <2>1, FiniteIds, SumOverNat
  <2>3. QED
    BY <2>2 DEF Sum, Terms
<1>2. Sum(ms, "expense") \in Nat /\ Sum(ms, "income") \in Nat
  BY <1>1
<1>3. QED
  BY <1>1, <1>2 DEF SumsOf, Sums

\* Rows split by g into parts: what the parts sum to.
LEMMA SplitSums ==
  ASSUME TypeOK, NEW ms, ms \subseteq Rows, NEW K, IsFiniteSet(K), NEW g,
         NEW part, DOMAIN part = K,
         \A k \in K : part[k] = SumsOf({m \in ms : g[m] = k}),
         NEW direction \in {"expense", "income"}
  PROVE  /\ SumOfParts(part, direction) <= Sum(ms, direction)
         /\ (\A m \in ms : g[m] \in K) => SumOfParts(part, direction) = Sum(ms, direction)
<1> DEFINE a == Terms(ms, direction)
<1>1. /\ \A m \in Movements : a[m] \in Nat
      /\ \A m \in Movements : a[m] # 0 => m \in ms
  BY TermTypes
<1>2. ASSUME NEW k \in K
      PROVE  part[k][direction] = PartSums(a, g, K, Movements)[k]
  <2> DEFINE some == {m \in ms : g[m] = k}
  <2>1. part[k][direction] = Sum(some, direction)
    BY DEF SumsOf
  <2>2. [m \in Movements |-> IF m \in some /\ movements[m].direction = direction
                             THEN movements[m].amount ELSE 0]
          = [m \in Movements |-> IF g[m] = k THEN a[m] ELSE 0]
    BY DEF Terms
  <2>3. QED
    BY <2>1, <2>2 DEF Sum, PartSums
<1> HIDE DEF a
<1>3. SumOfParts(part, direction) = SumOver(PartSums(a, g, K, Movements), K)
  <2>1. [k \in DOMAIN part |-> part[k][direction]] = PartSums(a, g, K, Movements)
    BY <1>2 DEF PartSums
  <2>2. QED
    BY <2>1 DEF SumOfParts
<1>4. Sum(ms, direction) = SumOver(a, Movements)
  BY DEF Sum, Terms, a
<1>5. /\ SumOver(PartSums(a, g, K, Movements), K) <= SumOver(a, Movements)
      /\ (\A m \in Movements : a[m] # 0 => g[m] \in K) =>
           SumOver(PartSums(a, g, K, Movements), K) = SumOver(a, Movements)
  BY <1>1, FiniteIds, SumByParts
<1>6. QED
  BY <1>1, <1>3, <1>4, <1>5

\* The rows of the window that count.
CountedRows == {m \in InWindow : Counted(m)}

LEMMA WindowRows ==
  /\ InWindow \subseteq Rows /\ CountedRows \subseteq InWindow
  /\ Rows \subseteq Movements
BY DEF InWindow, CountedRows, list_movements, Rows

LEMMA TotalsAre ==
  /\ SUMMARY_TOTALS.expense = Sum(CountedRows, "expense")
  /\ SUMMARY_TOTALS.income = Sum(CountedRows, "income")
  /\ SUMMARY_TOTALS.count = Cardinality(CountedRows)
  /\ SUMMARY_TOTALS.recent_total = Cardinality(InWindow)
BY DEF SUMMARY_TOTALS, CountedRows

LEMMA AccountsAddUp ==
  ASSUME TypeOK, NEW direction \in {"expense", "income"}
  PROVE  SumOfParts(SUMMARY_BY_ACCOUNT, direction) = Sum(CountedRows, direction)
<1> DEFINE g == [m \in Movements |-> movements[m].account]
           part == SUMMARY_BY_ACCOUNT
<1>1. CountedRows \subseteq Rows /\ CountedRows \subseteq Movements
  BY WindowRows
<1>2. \A x \in Accounts : {m \in InWindow : Counted(m) /\ movements[m].account = x}
                            = {m \in CountedRows : g[m] = x}
  BY <1>1, WindowRows DEF CountedRows
<1>3. DOMAIN part = Accounts /\ \A x \in Accounts : part[x] = SumsOf({m \in CountedRows : g[m] = x})
  BY <1>2 DEF SUMMARY_BY_ACCOUNT
<1>4. \A m \in CountedRows : g[m] \in Accounts
  BY <1>1, RowTypes
<1> HIDE DEF g, part
<1>5. SumOfParts(part, direction) = Sum(CountedRows, direction)
  BY <1>1, <1>3, <1>4, FiniteIds, SplitSums
<1>6. QED
  BY <1>5 DEF part

LEMMA CategoriesAddUp ==
  ASSUME TypeOK, NEW direction \in {"expense", "income"}
  PROVE  SumOfParts(SUMMARY_BY_CATEGORY, direction) <= Sum(CountedRows, direction)
<1> DEFINE g == [m \in Movements |-> movements[m].category]
           part == SUMMARY_BY_CATEGORY
<1>1. CountedRows \subseteq Rows /\ CountedRows \subseteq Movements
  BY WindowRows
<1>2. \A c \in Categories : {m \in InWindow : Counted(m) /\ movements[m].category = c}
                              = {m \in CountedRows : g[m] = c}
  BY <1>1, WindowRows DEF CountedRows
<1>3. /\ DOMAIN part = Categories
      /\ \A c \in Categories : part[c] = SumsOf({m \in CountedRows : g[m] = c})
  BY <1>2 DEF SUMMARY_BY_CATEGORY
<1> HIDE DEF g, part
<1>4. SumOfParts(part, direction) <= Sum(CountedRows, direction)
  BY <1>1, <1>3, FiniteIds, SplitSums
<1>5. QED
  BY <1>4 DEF part

\* What WindowInv says of a summary under way.
UnderWay ==
  /\ IsBound(report.from) /\ IsBound(report.to) /\ report.from <= report.to
  /\ report.group \in SummaryGroups

\* A row of the window: the date is one of its days.
LEMMA RowInWindow ==
  ASSUME TypeOK, UnderWay, NEW m \in InWindow
  PROVE  /\ m \in Movements /\ movements[m].on \in report.from .. report.to
         /\ IsBound(movements[m].on)
<1>1. m \in Rows
  BY WindowRows
<1>2. IsDate(movements[m].on) /\ m \in Movements
  BY <1>1, RowTypes
<1>3. report.from \in Int /\ report.to \in Int /\ movements[m].on \in Int
  BY <1>2, PartsOfDate DEF UnderWay, IsBound
<1>4. report.from # None
  BY <1>3, NoDateIsNone
<1>5. movements[m].on >= report.from /\ movements[m].on <= report.to
  BY <1>4 DEF InWindow, list_movements, Within
<1>6. MonthOf(movements[m].on) > 0
  BY <1>3, <1>5 DEF UnderWay, IsBound, MonthOf
<1>7. QED
  BY <1>2, <1>3, <1>5, <1>6 DEF IsBound

LEMMA BucketsAddUp ==
  ASSUME TypeOK, UnderWay, NEW direction \in {"expense", "income"}
  PROVE  SumOfParts(Buckets, direction) = Sum(CountedRows, direction)
<1> DEFINE group == report.group
           W == summary_bucket_windows(group, report.from, report.to)
           Bucket(u) == [from |-> u, to |-> summary_unit_end(group, u)]
           u(m) == summary_unit_start(group, movements[m].on)
           g == [m \in Movements |-> Bucket(u(m))]
           part == Buckets
<1>1. CountedRows \subseteq Rows /\ CountedRows \subseteq Movements
      /\ CountedRows \subseteq InWindow /\ InWindow \subseteq Movements
  BY WindowRows
<1>2. /\ IsFiniteSet(W)
      /\ \A b \in W : b = Bucket(b.from)
      /\ \A d \in report.from .. report.to : IsDate(d) =>
           \E b \in W : b.from = summary_unit_start(group, d)
  BY BucketFacts DEF UnderWay
<1>3. ASSUME NEW m \in InWindow
      PROVE  date_trunc(group, movements[m].on) = u(m)
  BY RowInWindow, TruncationsAgree DEF UnderWay, IsBound
<1>4. \A x : Bucket(x).from = x
  OBVIOUS
<1> HIDE DEF W, Bucket, u
<1>5. ASSUME NEW b \in W, NEW m \in InWindow
      PROVE  date_trunc(group, movements[m].on) = b.from <=> g[m] = b
  <2>1. g[m] = Bucket(u(m))
    BY <1>1
  <2>2. b = Bucket(b.from)
    BY <1>2
  <2>3. date_trunc(group, movements[m].on) = u(m)
    BY <1>3
  <2>4. Bucket(u(m)).from = u(m)
    BY <1>4
  <2>5. QED
    BY <2>1, <2>2, <2>3, <2>4
<1>6. ASSUME NEW m \in CountedRows
      PROVE  g[m] \in W
  <2>1. m \in InWindow /\ m \in Movements
    BY <1>1
  <2>2. movements[m].on \in report.from .. report.to /\ IsDate(movements[m].on)
    BY <2>1, RowInWindow DEF IsBound
  <2>3. PICK b \in W : b.from = summary_unit_start(group, movements[m].on)
    BY <1>2, <2>2
  <2>4. b = Bucket(u(m))
    BY <1>2, <2>3 DEF u
  <2>5. QED
    BY <2>1, <2>4
<1> HIDE DEF g
<1>7. \A b \in W : {m \in InWindow : /\ Counted(m)
                                     /\ date_trunc(group, movements[m].on) = b.from}
                     = {m \in CountedRows : g[m] = b}
  BY <1>5 DEF CountedRows
<1>8. DOMAIN part = W /\ \A b \in W : part[b] = SumsOf({m \in CountedRows : g[m] = b})
  BY <1>7 DEF Buckets, W
<1> HIDE DEF part
<1>9. SumOfParts(part, direction) = Sum(CountedRows, direction)
  BY <1>1, <1>2, <1>6, <1>8, SplitSums
<1>10. QED
  BY <1>9 DEF part

-----------------------------------------------------------------------------
(* Types of what the statements answer.                                    *)

LEMMA CountTypes ==
  ASSUME TypeOK
  PROVE  /\ Cardinality(InWindow) \in Nat /\ Cardinality(CountedRows) \in Nat
         /\ Cardinality(CountedRows) <= Cardinality(InWindow)
         /\ SUMMARY_TOTALS \in Totals
<1>1. IsFiniteSet(Movements) /\ InWindow \subseteq Movements /\ CountedRows \subseteq InWindow
  BY FiniteIds, WindowRows
<1>2. IsFiniteSet(InWindow)
  BY <1>1, FS_Subset
<1>3. IsFiniteSet(CountedRows) /\ Cardinality(CountedRows) <= Cardinality(InWindow)
  BY <1>1, <1>2, FS_Subset
<1>4. Cardinality(InWindow) \in Nat /\ Cardinality(CountedRows) \in Nat
  BY <1>2, <1>3, FS_CardinalityType
<1>5. CountedRows \subseteq Rows
  BY WindowRows
<1>6. Sum(CountedRows, "expense") \in Nat /\ Sum(CountedRows, "income") \in Nat
  BY <1>5, SumTypes
<1>7. SUMMARY_TOTALS = [expense |-> Sum(CountedRows, "expense"),
                        income |-> Sum(CountedRows, "income"),
                        count |-> Cardinality(CountedRows),
                        recent_total |-> Cardinality(InWindow)]
  BY DEF SUMMARY_TOTALS, CountedRows
<1>8. SUMMARY_TOTALS \in Totals
  BY <1>4, <1>6, <1>7 DEF Totals
<1>9. QED
  BY <1>3, <1>4, <1>8

LEMMA SplitTypes ==
  ASSUME TypeOK
  PROVE  /\ SUMMARY_BY_ACCOUNT \in [Accounts -> Sums]
         /\ SUMMARY_BY_CATEGORY \in [Categories -> Sums]
         /\ \A b \in DOMAIN Buckets : Buckets[b] \in Sums
<1>1. \A ms \in SUBSET Rows : SumsOf(ms) \in Sums
  BY SumTypes
<1>2. InWindow \subseteq Rows
  BY WindowRows
<1>3. SUMMARY_BY_ACCOUNT \in [Accounts -> Sums]
  <2>1. ASSUME NEW x \in Accounts
        PROVE  SumsOf({m \in InWindow : Counted(m) /\ movements[m].account = x}) \in Sums
    BY <1>1, <1>2
  <2>2. QED
    BY <2>1 DEF SUMMARY_BY_ACCOUNT
<1>4. SUMMARY_BY_CATEGORY \in [Categories -> Sums]
  <2>1. ASSUME NEW c \in Categories
        PROVE  SumsOf({m \in InWindow : Counted(m) /\ movements[m].category = c}) \in Sums
    BY <1>1, <1>2
  <2>2. QED
    BY <2>1 DEF SUMMARY_BY_CATEGORY
<1>5. \A b \in DOMAIN Buckets : Buckets[b] \in Sums
  <2>1. ASSUME NEW b
        PROVE  SumsOf({m \in InWindow :
                         /\ Counted(m)
                         /\ date_trunc(report.group, movements[m].on) = b.from}) \in Sums
    BY <1>1, <1>2
  <2>2. QED
    BY <2>1 DEF Buckets
<1>6. QED
  BY <1>3, <1>4, <1>5

-----------------------------------------------------------------------------
(* The steps of the summary.                                               *)

\* Everything the summary reads is as it was, and so is what it would read.
SameTable ==
  /\ movements' = movements /\ archived' = archived
  /\ report'.currency = report.currency /\ report'.group = report.group
  /\ report'.from = report.from /\ report'.to = report.to

LEMMA SameReads ==
  ASSUME SameTable
  PROVE  /\ SUMMARY_TOTALS' = SUMMARY_TOTALS
         /\ SUMMARY_BY_ACCOUNT' = SUMMARY_BY_ACCOUNT
         /\ SUMMARY_BY_CATEGORY' = SUMMARY_BY_CATEGORY
         /\ Buckets' = Buckets
<1>1. InWindow' = InWindow
  BY DEF SameTable, InWindow, list_movements, Rows, Within
<1>2. \A m : Counted(m)' <=> Counted(m)
  BY DEF SameTable, Counted
<1>3. \A ms, direction : Sum(ms, direction)' = Sum(ms, direction)
  BY DEF SameTable, Sum
<1>4. \A ms : SumsOf(ms)' = SumsOf(ms)
  BY <1>3 DEF SumsOf
<1>5. SUMMARY_TOTALS' = SUMMARY_TOTALS
  BY <1>1, <1>2, <1>3 DEF SUMMARY_TOTALS
<1>6. SUMMARY_BY_ACCOUNT' = SUMMARY_BY_ACCOUNT
  BY <1>1, <1>2, <1>4 DEF SUMMARY_BY_ACCOUNT, SameTable
<1>7. SUMMARY_BY_CATEGORY' = SUMMARY_BY_CATEGORY
  BY <1>1, <1>2, <1>4 DEF SUMMARY_BY_CATEGORY, SameTable
<1>8. Buckets' = Buckets
  BY <1>1, <1>2, <1>4 DEF Buckets, SameTable
<1>9. QED
  BY <1>5, <1>6, <1>7, <1>8

Fields == {"pc", "from", "to", "group", "currency", "totals", "by_account",
           "by_category", "buckets", "recent", "torn"}

LEMMA ReportFields == DOMAIN NoReport = Fields
BY DEF NoReport, Fields

\* A read sets its field and the pc, and leaves the rest and the tables alone.
LEMMA ReadFields ==
  ASSUME TypeOK, NEW pc, NEW next, NEW field \in Fields \ {"pc"}, NEW value,
         Read(pc, next, field, value)
  PROVE  /\ report.pc = pc /\ report'.pc = next /\ report'[field] = value
         /\ \A f \in Fields \ {"pc", field} : report'[f] = report[f]
         /\ report' = [f \in DOMAIN NoReport |-> report'[f]]
         /\ movements' = movements /\ archived' = archived
         /\ preferred' = preferred /\ writes' = writes
<1>1. /\ report.pc = pc
      /\ report' = [report EXCEPT !.pc = next, ![field] = value]
      /\ UNCHANGED <<movements, archived, preferred, writes>>
  BY DEF Read, db
<1>2. report = [f \in Fields |-> report[f]]
  BY ReportFields DEF TypeOK
<1>3. report' = [f \in Fields |-> IF f = field THEN value
                                 ELSE IF f = "pc" THEN next ELSE report[f]]
  BY <1>1, <1>2
<1>4. "pc" \in Fields /\ field # "pc"
  BY DEF Fields
<1>5. QED
  BY <1>1, <1>3, <1>4, ReportFields

LEMMA PcSets ==
  /\ After("currency") = {"totals", "by_account", "by_category", "buckets", "recent", "done"}
  /\ After("totals") = {"by_account", "by_category", "buckets", "recent"}
  /\ After("by_account") = {"by_category", "buckets", "recent"}
  /\ After("by_category") = {"buckets", "recent"}
  /\ After("buckets") = {"recent"}
BY DEF After

\* The window of a summary under way.
LEMMA WindowOfReport ==
  ASSUME WindowInv, report.pc # "idle"
  PROVE  UnderWay
BY DEF WindowInv, UnderWay, IsBound

LEMMA ReadKeepsWindow ==
  ASSUME TypeOK, WindowInv, NEW pc, pc # "idle", NEW next, next # "idle",
         NEW field \in Fields \ {"pc", "from", "to", "group"}, NEW value,
         Read(pc, next, field, value)
  PROVE  WindowInv'
<1>1. /\ report.pc = pc /\ report'.pc = next
      /\ \A f \in Fields \ {"pc", field} : report'[f] = report[f]
  BY ReadFields
<1>2. {"from", "to", "group"} \subseteq Fields \ {"pc", field}
  BY DEF Fields
<1>3. /\ report'.from = report.from /\ report'.to = report.to
      /\ report'.group = report.group
  BY <1>1, <1>2
<1>4. QED
  BY <1>1, <1>3 DEF WindowInv

LEMMA ReadCurrencyStep ==
  ASSUME SummaryInv, ReadCurrency
  PROVE  SummaryInv'
<1>1. TypeOK /\ WindowInv /\ WindowsInv /\ Read("currency", "totals", "currency", me)
  BY DEF SummaryInv, ReadCurrency
<1>2. /\ report.pc = "currency" /\ report'.pc = "totals" /\ report'.currency = me
      /\ \A f \in Fields \ {"pc", "currency"} : report'[f] = report[f]
      /\ report' = [f \in DOMAIN NoReport |-> report'[f]]
      /\ movements' = movements /\ archived' = archived
      /\ preferred' = preferred /\ writes' = writes
  <2>1. "currency" \in Fields \ {"pc"}
    BY DEF Fields
  <2>2. QED
    BY <1>1, <2>1, ReadFields
<1>3. /\ report'.from = report.from /\ report'.to = report.to
      /\ report'.group = report.group /\ report'.totals = report.totals
      /\ report'.by_account = report.by_account
      /\ report'.by_category = report.by_category
      /\ report'.buckets = report.buckets /\ report'.recent = report.recent
      /\ report'.torn = report.torn
  BY <1>2 DEF Fields
<1>4. me \in Currencies
  BY <1>1, SummaryAssumption DEF me, TypeOK
<1>5. TypeOK'
  <2>1. report'.torn \in BOOLEAN
    BY <1>1, <1>3 DEF TypeOK
  <2>2. QED
    BY <1>1, <1>2, <1>3, <1>4, <2>1 DEF TypeOK, Pcs
<1>6. WindowInv'
  <2>1. "currency" \in Fields \ {"pc", "from", "to", "group"}
    BY DEF Fields
  <2>2. QED
    BY <1>1, <2>1, ReadKeepsWindow
<1>7. CurrencyInv'
  BY <1>2, <1>4 DEF CurrencyInv
<1>8. StillSo'
  BY <1>2, PcSets DEF StillSo
<1>9. WindowsInv'
  BY <1>1, <1>3 DEF WindowsInv
<1>10. PartsAgree'
  BY <1>2 DEF PartsAgree
<1>11. QED
  BY <1>5, <1>6, <1>7, <1>8, <1>9, <1>10 DEF SummaryInv

\* The later reads change nothing that another one reads.
LEMMA ReadSame ==
  ASSUME TypeOK, NEW pc, NEW next,
         NEW field \in {"totals", "by_account", "by_category", "buckets", "recent"},
         NEW value, Read(pc, next, field, value)
  PROVE  SameTable /\ (report'.torn <=> report.torn)
<1>1. /\ \A f \in Fields \ {"pc", field} : report'[f] = report[f]
      /\ movements' = movements /\ archived' = archived
  <2>1. field \in Fields \ {"pc"}
    BY DEF Fields
  <2>2. QED
    BY <2>1, ReadFields
<1>2. {"from", "to", "group", "currency", "torn"} \subseteq Fields \ {"pc", field}
  BY DEF Fields
<1>3. QED
  BY <1>1, <1>2 DEF SameTable

\* What every read of the rows keeps.
LEMMA ReadKeeps ==
  ASSUME SummaryInv, NEW pc \in After("currency"), NEW next \in After("currency"),
         NEW field \in {"totals", "by_account", "by_category", "buckets", "recent"},
         NEW value, Read(pc, next, field, value)
  PROVE  /\ WindowInv' /\ CurrencyInv'
         /\ report.pc = pc /\ report'.pc = next /\ report'[field] = value
         /\ \A f \in Fields \ {"pc", field} : report'[f] = report[f]
         /\ report' = [f \in DOMAIN NoReport |-> report'[f]]
         /\ movements' = movements /\ archived' = archived
         /\ preferred' = preferred /\ writes' = writes
<1>1. TypeOK /\ WindowInv /\ CurrencyInv
  BY DEF SummaryInv
<1>2. pc # "idle" /\ next # "idle"
  BY PcSets
<1>3. field \in Fields \ {"pc", "from", "to", "group"} /\ field \in Fields \ {"pc"}
  BY DEF Fields
<1>4. WindowInv'
  BY <1>1, <1>2, <1>3, ReadKeepsWindow
<1>5. /\ report.pc = pc /\ report'.pc = next /\ report'[field] = value
      /\ \A f \in Fields \ {"pc", field} : report'[f] = report[f]
      /\ report' = [f \in DOMAIN NoReport |-> report'[f]]
      /\ movements' = movements /\ archived' = archived
      /\ preferred' = preferred /\ writes' = writes
  BY <1>1, <1>3, ReadFields
<1>6. report'.currency = report.currency
  BY <1>1, ReadSame DEF SameTable
<1>7. CurrencyInv'
  BY <1>1, <1>5, <1>6 DEF CurrencyInv
<1>8. QED
  BY <1>4, <1>5, <1>7

LEMMA ReadTotalsStep ==
  ASSUME SummaryInv, ReadTotals
  PROVE  SummaryInv'
<1>1. /\ TypeOK /\ WindowInv /\ WindowsInv /\ StillSo
      /\ Read("totals", "by_account", "totals", SUMMARY_TOTALS)
  BY DEF SummaryInv, ReadTotals
<1>2. /\ WindowInv' /\ CurrencyInv'
      /\ report.pc = "totals" /\ report'.pc = "by_account" /\ report'.totals = SUMMARY_TOTALS
      /\ \A f \in Fields \ {"pc", "totals"} : report'[f] = report[f]
      /\ report' = [f \in DOMAIN NoReport |-> report'[f]]
      /\ movements' = movements /\ archived' = archived
      /\ preferred' = preferred /\ writes' = writes
  <2>1. "totals" \in After("currency") /\ "by_account" \in After("currency")
    BY PcSets
  <2>2. QED
    BY <1>1, <2>1, ReadKeeps
<1>3. SameTable /\ (report'.torn <=> report.torn)
  BY <1>1, ReadSame
<1>4. /\ report'.from = report.from /\ report'.to = report.to
      /\ report'.group = report.group /\ report'.currency = report.currency
      /\ report'.by_account = report.by_account
      /\ report'.by_category = report.by_category
      /\ report'.buckets = report.buckets
      /\ report'.recent = report.recent
      /\ report'.torn = report.torn
  BY <1>2 DEF Fields
<1>5. SUMMARY_TOTALS \in Totals
  BY <1>1, CountTypes
<1>6. TypeOK'
  <2>1. report'.torn \in BOOLEAN
    BY <1>1, <1>4 DEF TypeOK
  <2>2. QED
    BY <1>1, <1>2, <1>4, <1>5, <2>1 DEF TypeOK, Pcs
<1>7. StillSo'
  <2>1. ASSUME ~report'.torn
        PROVE  /\ report'.totals = SUMMARY_TOTALS'
    <3>1. ~report.torn
      BY <1>3, <2>1
    <3>2. QED
      BY <1>2, <1>3, SameReads
  <2>2. QED
    BY <1>2, <2>1, PcSets DEF StillSo
<1>8. WindowsInv'
  BY <1>1, <1>4 DEF WindowsInv
<1>9. PartsAgree'
  BY <1>2 DEF PartsAgree
<1>10. QED
  BY <1>2, <1>6, <1>7, <1>8, <1>9 DEF SummaryInv

LEMMA ReadByAccountStep ==
  ASSUME SummaryInv, ReadByAccount
  PROVE  SummaryInv'
<1>1. /\ TypeOK /\ WindowInv /\ WindowsInv /\ StillSo
      /\ Read("by_account", "by_category", "by_account", SUMMARY_BY_ACCOUNT)
  BY DEF SummaryInv, ReadByAccount
<1>2. /\ WindowInv' /\ CurrencyInv'
      /\ report.pc = "by_account" /\ report'.pc = "by_category" /\ report'.by_account = SUMMARY_BY_ACCOUNT
      /\ \A f \in Fields \ {"pc", "by_account"} : report'[f] = report[f]
      /\ report' = [f \in DOMAIN NoReport |-> report'[f]]
      /\ movements' = movements /\ archived' = archived
      /\ preferred' = preferred /\ writes' = writes
  <2>1. "by_account" \in After("currency") /\ "by_category" \in After("currency")
    BY PcSets
  <2>2. QED
    BY <1>1, <2>1, ReadKeeps
<1>3. SameTable /\ (report'.torn <=> report.torn)
  BY <1>1, ReadSame
<1>4. /\ report'.from = report.from /\ report'.to = report.to
      /\ report'.group = report.group /\ report'.currency = report.currency
      /\ report'.totals = report.totals
      /\ report'.by_category = report.by_category
      /\ report'.buckets = report.buckets
      /\ report'.recent = report.recent
      /\ report'.torn = report.torn
  BY <1>2 DEF Fields
<1>5. SUMMARY_BY_ACCOUNT \in [Accounts -> Sums]
  BY <1>1, SplitTypes
<1>6. TypeOK'
  <2>1. report'.torn \in BOOLEAN
    BY <1>1, <1>4 DEF TypeOK
  <2>2. QED
    BY <1>1, <1>2, <1>4, <1>5, <2>1 DEF TypeOK, Pcs
<1>7. StillSo'
  <2>1. ASSUME ~report'.torn
        PROVE  /\ report'.totals = SUMMARY_TOTALS'
               /\ report'.by_account = SUMMARY_BY_ACCOUNT'
    <3>1. ~report.torn
      BY <1>3, <2>1
    <3>2. /\ report.totals = SUMMARY_TOTALS
      BY <1>1, <1>2, <3>1, PcSets DEF StillSo
    <3>3. QED
      BY <1>2, <1>3, <1>4, <3>2, SameReads
  <2>2. QED
    BY <1>2, <2>1, PcSets DEF StillSo
<1>8. WindowsInv'
  BY <1>1, <1>4 DEF WindowsInv
<1>9. PartsAgree'
  BY <1>2 DEF PartsAgree
<1>10. QED
  BY <1>2, <1>6, <1>7, <1>8, <1>9 DEF SummaryInv

LEMMA ReadByCategoryStep ==
  ASSUME SummaryInv, ReadByCategory
  PROVE  SummaryInv'
<1>1. /\ TypeOK /\ WindowInv /\ WindowsInv /\ StillSo
      /\ Read("by_category", "buckets", "by_category", SUMMARY_BY_CATEGORY)
  BY DEF SummaryInv, ReadByCategory
<1>2. /\ WindowInv' /\ CurrencyInv'
      /\ report.pc = "by_category" /\ report'.pc = "buckets" /\ report'.by_category = SUMMARY_BY_CATEGORY
      /\ \A f \in Fields \ {"pc", "by_category"} : report'[f] = report[f]
      /\ report' = [f \in DOMAIN NoReport |-> report'[f]]
      /\ movements' = movements /\ archived' = archived
      /\ preferred' = preferred /\ writes' = writes
  <2>1. "by_category" \in After("currency") /\ "buckets" \in After("currency")
    BY PcSets
  <2>2. QED
    BY <1>1, <2>1, ReadKeeps
<1>3. SameTable /\ (report'.torn <=> report.torn)
  BY <1>1, ReadSame
<1>4. /\ report'.from = report.from /\ report'.to = report.to
      /\ report'.group = report.group /\ report'.currency = report.currency
      /\ report'.totals = report.totals
      /\ report'.by_account = report.by_account
      /\ report'.buckets = report.buckets
      /\ report'.recent = report.recent
      /\ report'.torn = report.torn
  BY <1>2 DEF Fields
<1>5. SUMMARY_BY_CATEGORY \in [Categories -> Sums]
  BY <1>1, SplitTypes
<1>6. TypeOK'
  <2>1. report'.torn \in BOOLEAN
    BY <1>1, <1>4 DEF TypeOK
  <2>2. QED
    BY <1>1, <1>2, <1>4, <1>5, <2>1 DEF TypeOK, Pcs
<1>7. StillSo'
  <2>1. ASSUME ~report'.torn
        PROVE  /\ report'.totals = SUMMARY_TOTALS'
               /\ report'.by_account = SUMMARY_BY_ACCOUNT'
               /\ report'.by_category = SUMMARY_BY_CATEGORY'
    <3>1. ~report.torn
      BY <1>3, <2>1
    <3>2. /\ report.totals = SUMMARY_TOTALS
          /\ report.by_account = SUMMARY_BY_ACCOUNT
      BY <1>1, <1>2, <3>1, PcSets DEF StillSo
    <3>3. QED
      BY <1>2, <1>3, <1>4, <3>2, SameReads
  <2>2. QED
    BY <1>2, <2>1, PcSets DEF StillSo
<1>8. WindowsInv'
  BY <1>1, <1>4 DEF WindowsInv
<1>9. PartsAgree'
  BY <1>2 DEF PartsAgree
<1>10. QED
  BY <1>2, <1>6, <1>7, <1>8, <1>9 DEF SummaryInv

LEMMA ReadBucketsStep ==
  ASSUME SummaryInv, ReadBuckets
  PROVE  SummaryInv'
<1>1. /\ TypeOK /\ WindowInv /\ WindowsInv /\ StillSo
      /\ Read("buckets", "recent", "buckets", Buckets)
  BY DEF SummaryInv, ReadBuckets
<1>2. /\ WindowInv' /\ CurrencyInv'
      /\ report.pc = "buckets" /\ report'.pc = "recent" /\ report'.buckets = Buckets
      /\ \A f \in Fields \ {"pc", "buckets"} : report'[f] = report[f]
      /\ report' = [f \in DOMAIN NoReport |-> report'[f]]
      /\ movements' = movements /\ archived' = archived
      /\ preferred' = preferred /\ writes' = writes
  <2>1. "buckets" \in After("currency") /\ "recent" \in After("currency")
    BY PcSets
  <2>2. QED
    BY <1>1, <2>1, ReadKeeps
<1>3. SameTable /\ (report'.torn <=> report.torn)
  BY <1>1, ReadSame
<1>4. /\ report'.from = report.from /\ report'.to = report.to
      /\ report'.group = report.group /\ report'.currency = report.currency
      /\ report'.totals = report.totals
      /\ report'.by_account = report.by_account
      /\ report'.by_category = report.by_category
      /\ report'.recent = report.recent
      /\ report'.torn = report.torn
  BY <1>2 DEF Fields
<1>5. \A b \in DOMAIN Buckets : Buckets[b] \in Sums
  BY <1>1, SplitTypes
<1>6. TypeOK'
  <2>1. report'.torn \in BOOLEAN
    BY <1>1, <1>4 DEF TypeOK
  <2>2. QED
    BY <1>1, <1>2, <1>4, <1>5, <2>1 DEF TypeOK, Pcs
<1>7. StillSo'
  <2>1. ASSUME ~report'.torn
        PROVE  /\ report'.totals = SUMMARY_TOTALS'
               /\ report'.by_account = SUMMARY_BY_ACCOUNT'
               /\ report'.by_category = SUMMARY_BY_CATEGORY'
               /\ report'.buckets = Buckets'
    <3>1. ~report.torn
      BY <1>3, <2>1
    <3>2. /\ report.totals = SUMMARY_TOTALS
          /\ report.by_account = SUMMARY_BY_ACCOUNT
          /\ report.by_category = SUMMARY_BY_CATEGORY
      BY <1>1, <1>2, <3>1, PcSets DEF StillSo
    <3>3. QED
      BY <1>2, <1>3, <1>4, <3>2, SameReads
  <2>2. QED
    BY <1>2, <2>1, PcSets DEF StillSo
<1>8. WindowsInv'
  <2>1. DOMAIN Buckets = summary_bucket_windows(report.group, report.from, report.to)
    BY DEF Buckets
  <2>2. QED
    BY <1>2, <1>4, <2>1 DEF WindowsInv
<1>9. PartsAgree'
  BY <1>2 DEF PartsAgree
<1>10. QED
  BY <1>2, <1>6, <1>7, <1>8, <1>9 DEF SummaryInv

\* With the newest rows the answer is complete, and its parts add up.
LEMMA AnswerAddsUp ==
  ASSUME SummaryInv, NEW ms, IsRecent(ms), Read("recent", "done", "recent", ms)
  PROVE  PartsAgree'
<1>1. /\ TypeOK /\ WindowInv /\ StillSo
  BY DEF SummaryInv
<1>2. /\ report.pc = "recent" /\ report'.recent = ms
      /\ \A f \in Fields \ {"pc", "recent"} : report'[f] = report[f]
  <2>1. "recent" \in After("currency") /\ "done" \in After("currency")
    BY PcSets
  <2>2. QED
    BY <2>1, ReadKeeps
<1>3. /\ report'.totals = report.totals /\ report'.by_account = report.by_account
      /\ report'.by_category = report.by_category /\ report'.buckets = report.buckets
  BY <1>2 DEF Fields
<1>4. report'.torn <=> report.torn
  BY <1>1, ReadSame
<1>5. UnderWay
  BY <1>1, <1>2, WindowOfReport
<1>6. SUFFICES ASSUME ~report'.torn
      PROVE  /\ \A field \in {"expense", "income"} :
                  /\ SumOfParts(report'.by_account, field) = report'.totals[field]
                  /\ SumOfParts(report'.buckets, field) = report'.totals[field]
                  /\ SumOfParts(report'.by_category, field) <= report'.totals[field]
             /\ report'.totals.count <= report'.totals.recent_total
             /\ \/ Cardinality(report'.recent) = report'.totals.recent_total
                \/ Cardinality(report'.recent) = RecentLimit
  BY DEF PartsAgree
<1>7. ~report.torn
  BY <1>4, <1>6
<1>8. /\ report'.totals = SUMMARY_TOTALS /\ report'.by_account = SUMMARY_BY_ACCOUNT
      /\ report'.by_category = SUMMARY_BY_CATEGORY /\ report'.buckets = Buckets
  BY <1>1, <1>2, <1>3, <1>7, PcSets DEF StillSo
<1>9. ASSUME NEW field \in {"expense", "income"}
      PROVE  /\ SumOfParts(report'.by_account, field) = report'.totals[field]
             /\ SumOfParts(report'.buckets, field) = report'.totals[field]
             /\ SumOfParts(report'.by_category, field) <= report'.totals[field]
  <2>1. SUMMARY_TOTALS[field] = Sum(CountedRows, field)
    BY TotalsAre
  <2>2. SumOfParts(SUMMARY_BY_ACCOUNT, field) = Sum(CountedRows, field)
    BY <1>1, AccountsAddUp
  <2>3. SumOfParts(Buckets, field) = Sum(CountedRows, field)
    BY <1>1, <1>5, BucketsAddUp
  <2>4. SumOfParts(SUMMARY_BY_CATEGORY, field) <= Sum(CountedRows, field)
    BY <1>1, CategoriesAddUp
  <2>5. QED
    BY <1>8, <2>1, <2>2, <2>3, <2>4
<1>10. report'.totals.count <= report'.totals.recent_total
  BY <1>1, <1>8, TotalsAre, CountTypes
<1>11. \/ Cardinality(report'.recent) = report'.totals.recent_total
       \/ Cardinality(report'.recent) = RecentLimit
  BY <1>2, <1>8, TotalsAre DEF IsRecent
<1>12. QED
  BY <1>9, <1>10, <1>11

LEMMA ReadRecentStep ==
  ASSUME SummaryInv, ReadRecent
  PROVE  SummaryInv'
<1>1. PICK ms \in SUBSET Movements : IsRecent(ms) /\ Read("recent", "done", "recent", ms)
  BY DEF ReadRecent
<1>2. TypeOK /\ WindowsInv
  BY DEF SummaryInv
<1>3. /\ WindowInv' /\ CurrencyInv'
      /\ report.pc = "recent" /\ report'.pc = "done" /\ report'.recent = ms
      /\ \A f \in Fields \ {"pc", "recent"} : report'[f] = report[f]
      /\ report' = [f \in DOMAIN NoReport |-> report'[f]]
      /\ movements' = movements /\ archived' = archived
      /\ preferred' = preferred /\ writes' = writes
  <2>1. "recent" \in After("currency") /\ "done" \in After("currency")
    BY PcSets
  <2>2. QED
    BY <1>1, <2>1, ReadKeeps
<1>4. /\ report'.from = report.from /\ report'.to = report.to
      /\ report'.group = report.group /\ report'.currency = report.currency
      /\ report'.totals = report.totals /\ report'.by_account = report.by_account
      /\ report'.by_category = report.by_category /\ report'.buckets = report.buckets
      /\ report'.torn = report.torn
  BY <1>3 DEF Fields
<1>5. TypeOK'
  <2>1. report'.torn \in BOOLEAN
    BY <1>2, <1>4 DEF TypeOK
  <2>2. report'.recent \subseteq Movements
    BY <1>3
  <2>3. QED
    BY <1>2, <1>3, <1>4, <2>1, <2>2 DEF TypeOK, Pcs
<1>6. StillSo'
  BY <1>3, PcSets DEF StillSo
<1>7. WindowsInv'
  BY <1>2, <1>4 DEF WindowsInv
<1>8. PartsAgree'
  BY <1>1, AnswerAddsUp
<1>9. QED
  BY <1>3, <1>5, <1>6, <1>7, <1>8 DEF SummaryInv

\* Between summaries.
LEMMA IdleReport ==
  ASSUME report = NoReport
  PROVE  /\ WindowInv /\ CurrencyInv /\ StillSo /\ WindowsInv /\ PartsAgree
         /\ report = [f \in DOMAIN NoReport |-> report[f]]
         /\ report.pc \in Pcs /\ report.torn \in BOOLEAN
         /\ report.currency = None /\ report.totals = None /\ report.by_account = None
         /\ report.by_category = None /\ report.recent = None /\ report.buckets = None
<1>1. /\ report.pc = "idle" /\ report.currency = None /\ report.totals = None
      /\ report.by_account = None /\ report.by_category = None
      /\ report.recent = None /\ report.buckets = None
  BY DEF NoReport
<1>2. report.torn \in BOOLEAN
  BY DEF NoReport
<1>3. report = [f \in DOMAIN NoReport |-> report[f]]
  BY DEF NoReport
<1>4. WindowInv
  BY <1>1 DEF WindowInv
<1>5. CurrencyInv /\ StillSo /\ WindowsInv
  BY <1>1, PcSets DEF CurrencyInv, StillSo, WindowsInv
<1>6. PartsAgree
  BY <1>1 DEF PartsAgree
<1>7. QED
  BY <1>1, <1>2, <1>3, <1>4, <1>5, <1>6 DEF Pcs

LEMMA AnswerStep ==
  ASSUME SummaryInv, Answer
  PROVE  SummaryInv'
<1>1. TypeOK
  BY DEF SummaryInv
<1>2. report' = NoReport /\ UNCHANGED <<movements, archived, preferred, writes>>
  BY DEF Answer, db
<1>3. (report = NoReport =>
         /\ WindowInv /\ CurrencyInv /\ StillSo /\ WindowsInv /\ PartsAgree
         /\ report = [f \in DOMAIN NoReport |-> report[f]]
         /\ report.pc \in Pcs /\ report.torn \in BOOLEAN
         /\ report.currency = None /\ report.totals = None /\ report.by_account = None
         /\ report.by_category = None /\ report.recent = None /\ report.buckets = None)'
  BY IdleReport, PTL
<1>4. TypeOK'
  <2>1. report'.torn \in BOOLEAN
    BY <1>2, <1>3
  <2>2. QED
    BY <1>1, <1>2, <1>3, <2>1 DEF TypeOK
<1>5. QED
  BY <1>2, <1>3, <1>4 DEF SummaryInv

LEMMA BeginStep ==
  ASSUME SummaryInv, movement_summary
  PROVE  SummaryInv'
<1>1. TypeOK
  BY DEF SummaryInv
<1>2. PICK w \in Windows, g \in SummaryGroups :
        /\ ValidWindow(w[1], w[2])
        /\ report' = [NoReport EXCEPT !.pc = "currency", !.from = w[1], !.to = w[2],
                                      !.group = g]
  BY DEF movement_summary
<1>3. UNCHANGED <<movements, archived, preferred, writes>>
  BY DEF movement_summary, db
<1>4. /\ report'.pc = "currency" /\ report'.from = w[1] /\ report'.to = w[2]
      /\ report'.group = g /\ report'.currency = None /\ report'.totals = None
      /\ report'.by_account = None /\ report'.by_category = None
      /\ report'.recent = None /\ report'.buckets = None
  BY <1>2 DEF NoReport
<1>5. report'.torn \in BOOLEAN
  BY <1>2 DEF NoReport
<1>6. report' = [f \in DOMAIN NoReport |-> report'[f]]
  BY <1>2 DEF NoReport
<1>7. /\ IsDate(w[1]) /\ MonthOf(w[1]) > 0 /\ IsDate(w[2]) /\ MonthOf(w[2]) > 0
      /\ w[1] <= w[2]
  BY <1>2, SummaryAssumption DEF ValidWindow
<1>8. TypeOK'
  BY <1>1, <1>3, <1>4, <1>5, <1>6 DEF TypeOK, Pcs
<1>9. WindowInv'
  BY <1>4, <1>7 DEF WindowInv
<1>10. CurrencyInv' /\ StillSo' /\ WindowsInv'
  BY <1>4, PcSets DEF CurrencyInv, StillSo, WindowsInv
<1>11. PartsAgree'
  BY <1>4 DEF PartsAgree
<1>12. QED
  BY <1>8, <1>9, <1>10, <1>11 DEF SummaryInv

-----------------------------------------------------------------------------
(* The commits of the other handlers.                                      *)

\* A commit that keeps the tables well typed keeps the invariant: it tears the
\* summary if that has begun to read them.
LEMMA CommitStep ==
  ASSUME SummaryInv, Commit,
         movements' \in [Movements -> Movement \union {None}],
         archived' \subseteq Accounts, preferred' = preferred
  PROVE  SummaryInv'
<1>1. /\ TypeOK /\ WindowInv /\ CurrencyInv /\ StillSo /\ WindowsInv /\ PartsAgree
  BY DEF SummaryInv
<1>2. /\ writes < MaxWrites /\ writes' = writes + 1
      /\ report' = [report EXCEPT !.torn = report.torn \/ Reading]
  BY DEF Commit
<1>3. report = [f \in Fields |-> report[f]]
  BY <1>1, ReportFields DEF TypeOK
<1>4. /\ \A f \in Fields \ {"torn"} : report'[f] = report[f]
      /\ report' = [f \in Fields |-> report'[f]]
  BY <1>2, <1>3 DEF Fields
<1>5. report'.torn = (report.torn \/ Reading)
  BY <1>2, <1>3 DEF Fields
<1>6. /\ report'.pc = report.pc /\ report'.from = report.from
      /\ report'.to = report.to /\ report'.group = report.group
      /\ report'.currency = report.currency /\ report'.totals = report.totals
      /\ report'.by_account = report.by_account
      /\ report'.by_category = report.by_category
      /\ report'.buckets = report.buckets /\ report'.recent = report.recent
  BY <1>4 DEF Fields
<1>7. writes' \in 0 .. MaxWrites
  BY <1>1, <1>2, SummaryAssumption DEF TypeOK
<1>8. report'.torn \in BOOLEAN
  BY <1>5
<1>9. report' = [f \in DOMAIN NoReport |-> report'[f]]
  BY <1>4, ReportFields
<1>10. TypeOK'
  BY <1>1, <1>6, <1>7, <1>8, <1>9 DEF TypeOK
<1>11. WindowInv'
  <2>1. CASE report.pc = "idle"
    <3>1. report = NoReport /\ ~Reading
      BY <1>1, <2>1 DEF WindowInv, Reading
    <3>2. report'.torn = FALSE /\ NoReport.torn = FALSE
      BY <1>5, <3>1 DEF NoReport
    <3>3. \A f \in Fields : report'[f] = NoReport[f]
      BY <1>4, <3>1, <3>2
    <3>4. NoReport = [f \in Fields |-> NoReport[f]]
      BY DEF NoReport, Fields
    <3>5. report' = NoReport
      BY <1>4, <3>3, <3>4
    <3>6. QED
      BY <1>6, <2>1, <3>5 DEF WindowInv
  <2>2. CASE report.pc # "idle"
    BY <1>1, <1>6, <2>2 DEF WindowInv
  <2>3. QED
    BY <2>1, <2>2
<1>12. CurrencyInv' /\ WindowsInv'
  BY <1>1, <1>6 DEF CurrencyInv, WindowsInv
<1>13. StillSo'
  <2>1. ASSUME ~report'.torn
        PROVE  report'.pc \notin After("totals")
    BY <1>5, <1>6, <2>1, PcSets DEF Reading
  <2>2. QED
    BY <2>1, PcSets DEF StillSo
<1>14. PartsAgree'
  <2>1. ~report'.torn => ~report.torn
    BY <1>5
  <2>2. QED
    BY <1>1, <1>6, <2>1 DEF PartsAgree
<1>15. QED
  BY <1>10, <1>11, <1>12, <1>13, <1>14 DEF SummaryInv

LEMMA OtherSteps ==
  ASSUME SummaryInv,
         \/ create_movement \/ patch_movement \/ delete_movement
         \/ patch_account \/ delete_category
  PROVE  SummaryInv'
<1>1. /\ TypeOK /\ movements \in [Movements -> Movement \union {None}]
      /\ archived \subseteq Accounts
  BY DEF SummaryInv, TypeOK
<1>2. CASE create_movement
  <2>1. movements' \in [Movements -> Movement \union {None}]
    BY <1>1, <1>2 DEF create_movement, Drafts
  <2>2. QED
    BY <1>1, <1>2, <2>1, CommitStep DEF create_movement
<1>3. CASE patch_movement
  <2>1. movements' \in [Movements -> Movement \union {None}]
    BY <1>1, <1>3 DEF patch_movement, Drafts
  <2>2. QED
    BY <1>1, <1>3, <2>1, CommitStep DEF patch_movement
<1>4. CASE delete_movement
  <2>1. movements' \in [Movements -> Movement \union {None}]
    BY <1>1, <1>4 DEF delete_movement
  <2>2. QED
    BY <1>1, <1>4, <2>1, CommitStep DEF delete_movement
<1>5. CASE patch_account
  <2>1. archived' \subseteq Accounts
    BY <1>1, <1>5 DEF patch_account
  <2>2. QED
    BY <1>1, <1>5, <2>1, CommitStep DEF patch_account
<1>6. CASE delete_category
  <2>1. PICK c \in Categories :
          movements' = [m \in Movements |->
                          IF m \in Rows /\ movements[m].category = c
                          THEN [movements[m] EXCEPT !.category = None]
                          ELSE movements[m]]
    BY <1>6 DEF delete_category
  <2>2. \A m \in Rows : [movements[m] EXCEPT !.category = None] \in Movement
    <3>1. \A m \in Rows : movements[m] \in Movement
      BY <1>1 DEF Rows
    <3>2. QED
      BY <3>1 DEF Movement
  <2>3. movements' \in [Movements -> Movement \union {None}]
    BY <1>1, <2>1, <2>2
  <2>4. QED
    BY <1>1, <1>6, <2>3, CommitStep DEF delete_category
<1>7. QED
  BY <1>2, <1>3, <1>4, <1>5, <1>6

\* The currency is read first and only once: changing it tears nothing.
LEMMA PreferencesStep ==
  ASSUME SummaryInv, patch_preferences
  PROVE  SummaryInv'
<1>1. /\ TypeOK /\ WindowInv /\ CurrencyInv /\ StillSo /\ WindowsInv /\ PartsAgree
  BY DEF SummaryInv
<1>2. /\ movements' = movements /\ archived' = archived /\ report' = report
      /\ writes < MaxWrites /\ writes' = writes + 1
  BY DEF patch_preferences
<1>3. preferred' \in Currencies \union {None}
  BY <1>1, SummaryAssumption DEF patch_preferences, PreferenceBodies, me, TypeOK
<1>4. writes' \in 0 .. MaxWrites
  BY <1>1, <1>2, SummaryAssumption DEF TypeOK
<1>5. TypeOK'
  <2>1. report'.torn \in BOOLEAN
    BY <1>1, <1>2 DEF TypeOK
  <2>2. QED
    BY <1>1, <1>2, <1>3, <1>4, <2>1 DEF TypeOK
<1>6. SameTable
  BY <1>2 DEF SameTable
<1>7. StillSo'
  BY <1>1, <1>2, <1>6, SameReads DEF StillSo
<1>8. WindowInv' /\ CurrencyInv' /\ WindowsInv'
  BY <1>1, <1>2 DEF WindowInv, CurrencyInv, WindowsInv
<1>9. PartsAgree'
  BY <1>1, <1>2 DEF PartsAgree
<1>10. QED
  BY <1>5, <1>7, <1>8, <1>9 DEF SummaryInv

LEMMA StutterStep ==
  ASSUME SummaryInv, UNCHANGED vars
  PROVE  SummaryInv'
<1>1. /\ TypeOK /\ WindowInv /\ CurrencyInv /\ StillSo /\ WindowsInv /\ PartsAgree
  BY DEF SummaryInv
<1>2. /\ movements' = movements /\ archived' = archived /\ report' = report
      /\ preferred' = preferred /\ writes' = writes
  BY DEF vars
<1>3. TypeOK'
  <2>1. report'.torn \in BOOLEAN
    BY <1>1, <1>2 DEF TypeOK
  <2>2. QED
    BY <1>1, <1>2, <2>1 DEF TypeOK
<1>4. SameTable
  BY <1>2 DEF SameTable
<1>5. StillSo'
  BY <1>1, <1>2, <1>4, SameReads DEF StillSo
<1>6. WindowInv' /\ CurrencyInv' /\ WindowsInv'
  BY <1>1, <1>2 DEF WindowInv, CurrencyInv, WindowsInv
<1>7. PartsAgree'
  BY <1>1, <1>2 DEF PartsAgree
<1>8. QED
  BY <1>3, <1>5, <1>6, <1>7 DEF SummaryInv

LEMMA InitInv ==
  ASSUME Init
  PROVE  SummaryInv
<1>1. /\ movements \in [Movements -> Movement \union {None}]
      /\ archived \subseteq Accounts /\ writes \in 0 .. MaxWrites
  BY SummaryAssumption DEF Init, Drafts
<1>2. preferred \in Currencies \union {None}
  BY SummaryAssumption DEF Init, create_user
<1>3. report = NoReport
  BY DEF Init
<1>4. /\ WindowInv /\ CurrencyInv /\ StillSo /\ WindowsInv /\ PartsAgree
      /\ report = [f \in DOMAIN NoReport |-> report[f]]
      /\ report.pc \in Pcs /\ report.torn \in BOOLEAN
      /\ report.currency = None /\ report.totals = None /\ report.by_account = None
      /\ report.by_category = None /\ report.recent = None /\ report.buckets = None
  BY <1>3, IdleReport
<1>5. TypeOK
  <2>1. report.torn \in BOOLEAN
    BY <1>4
  <2>2. QED
    BY <1>1, <1>2, <1>4, <2>1 DEF TypeOK
<1>6. QED
  BY <1>4, <1>5 DEF SummaryInv

-----------------------------------------------------------------------------
(* The theorems.                                                           *)

\* Every step of the summary and of the handlers that commit meanwhile keeps
\* the invariant: an answer no commit tore adds up (movement_summary_handler).
THEOREM SummaryInvHolds == Spec => []SummaryInv
<1>1. Init => SummaryInv
  BY InitInv
<1>2. SummaryInv /\ [Next]_vars => SummaryInv'
  <2> SUFFICES ASSUME SummaryInv, [Next]_vars PROVE SummaryInv'
    OBVIOUS
  <2>1. CASE movement_summary
    BY <2>1, BeginStep
  <2>2. CASE ReadCurrency
    BY <2>2, ReadCurrencyStep
  <2>3. CASE ReadTotals
    BY <2>3, ReadTotalsStep
  <2>4. CASE ReadByAccount
    BY <2>4, ReadByAccountStep
  <2>5. CASE ReadByCategory
    BY <2>5, ReadByCategoryStep
  <2>6. CASE ReadBuckets
    BY <2>6, ReadBucketsStep
  <2>7. CASE ReadRecent
    BY <2>7, ReadRecentStep
  <2>8. CASE Answer
    BY <2>8, AnswerStep
  <2>9. CASE \/ create_movement \/ patch_movement \/ delete_movement
             \/ patch_account \/ delete_category
    BY <2>9, OtherSteps
  <2>10. CASE patch_preferences
    BY <2>10, PreferencesStep
  <2>11. CASE UNCHANGED vars
    BY <2>11, StutterStep
  <2>12. QED
    BY <2>1, <2>2, <2>3, <2>4, <2>5, <2>6, <2>7, <2>8, <2>9, <2>10, <2>11 DEF Next
<1>3. QED
  BY <1>1, <1>2, PTL DEF Spec

\* The buckets of every answer tile its window, whatever was committed between
\* the statements (summary_bucket_windows).
THEOREM AnswersTile == Spec => []BucketsTile
<1>1. SummaryInv => BucketsTile
  <2> SUFFICES ASSUME SummaryInv, report.buckets # None PROVE BucketsTile
    BY DEF BucketsTile
  <2>1. /\ WindowInv
        /\ DOMAIN report.buckets
             = summary_bucket_windows(report.group, report.from, report.to)
    BY DEF SummaryInv, WindowsInv
  <2>2. report.pc # "idle"
    BY <2>1 DEF WindowInv, NoReport
  <2>3. UnderWay
    BY <2>1, <2>2, WindowOfReport
  <2>4. LET W == summary_bucket_windows(report.group, report.from, report.to)
            window == {d \in report.from .. report.to : IsDate(d)}
        IN  /\ \A d \in window : Cardinality({b \in W : b.from <= d /\ d <= b.to}) = 1
            /\ \A b \in W : \E d \in window : b.from <= d /\ d <= b.to
    BY <2>3, WindowsTile DEF UnderWay
  <2>5. QED
    BY <2>1, <2>4 DEF BucketsTile
<1>2. QED
  BY <1>1, SummaryInvHolds, PTL
==============================================================================
