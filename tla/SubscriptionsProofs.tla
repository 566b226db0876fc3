------------------------- MODULE SubscriptionsProofs -------------------------
(***************************************************************************)
(* The next billing date is a date, and lies after the payment and after   *)
(* the due date it replaces; and it is the one the calendar defines, as    *)
(* far as the catch-up looks ahead.  Then subscriptions and their          *)
(* payments, for any number of accounts, subscriptions and requests and    *)
(* any calendar: the invariant of SubscriptionInvariant is kept by every   *)
(* step, and the properties of Subscriptions follow from it.               *)
(***************************************************************************)
EXTENDS SubscriptionInvariant, NumberLemmas

-----------------------------------------------------------------------------
(* The next billing date, for every pair of dates.                         *)

\* Month and day of a date, and the date put together from them again.
LEMMA DateParts ==
  ASSUME NEW month \in Nat, NEW day \in 1 .. 31
  PROVE  /\ DateOf(month, day) \in Nat
         /\ MonthOf(DateOf(month, day)) = month
         /\ DayOf(DateOf(month, day)) = day
BY DEF DateOf, MonthOf, DayOf

LEMMA PartsOfDate ==
  ASSUME NEW d, IsDate(d)
  PROVE  /\ d \in Nat /\ MonthOf(d) \in Nat /\ DayOf(d) \in 1 .. 31
         /\ d = DateOf(MonthOf(d), DayOf(d))
BY DEF IsDate, DateOf, MonthOf, DayOf

LEMMA LastDayRange ==
  ASSUME NEW month \in Nat
  PROVE  LastDay(month) \in 28 .. 31
BY DEF LastDay

\* Adding months to a date gives a date of a later month, hence a later date.
LEMMA AddedMonthsAreLater ==
  ASSUME NEW base, IsDate(base), NEW k \in Nat \ {0}
  PROVE  /\ IsDate(AddMonthsClamped(base, k))
         /\ AddMonthsClamped(base, k) > base
<1> DEFINE month == MonthOf(base) + k
           day   == Earlier(DayOf(base), LastDay(month))
<1>1. /\ base \in Nat /\ MonthOf(base) \in Nat /\ DayOf(base) \in 1 .. 31
      /\ base = DateOf(MonthOf(base), DayOf(base))
  BY PartsOfDate
<1>2. month \in Nat
  BY <1>1
<1>3. LastDay(month) \in 28 .. 31
  BY <1>2, LastDayRange
<1>4. day \in 1 .. 31 /\ day <= LastDay(month)
  BY <1>1, <1>3 DEF Earlier
<1>5. AddMonthsClamped(base, k) = DateOf(month, day)
  BY DEF AddMonthsClamped
<1> HIDE DEF day
<1>6. IsDate(DateOf(month, day))
  BY <1>2, <1>4, DateParts DEF IsDate
<1>7. DateOf(month, day) > base
  BY <1>1, <1>4 DEF DateOf
<1> QED  BY <1>5, <1>6, <1>7

\* The occurrence k months on has the due day, clamped to its own month.
LEMMA PartsOfOccurrence ==
  ASSUME NEW base, IsDate(base), NEW k \in Nat
  PROVE  /\ MonthOf(AddMonthsClamped(base, k)) = MonthOf(base) + k
         /\ DayOf(AddMonthsClamped(base, k)) =
              Earlier(DayOf(base), LastDay(MonthOf(base) + k))
<1> DEFINE month == MonthOf(base) + k
           day   == Earlier(DayOf(base), LastDay(month))
<1>1. MonthOf(base) \in Nat /\ DayOf(base) \in 1 .. 31
  BY PartsOfDate
<1>2. month \in Nat
  BY <1>1
<1>3. LastDay(month) \in 28 .. 31
  BY <1>2, LastDayRange
<1>4. day \in 1 .. 31
  BY <1>1, <1>3 DEF Earlier
<1>5. AddMonthsClamped(base, k) = DateOf(month, day)
  BY DEF AddMonthsClamped
<1> HIDE DEF month, day
<1>6. MonthOf(DateOf(month, day)) = month /\ DayOf(DateOf(month, day)) = day
  BY <1>2, <1>4, DateParts
<1> QED  BY <1>5, <1>6 DEF month, day

\* Dates are ordered by their months first.
LEMMA LaterMonth ==
  ASSUME NEW d \in Nat, NEW e \in Nat
  PROVE  /\ MonthOf(d) \in Nat
         /\ MonthOf(d) < MonthOf(e) => d < e
         /\ d <= e => MonthOf(d) <= MonthOf(e)
BY DEF MonthOf

\* The first occurrence found is the one that comes next.
LEMMA FirstOccurrence ==
  ASSUME NEW stored, IsDate(stored), NEW payDate,
         \E k \in 1 .. MAX_CATCH_UP_MONTHS :
           AddMonthsClamped(stored, k) > Later(payDate, stored)
  PROVE  \E k \in 1 .. MAX_CATCH_UP_MONTHS :
           /\ AdvanceNextBilling(stored, payDate) = AddMonthsClamped(stored, k)
           /\ AddMonthsClamped(stored, k) > Later(payDate, stored)
           /\ \A j \in 1 .. k - 1 :
                ~(AddMonthsClamped(stored, j) > Later(payDate, stored))
<1> DEFINE Found(k) == AddMonthsClamped(stored, k) > Later(payDate, stored)
           Steps == 1 .. MAX_CATCH_UP_MONTHS
           Hits == {k \in Steps : Found(k)}
           k == CHOOSE k \in Steps : Found(k) /\ \A j \in 1 .. k - 1 : ~Found(j)
<1>1. Steps \subseteq Nat
  BY DEF MAX_CATCH_UP_MONTHS
<1>2. Hits \in SUBSET Nat /\ Hits # {}
  BY <1>1
<1>3. PICK m \in Hits : \A other \in Hits : m <= other
  <2> HIDE DEF Hits
  <2> QED  BY <1>2, LeastNatural
<1>4. m \in Steps /\ Found(m) /\ \A j \in 1 .. m - 1 : ~Found(j)
  <2>1. m \in Steps /\ Found(m)
    BY <1>3
  <2>2. ASSUME NEW j \in 1 .. m - 1, Found(j) PROVE FALSE
    <3>1. j \in Hits
      BY <2>1, <2>2 DEF MAX_CATCH_UP_MONTHS
    <3> QED  BY <1>3, <2>1, <3>1 DEF MAX_CATCH_UP_MONTHS
  <2> QED  BY <2>1, <2>2
<1>5. k \in Steps /\ Found(k) /\ \A j \in 1 .. k - 1 : ~Found(j)
  <2> HIDE DEF Found
  <2> QED  BY <1>4, Zenon
<1>6. stored # None
  BY NoDateIsNone DEF IsDate
<1>7. AdvanceNextBilling(stored, payDate) = AddMonthsClamped(stored, k)
  BY <1>4, <1>6 DEF AdvanceNextBilling
<1> HIDE DEF k
<1> QED  BY <1>5, <1>7

\* advance_next_billing: whatever the stored due date (or none) and the day of
\* the payment, the result is a date after both: a subscription that was just
\* paid counts as paid, and its due date never goes back.
THEOREM BillingMovesOn ==
  ASSUME NEW stored, stored = None \/ IsDate(stored),
         NEW payDate, IsDate(payDate)
  PROVE  LET next == AdvanceNextBilling(stored, payDate)
         IN  /\ IsDate(next)
             /\ next > payDate
             /\ stored # None => next > stored
<1> DEFINE next == AdvanceNextBilling(stored, payDate)
<1>0. /\ IsDate(AddMonthsClamped(payDate, 1))
      /\ AddMonthsClamped(payDate, 1) > payDate
  BY AddedMonthsAreLater
<1>1. CASE stored = None
  <2>1. next = AddMonthsClamped(payDate, 1)
    BY <1>1 DEF AdvanceNextBilling
  <2> QED  BY <1>0, <1>1, <2>1
<1>2. CASE stored # None
  <2> DEFINE Found(k) == AddMonthsClamped(stored, k) > Later(payDate, stored)
             Steps == 1 .. MAX_CATCH_UP_MONTHS
  <2>1. IsDate(stored) /\ stored \in Nat /\ payDate \in Nat
    BY <1>2, PartsOfDate
  <2>2. /\ Later(payDate, stored) >= payDate
        /\ Later(payDate, stored) >= stored
        /\ Later(payDate, stored) \in {payDate, stored}
    BY <2>1 DEF Later
  <2>3. CASE \A k \in Steps : ~Found(k)
    <3>1. next = AddMonthsClamped(payDate, 1)
      BY <1>2, <2>3 DEF AdvanceNextBilling
    <3>2. 1 \in Steps /\ 1 \in Nat \ {0}
      BY DEF MAX_CATCH_UP_MONTHS
    <3>3. AddMonthsClamped(stored, 1) > stored /\ IsDate(AddMonthsClamped(stored, 1))
      BY <2>1, <3>2, AddedMonthsAreLater
    <3>4. ~(AddMonthsClamped(stored, 1) > Later(payDate, stored))
      BY <2>3, <3>2
    <3>5. AddMonthsClamped(stored, 1) \in Nat
      BY <3>3, PartsOfDate
    <3>6. payDate > stored
      BY <2>1, <2>2, <3>3, <3>4, <3>5
    <3>7. AddMonthsClamped(payDate, 1) \in Nat
      BY <1>0, PartsOfDate
    <3> QED  BY <1>0, <2>1, <3>1, <3>6, <3>7
  <2>4. CASE \E k \in Steps : Found(k)
    <3>1. PICK k \in Steps : next = AddMonthsClamped(stored, k) /\ Found(k)
      BY <2>1, <2>4, FirstOccurrence
    <3>2. k \in Nat \ {0}
      BY DEF MAX_CATCH_UP_MONTHS
    <3>3. IsDate(AddMonthsClamped(stored, k))
      BY <2>1, <3>2, AddedMonthsAreLater
    <3>4. AddMonthsClamped(stored, k) \in Nat
      BY <3>3, PartsOfDate
    <3> QED  BY <2>1, <2>2, <3>1, <3>3, <3>4
  <2> QED  BY <2>3, <2>4
<1> QED  BY <1>1, <1>2

\* advance_next_billing: as long as the due date is not further back than the
\* catch-up looks ahead, the result is the billing date the calendar defines:
\* no due day between the payment (or the due date) and it is left out.
THEOREM NextBillingFound ==
  ASSUME NEW stored, IsDate(stored), NEW payDate, IsDate(payDate),
         MonthOf(payDate) < MonthOf(stored) + MAX_CATCH_UP_MONTHS
  PROVE  IsNextBilling(AdvanceNextBilling(stored, payDate), stored, payDate)
<1> DEFINE Found(k) == AddMonthsClamped(stored, k) > Later(payDate, stored)
           Steps == 1 .. MAX_CATCH_UP_MONTHS
           last == MAX_CATCH_UP_MONTHS
<1>1. /\ stored \in Nat /\ payDate \in Nat
      /\ MonthOf(stored) \in Nat /\ MonthOf(payDate) \in Nat
  BY PartsOfDate
<1>2. /\ Later(payDate, stored) = Later(stored, payDate)
      /\ Later(stored, payDate) \in Nat
      /\ Later(stored, payDate) >= payDate /\ Later(stored, payDate) >= stored
  BY <1>1 DEF Later
<1>3. last \in Steps /\ last \in Nat \ {0} /\ Steps \subseteq Nat \ {0}
  BY DEF MAX_CATCH_UP_MONTHS
<1>4. Found(last)
  <2> HIDE DEF last
  <2>1. IsDate(AddMonthsClamped(stored, last)) /\ AddMonthsClamped(stored, last) > stored
    BY <1>3, AddedMonthsAreLater
  <2>2. AddMonthsClamped(stored, last) \in Nat
    BY <2>1, PartsOfDate
  <2>3. MonthOf(AddMonthsClamped(stored, last)) = MonthOf(stored) + last
    BY <1>3, PartsOfOccurrence
  <2>4. payDate < AddMonthsClamped(stored, last)
    BY <1>1, <2>2, <2>3, LaterMonth DEF last
  <2> QED  BY <1>1, <2>1, <2>2, <2>4 DEF Later
<1>5. PICK k \in Steps :
        /\ AdvanceNextBilling(stored, payDate) = AddMonthsClamped(stored, k)
        /\ Found(k) /\ \A j \in 1 .. k - 1 : ~Found(j)
  BY <1>3, <1>4, FirstOccurrence
<1> DEFINE d == AddMonthsClamped(stored, k)
<1>6. /\ k \in Nat \ {0} /\ IsDate(d) /\ d \in Nat
      /\ MonthOf(d) = MonthOf(stored) + k
      /\ DayOf(d) = Earlier(DayOf(stored), LastDay(MonthOf(stored) + k))
  BY <1>3, AddedMonthsAreLater, PartsOfOccurrence, PartsOfDate
<1> HIDE DEF d
<1>7. OnDueDay(d, stored)
  BY <1>6 DEF OnDueDay
<1>8. d > stored /\ d > payDate
  BY <1>1, <1>2, <1>5, <1>6 DEF d
<1>9. ASSUME NEW e \in Later(stored, payDate) + 1 .. d - 1, OnDueDay(e, stored)
      PROVE  FALSE
  <2> DEFINE j == MonthOf(e) - MonthOf(stored)
  <2>1. /\ IsDate(e) /\ e \in Nat /\ e > stored /\ e < d
        /\ e > Later(stored, payDate) /\ MonthOf(e) \in Nat
    BY <1>1, <1>2, <1>6, <1>9, PartsOfDate DEF OnDueDay
  <2>2. MonthOf(stored) <= MonthOf(e) /\ MonthOf(e) <= MonthOf(d)
    BY <1>1, <1>6, <2>1, LaterMonth
  <2>3. j \in 0 .. k
    BY <1>1, <1>6, <2>1, <2>2
  <2>4. e = AddMonthsClamped(stored, j)
    <3>1. e = DateOf(MonthOf(e), DayOf(e))
      BY <2>1, PartsOfDate
    <3>2. DayOf(e) = Earlier(DayOf(stored), LastDay(MonthOf(e)))
      BY <1>9 DEF OnDueDay
    <3>3. MonthOf(e) = MonthOf(stored) + j
      BY <1>1, <2>1
    <3> HIDE DEF j
    <3> QED  BY <3>1, <3>2, <3>3 DEF AddMonthsClamped
  <2>5. j # 0
    <3>1. stored = DateOf(MonthOf(stored), DayOf(stored))
          /\ DayOf(stored) \in 1 .. 31 /\ MonthOf(stored) + 0 = MonthOf(stored)
      BY <1>1, PartsOfDate
    <3>2. DayOf(stored) <= LastDay(MonthOf(stored))
      BY DEF IsDate
    <3>3. AddMonthsClamped(stored, 0) = stored
      BY <3>1, <3>2 DEF AddMonthsClamped, Earlier
    <3> HIDE DEF j
    <3> QED  BY <1>1, <2>1, <2>4, <3>3
  <2> HIDE DEF j
  <2>6. j # k
    BY <1>6, <2>1, <2>4 DEF d
  <2>7. j \in 1 .. k - 1
    BY <1>6, <2>3, <2>5, <2>6
  <2> QED  BY <1>2, <1>5, <2>1, <2>4, <2>7
<1> QED  BY <1>5, <1>7, <1>8, <1>9 DEF IsNextBilling, d

-----------------------------------------------------------------------------
(* Rows, dates and sequences of payments.                                  *)

LEMMA IdleRequestType == IdleRequest \in PayRequests
BY DEF IdleRequest, PayRequests

LEMMA CalendarDates == \A d \in Calendar : d \in Dates /\ IsDate(d) /\ d \in Nat
BY SubscriptionsAssumption DEF Dates, IsDate

LEMMA AppendPayment ==
  ASSUME NEW ps \in Seq(Payments), NEW p \in Payments
  PROVE  /\ Append(ps, p) \in Seq(Payments)
         /\ Len(Append(ps, p)) = Len(ps) + 1
         /\ \A i \in 1 .. Len(ps) : Append(ps, p)[i] = ps[i]
         /\ Append(ps, p)[Len(ps) + 1] = p
         /\ Last(Append(ps, p)) = p
         /\ Append(ps, p) # <<>> /\ Append(ps, p) # ps
<1>1. /\ Append(ps, p) \in Seq(Payments)
      /\ Len(Append(ps, p)) = Len(ps) + 1
      /\ \A i \in 1 .. Len(ps) : Append(ps, p)[i] = ps[i]
      /\ Append(ps, p)[Len(ps) + 1] = p
  OBVIOUS
<1>2. Len(ps) \in Nat /\ Len(<<>>) = 0
  OBVIOUS
<1>3. Last(Append(ps, p)) = p
  BY <1>1 DEF Last
<1>4. QED
  BY <1>1, <1>2, <1>3

LEMMA LastPayment ==
  ASSUME NEW ps \in Seq(Payments), ps # <<>>
  PROVE  /\ Len(ps) \in Nat \ {0} /\ Len(ps) \in DOMAIN ps
         /\ Last(ps) = ps[Len(ps)] /\ Last(ps) \in Payments
BY DEF Last

\* What was paid from an account is a number.
PaidInts ==
  \A a : /\ \A s \in Subs : PaidFrom(a, s) \in Int
         /\ PaidInAll(a) \in Int
LEMMA PaidTypes == TypeOK => PaidInts
<1> SUFFICES ASSUME TypeOK, NEW a
             PROVE  /\ \A s \in Subs : PaidFrom(a, s) \in Int
                    /\ PaidInAll(a) \in Int
  BY DEF PaidInts
<1>1. ASSUME NEW s \in Subs
      PROVE  PaidFrom(a, s) \in Int
  <2> DEFINE f == [i \in DOMAIN paid[s] |->
                     IF paid[s][i].account = a THEN paid[s][i].amount ELSE 0]
  <2>1. /\ Len(paid[s]) \in Nat
        /\ \A i \in 1 .. Len(paid[s]) : f[i] \in Int
    <3>1. paid[s] \in Seq(Payments) /\ \A p \in Prices : p \in Nat
      BY SubscriptionsAssumption DEF TypeOK, IsPrice
    <3>2. Len(paid[s]) \in Nat /\ DOMAIN paid[s] = 1 .. Len(paid[s])
          /\ \A i \in 1 .. Len(paid[s]) : paid[s][i] \in Payments
      BY <3>1
    <3>3. \A i \in 1 .. Len(paid[s]) : paid[s][i].amount \in Nat
      BY <3>1, <3>2 DEF Payments
    <3>4. QED
      BY <3>2, <3>3
  <2> HIDE DEF f
  <2>2. SumTo(f, Len(paid[s])) \in Int
    BY <2>1, SumToType
  <2>3. QED
    BY <2>2 DEF PaidFrom, f
<1>2. PaidInAll(a) \in Int
  <2> DEFINE f == [s \in Subs |-> PaidFrom(a, s)]
  <2>1. \A s \in Subs : f[s] \in Int
    BY <1>1
  <2> HIDE DEF f
  <2>2. SumOver(f, Subs) \in Int
    BY <2>1, SumOverType, SubscriptionsAssumption
  <2>3. QED
    BY <2>2 DEF PaidInAll, f
<1>3. QED
  BY <1>1, <1>2

\* Nothing is paid while nobody pays.
LEMMA PaidInAllZero ==
  ASSUME \A s \in Subs : paid[s] = <<>>, NEW a
  PROVE  PaidInAll(a) = 0
<1>1. ASSUME NEW s \in Subs
      PROVE  PaidFrom(a, s) = 0
  <2> DEFINE f == [i \in DOMAIN paid[s] |->
                     IF paid[s][i].account = a THEN paid[s][i].amount ELSE 0]
  <2>1. Len(paid[s]) = 0
    OBVIOUS
  <2> HIDE DEF f
  <2>2. SumTo(f, 0) = 0
    BY SumToZero
  <2>3. QED
    BY <2>1, <2>2 DEF PaidFrom, f
<1> DEFINE f == [s \in Subs |-> PaidFrom(a, s)]
<1>2. \A s \in Subs : f[s] = 0
  BY <1>1
<1> HIDE DEF f
<1>3. SumOver(f, Subs) = 0
  BY <1>2, SumOverZero, SubscriptionsAssumption
<1>4. QED
  BY <1>3 DEF PaidInAll, f

\* One more payment adds its amount to what its account paid.
LEMMA PaidInAllGrows ==
  ASSUME TypeOK, TypeOK', NEW s \in Subs, NEW p \in Payments,
         paid' = [paid EXCEPT ![s] = Append(@, p)], NEW a
  PROVE  PaidInAll(a)' = PaidInAll(a) + (IF p.account = a THEN p.amount ELSE 0)
<1> DEFINE d == IF p.account = a THEN p.amount ELSE 0
<1>1. paid[s] \in Seq(Payments) /\ paid'[s] = Append(paid[s], p)
      /\ \A q \in Subs \ {s} : paid'[q] = paid[q]
  BY DEF TypeOK
<1>2. \A q \in Subs : PaidFrom(a, q) \in Int /\ PaidFrom(a, q)' \in Int
  <2>1. PaidInts
    BY PaidTypes
  <2>2. PaidInts'
    BY PaidTypes, PTL
  <2>3. QED
    BY <2>1, <2>2 DEF PaidInts
<1>3. PaidFrom(a, s)' = PaidFrom(a, s) + d
  <2> DEFINE n == Len(paid[s])
             f == [i \in DOMAIN paid[s] |->
                     IF paid[s][i].account = a THEN paid[s][i].amount ELSE 0]
             h == [i \in DOMAIN paid'[s] |->
                     IF paid'[s][i].account = a THEN paid'[s][i].amount ELSE 0]
  <2>1. /\ n \in Nat /\ DOMAIN paid[s] = 1 .. n /\ Len(paid'[s]) = n + 1
        /\ DOMAIN paid'[s] = 1 .. n + 1
        /\ \A i \in 1 .. n : paid'[s][i] = paid[s][i]
        /\ paid'[s][n + 1] = p
    BY <1>1, AppendPayment
  <2>2. \A i \in 1 .. n + 1 : h[i] \in Int
    <3>1. paid'[s] \in Seq(Payments) /\ \A x \in Prices : x \in Nat
      BY SubscriptionsAssumption DEF TypeOK, IsPrice
    <3>2. \A i \in 1 .. n + 1 : paid'[s][i] \in Payments
      BY <2>1, <3>1
    <3>3. \A i \in 1 .. n + 1 : paid'[s][i].amount \in Nat
      BY <3>1, <3>2 DEF Payments
    <3>4. QED
      BY <2>1, <3>3
  <2>3. h[n + 1] = d /\ \A i \in 1 .. n : f[i] = h[i]
    BY <2>1
  <2> HIDE DEF f, h, n
  <2>4. \A i \in 1 .. n : h[i] \in Int
    BY <2>1, <2>2
  <2>5. SumTo(h, n + 1) = SumTo(h, n) + h[n + 1]
    BY <2>1, <2>2, SumToExtend
  <2>6. SumTo(f, n) = SumTo(h, n)
    BY <2>1, <2>3, <2>4, SumToEqual
  <2>7. PaidFrom(a, s) = SumTo(f, n)
    BY DEF PaidFrom, f, n
  <2>8. PaidFrom(a, s)' = SumTo(h, n + 1)
    BY <2>1 DEF PaidFrom, h
  <2>9. QED
    BY <2>3, <2>5, <2>6, <2>7, <2>8
<1>4. \A q \in Subs \ {s} : PaidFrom(a, q)' = PaidFrom(a, q)
  BY <1>1 DEF PaidFrom
<1> DEFINE f == [q \in Subs |-> PaidFrom(a, q)]
           h == [q \in Subs |-> PaidFrom(a, q)']
<1>5. /\ \A q \in Subs : f[q] \in Int /\ h[q] \in Int
      /\ \A q \in Subs \ {s} : h[q] = f[q]
      /\ h[s] = f[s] + d
  BY <1>2, <1>3, <1>4
<1>6. PaidInAll(a) = SumOver(f, Subs)
  BY DEF PaidInAll
<1>7. PaidInAll(a)' = SumOver(h, Subs)
  BY DEF PaidInAll
<1> HIDE DEF f, h, d
<1>8. SumOver(h, Subs) = SumOver(f, Subs) + (h[s] - f[s])
  <2>1. IsFiniteSet(Subs)
    BY SubscriptionsAssumption
  <2>2. ASSUME NEW F, NEW H, \A q \in Subs : F[q] \in Int /\ H[q] \in Int,
               \A q \in Subs \ {s} : H[q] = F[q]
        PROVE  SumOver(H, Subs) = SumOver(F, Subs) + (H[s] - F[s])
    BY <2>1, <2>2, SumOverUpdate
  <2>3. QED
    BY <1>5, <2>2
<1>9. SumOver(f, Subs) \in Int
  BY <1>5, SumOverType, SubscriptionsAssumption
<1>10. d \in Int
  BY SubscriptionsAssumption DEF d, Payments, IsPrice
<1>11. QED
  BY <1>5, <1>6, <1>7, <1>8, <1>9, <1>10 DEF d

-----------------------------------------------------------------------------
(* What a step of one request leaves to the others.                        *)

SameLocks(q) ==
  /\ \A a \in Accounts : accountLock'[a] = q <=> accountLock[a] = q
  /\ \A s \in Subs : subLock'[s] = q <=> subLock[s] = q
  /\ categoryLock' = q <=> categoryLock = q
\* The rows a request has checked are as they were.
SameRows(q) ==
  /\ Booking(q) => req[q].account \in open'
  /\ Paying(q) =>
       LET old == subs[req[q].sub]
           new == subs'[req[q].sub]
       IN  /\ new.state = old.state /\ new.price = old.price
           /\ new.active = old.active /\ new.next = old.next
           /\ new.last = old.last /\ new.moved = old.moved

LEMMA OthersKeep ==
  ASSUME NEW q \in Requests, RequestInv(q), req'[q] = req[q],
         SameLocks(q), SameRows(q)
  PROVE  RequestInv(q)'
<1>1. Booking(q)' = Booking(q) /\ Paying(q)' = Paying(q)
      /\ Dropping(q)' = Dropping(q)
  BY DEF Booking, Paying, Dropping
<1>2. Asked(q)'
  BY DEF RequestInv, Asked
<1>3. HoldsOnly(q)'
  BY <1>1 DEF RequestInv, HoldsOnly, SameLocks
<1>4. Booking(q) => req[q].account \in Accounts
  BY DEF RequestInv, Asked, Booking
<1>5. Paying(q) => req[q].sub \in Subs
  BY DEF RequestInv, Asked, Paying
<1>6. Paying(q) => Payable(q)'
  BY DEF RequestInv, ChecksHold, SameRows, Payable, IsPaidThisCycle
<1>7. ChecksHold(q)'
  BY <1>1, <1>4, <1>5, <1>6 DEF RequestInv, ChecksHold, SameLocks, SameRows
<1>8. QED
  BY <1>2, <1>3, <1>7 DEF RequestInv

\* Edits that no payment makes leave the cycle where the payments put it.
BooksInv == PaymentsInv /\ OncePerCycle /\ CycleMatchesPayments
LEMMA BooksKept ==
  ASSUME BooksInv, UNCHANGED <<paid, balance>>,
         \A s \in Subs :
           /\ subs'[s].last = subs[s].last \/ paid[s] = <<>>
           /\ \/ subs'[s].moved
              \/ subs'[s].moved = subs[s].moved /\ subs'[s].next = subs[s].next
              \/ paid[s] = <<>>
           /\ subs'[s].state = "unused" => subs[s].state = "unused"
  PROVE  BooksInv'
<1>1. PaymentsInv'
  BY DEF BooksInv, PaymentsInv
<1>2. OncePerCycle'
  BY DEF BooksInv, OncePerCycle
<1>3. CycleMatchesPayments'
  <2>1. \A a : PaidInAll(a)' = PaidInAll(a)
    BY DEF PaidInAll, PaidFrom
  <2>2. \A a \in Accounts : balance'[a] = - PaidInAll(a)'
    BY <2>1 DEF BooksInv, CycleMatchesPayments
  <2>3. ASSUME NEW s \in Subs, paid[s] # <<>>
        PROVE  /\ subs'[s].last = Last(paid[s]).on
               /\ subs'[s].moved \/ subs'[s].next = Last(paid[s]).next
    BY <2>3 DEF BooksInv, CycleMatchesPayments
  <2>4. QED
    BY <2>2, <2>3 DEF CycleMatchesPayments
<1>4. QED
  BY <1>1, <1>2, <1>3 DEF BooksInv

\* A request locks or reads; the tables stay as they are.
LEMMA QuietStep ==
  ASSUME SubscriptionInv, NEW r \in Requests, NEW p \in PayRequests,
         req' = [req EXCEPT ![r] = p],
         UNCHANGED <<today, open, balance, paid, subs, seeded>>,
         started' \in 0 .. MaxRequests,
         accountLock' \in [Accounts -> Requests \union {None}],
         subLock' \in [Subs -> Requests \union {None}],
         categoryLock' \in Requests \union {None},
         \A q \in Requests \ {r} : SameLocks(q),
         RequestInv(r)'
  PROVE  SubscriptionInv'
<1>1. TypeOK'
  BY DEF SubscriptionInv, TypeOK
<1>2. ASSUME NEW q \in Requests
      PROVE  RequestInv(q)'
  <2>1. CASE q = r
    BY <2>1
  <2>2. CASE q # r
    <3>1. RequestInv(q) /\ req'[q] = req[q] /\ SameLocks(q)
      BY <2>2 DEF SubscriptionInv, TypeOK
    <3>2. SameRows(q)
      BY <3>1 DEF SameRows, RequestInv, ChecksHold
    <3>3. QED
      BY <3>1, <3>2, OthersKeep
  <2>3. QED
    BY <2>1, <2>2
<1>3. BooksInv
  BY DEF SubscriptionInv, BooksInv
<1>4. BooksInv'
  BY <1>3, BooksKept
<1>5. QED
  BY <1>1, <1>2, <1>4 DEF SubscriptionInv, BooksInv

\* A statement about a subscription or an account, outside of any payment.
LEMMA EditStep ==
  ASSUME SubscriptionInv, TypeOK', UNCHANGED <<locks, req, paid, balance>>,
         \A q \in Requests : SameRows(q),
         \A s \in Subs :
           /\ subs'[s].last = subs[s].last \/ paid[s] = <<>>
           /\ \/ subs'[s].moved
              \/ subs'[s].moved = subs[s].moved /\ subs'[s].next = subs[s].next
              \/ paid[s] = <<>>
           /\ subs'[s].state = "unused" => subs[s].state = "unused"
  PROVE  SubscriptionInv'
<1>1. ASSUME NEW q \in Requests
      PROVE  RequestInv(q)'
  BY OthersKeep DEF SubscriptionInv, SameLocks, locks
<1>2. BooksInv'
  BY BooksKept DEF SubscriptionInv, BooksInv
<1>3. QED
  BY <1>1, <1>2 DEF SubscriptionInv, BooksInv

-----------------------------------------------------------------------------
(* A request that ends.                                                    *)

LEMMA ReleaseLocks ==
  ASSUME TypeOK, NEW r \in Requests, Release(r)
  PROVE  /\ accountLock' \in [Accounts -> Requests \union {None}]
         /\ subLock' \in [Subs -> Requests \union {None}]
         /\ categoryLock' \in Requests \union {None}
         /\ \A a \in Accounts : accountLock'[a] # r
         /\ \A s \in Subs : subLock'[s] # r
         /\ categoryLock' # r
         /\ \A q \in Requests \ {r} : SameLocks(q)
BY SubscriptionsAssumption DEF TypeOK, Release, SameLocks

LEMMA IdleInv ==
  ASSUME NEW r \in Requests, req'[r] = IdleRequest,
         \A a \in Accounts : accountLock'[a] # r,
         \A s \in Subs : subLock'[s] # r, categoryLock' # r
  PROVE  RequestInv(r)'
BY DEF RequestInv, Asked, HoldsOnly, ChecksHold, Booking, Paying, IdleRequest

LEMMA AbortStep ==
  ASSUME SubscriptionInv, NEW r \in Requests, Abort(r)
  PROVE  SubscriptionInv'
<1>1. /\ TypeOK /\ Release(r) /\ req' = [req EXCEPT ![r] = IdleRequest]
      /\ UNCHANGED <<today, open, balance, paid, subs, seeded, started>>
  BY DEF SubscriptionInv, Abort, money
<1>2. req'[r] = IdleRequest
  BY <1>1 DEF TypeOK
<1>3. RequestInv(r)'
  BY <1>1, <1>2, IdleInv, ReleaseLocks
<1>4. started' \in 0 .. MaxRequests
  BY <1>1 DEF TypeOK
<1>5. QED
  BY <1>1, <1>3, <1>4, IdleRequestType, ReleaseLocks, QuietStep

-----------------------------------------------------------------------------
(* A pay request begins, locks and checks.                                 *)

LEMMA BeginStep ==
  ASSUME SubscriptionInv, NEW r \in Requests, NEW p \in PayRequests,
         Begin(r, p), p.pc \in {"account", "drop"},
         req'[r] = p => Asked(r)'
  PROVE  SubscriptionInv'
<1>1. /\ TypeOK /\ HoldsOnly(r) /\ req[r].pc = "idle"
      /\ req' = [req EXCEPT ![r] = p] /\ req'[r] = p
      /\ UNCHANGED <<today, open, balance, paid, subs, seeded, accountLock,
                     subLock, categoryLock>>
      /\ started' \in 0 .. MaxRequests
  BY SubscriptionsAssumption
  DEF SubscriptionInv, RequestInv, Begin, CountRequest, TypeOK, money, locks
<1>2. RequestInv(r)'
  BY <1>1
  DEF RequestInv, HoldsOnly, ChecksHold, Booking, Paying, Dropping
<1>3. \A q \in Requests : SameLocks(q)
  BY <1>1 DEF SameLocks
<1>4. QED
  BY <1>1, <1>2, <1>3, QuietStep DEF TypeOK

LEMMA PayStep ==
  ASSUME SubscriptionInv, NEW r \in Requests, Pay(r)
  PROVE  SubscriptionInv'
<1>1. PICK a \in Accounts, s \in Subs :
        Begin(r, [IdleRequest EXCEPT !.pc = "account", !.account = a, !.sub = s,
                                     !.today = today])
  BY DEF Pay
<1> DEFINE p == [IdleRequest EXCEPT !.pc = "account", !.account = a, !.sub = s,
                                    !.today = today]
<1>2. /\ p \in PayRequests /\ p.pc = "account"
      /\ p.account \in Accounts /\ p.sub \in Subs /\ p.today \in Calendar
  BY IdleRequestType DEF SubscriptionInv, TypeOK, PayRequests, IdleRequest
<1> HIDE DEF p
<1>3. Begin(r, p)
  BY <1>1 DEF p
<1>4. req'[r] = p => Asked(r)'
  BY <1>2 DEF Asked
<1>5. QED
  BY <1>2, <1>3, <1>4, BeginStep

LEMMA DeleteCategoryStep ==
  ASSUME SubscriptionInv, NEW r \in Requests, DeleteCategory(r)
  PROVE  SubscriptionInv'
<1> DEFINE p == [IdleRequest EXCEPT !.pc = "drop"]
<1>1. p \in PayRequests /\ p.pc = "drop"
  BY IdleRequestType DEF PayRequests, IdleRequest
<1> HIDE DEF p
<1>2. Begin(r, p)
  BY DEF DeleteCategory, p
<1>3. req'[r] = p => Asked(r)'
  BY <1>1 DEF Asked
<1>4. QED
  BY <1>1, <1>2, <1>3, BeginStep

LEMMA LockAccountStep ==
  ASSUME SubscriptionInv, NEW r \in Requests, LockAccount(r)
  PROVE  SubscriptionInv'
<1> DEFINE a == req[r].account
<1>1. CASE a \notin open
  BY <1>1, AbortStep DEF LockAccount
<1>2. CASE a \in open
  <2> DEFINE p == [req[r] EXCEPT !.pc = "sub"]
  <2>1. /\ TypeOK /\ RequestInv(r) /\ req[r] \in PayRequests
        /\ req[r].pc = "account" /\ accountLock[a] = None /\ a \in Accounts
        /\ accountLock' = [accountLock EXCEPT ![a] = r]
        /\ req' = [req EXCEPT ![r] = p]
        /\ UNCHANGED <<today, open, balance, paid, subs, seeded, subLock,
                       categoryLock, started>>
    BY <1>2 DEF LockAccount, SubscriptionInv, TypeOK, RequestInv, Asked, money
  <2>2. /\ p \in PayRequests /\ p.pc = "sub" /\ p.account = a
        /\ p.sub = req[r].sub /\ p.today = req[r].today
    BY <2>1 DEF PayRequests
  <2> HIDE DEF p, a
  <2>3. req'[r] = p
    BY <2>1 DEF TypeOK
  <2>4. RequestInv(r)'
    <3>1. Asked(r)'
      BY <2>1, <2>2, <2>3 DEF RequestInv, Asked, a
    <3>2. HoldsOnly(r)'
      BY <2>1, <2>2, <2>3 DEF RequestInv, HoldsOnly, Booking, Paying, Dropping, TypeOK
    <3>3. ChecksHold(r)'
      BY <1>2, <2>1, <2>2, <2>3 DEF ChecksHold, Booking, Paying, TypeOK, a
    <3>4. QED
      BY <3>1, <3>2, <3>3 DEF RequestInv
  <2>5. \A q \in Requests \ {r} : SameLocks(q)
    BY <2>1, SubscriptionsAssumption DEF SameLocks, TypeOK
  <2>6. QED
    BY <2>1, <2>2, <2>4, <2>5, QuietStep DEF TypeOK
<1>3. QED
  BY <1>1, <1>2

LEMMA LockSubStep ==
  ASSUME SubscriptionInv, NEW r \in Requests, LockSub(r)
  PROVE  SubscriptionInv'
<1> DEFINE s == req[r].sub
<1>1. CASE ~(Stored(s) /\ Payable(r))
  BY <1>1, AbortStep DEF LockSub
<1>2. CASE Stored(s) /\ Payable(r)
  <2> DEFINE p == [req[r] EXCEPT !.pc = "category", !.row = subs[s]]
  <2>1. /\ TypeOK /\ RequestInv(r) /\ req[r] \in PayRequests
        /\ req[r].pc = "sub" /\ subLock[s] = None /\ s \in Subs
        /\ subLock' = [subLock EXCEPT ![s] = r]
        /\ req' = [req EXCEPT ![r].pc = "category", ![r].row = subs[s]]
        /\ UNCHANGED <<today, open, balance, paid, subs, seeded, accountLock,
                       categoryLock, started>>
    BY <1>2 DEF LockSub, TakeSub, SubscriptionInv, TypeOK, RequestInv, Asked, money
  <2>2. req' = [req EXCEPT ![r] = p] /\ subs[s] \in SubRows
    BY <2>1 DEF TypeOK, PayRequests
  <2>3. /\ p \in PayRequests /\ p.pc = "category" /\ p.account = req[r].account
        /\ p.sub = s /\ p.today = req[r].today /\ p.row = subs[s]
    BY <2>1, <2>2 DEF PayRequests
  <2> HIDE DEF p, s
  <2>4. req'[r] = p
    BY <2>1, <2>2 DEF TypeOK
  <2>5. RequestInv(r)'
    <3>1. Asked(r)'
      BY <2>1, <2>3, <2>4 DEF RequestInv, Asked, s
    <3>2. HoldsOnly(r)'
      BY <2>1, <2>3, <2>4
      DEF RequestInv, HoldsOnly, Booking, Paying, Dropping, TypeOK
    <3>3. Payable(r)'
      BY <1>2, <2>1, <2>3, <2>4 DEF Payable, s
    <3>4. ChecksHold(r)'
      BY <1>2, <2>1, <2>2, <2>3, <2>4, <3>3
      DEF RequestInv, ChecksHold, Booking, Paying, TypeOK, Stored
    <3>5. QED
      BY <3>1, <3>2, <3>4 DEF RequestInv
  <2>6. \A q \in Requests \ {r} : SameLocks(q)
    BY <2>1, SubscriptionsAssumption DEF SameLocks, TypeOK
  <2>7. QED
    BY <2>1, <2>2, <2>3, <2>5, <2>6, QuietStep DEF TypeOK
<1>3. QED
  BY <1>1, <1>2

LEMMA SeedCategoryStep ==
  ASSUME SubscriptionInv, NEW r \in Requests, SeedCategory(r)
  PROVE  SubscriptionInv'
<1> DEFINE p == [req[r] EXCEPT !.pc = "commit"]
<1>1. /\ TypeOK /\ RequestInv(r) /\ req[r] \in PayRequests
      /\ req[r].pc = "category" /\ categoryLock = None /\ categoryLock' = r
      /\ req' = [req EXCEPT ![r] = p]
      /\ UNCHANGED <<today, open, balance, paid, subs, seeded, accountLock,
                     subLock, started>>
  BY DEF SeedCategory, SubscriptionInv, TypeOK, money
<1>2. /\ p \in PayRequests /\ p.pc = "commit" /\ p.account = req[r].account
      /\ p.sub = req[r].sub /\ p.today = req[r].today /\ p.row = req[r].row
  BY <1>1 DEF PayRequests
<1> HIDE DEF p
<1>3. req'[r] = p
  BY <1>1 DEF TypeOK
<1>4. RequestInv(r)'
  <2>1. Asked(r)'
    BY <1>1, <1>2, <1>3 DEF RequestInv, Asked
  <2>2. HoldsOnly(r)'
    BY <1>1, <1>2, <1>3 DEF RequestInv, HoldsOnly, Booking, Paying, Dropping
  <2>3. Payable(r)'
    BY <1>1, <1>2, <1>3 DEF RequestInv, ChecksHold, Paying, Payable
  <2>4. ChecksHold(r)'
    BY <1>1, <1>2, <1>3, <2>3 DEF RequestInv, ChecksHold, Booking, Paying
  <2>5. QED
    BY <2>1, <2>2, <2>4 DEF RequestInv
<1>5. \A q \in Requests \ {r} : SameLocks(q)
  BY <1>1, SubscriptionsAssumption DEF SameLocks, TypeOK
<1>6. QED
  BY <1>1, <1>2, <1>4, <1>5, QuietStep DEF TypeOK

-----------------------------------------------------------------------------
(* The payment commits.                                                    *)

\* What a payment records is a payment; it lies in the cycle it pays.
LEMMA PaymentFacts ==
  ASSUME SubscriptionInv, NEW r \in Requests, req[r].pc = "commit"
  PROVE  LET s == req[r].sub
             row == subs[s]
             p == Payment(r)
         IN  /\ s \in Subs /\ p \in Payments
             /\ p.account = req[r].account /\ p.account \in Accounts
             /\ p.amount = req[r].row.price /\ p.amount = row.price
             /\ p.on = req[r].today
             /\ p.next = AdvanceNextBilling(row.next, req[r].today)
             /\ p.moved = row.moved
             /\ row.next # None => p.due = row.next
             /\ p.next > p.due /\ p.next > p.on
<1> DEFINE s == req[r].sub
           row == subs[s]
           day == req[r].today
           next == AdvanceNextBilling(row.next, day)
           due == IF row.next = None THEN day ELSE row.next
<1>1. /\ req[r].account \in Accounts /\ s \in Subs /\ day \in Calendar
      /\ row \in SubRows
      /\ req[r].row.price = row.price /\ req[r].row.next = row.next
      /\ req[r].row.moved = row.moved
  BY DEF SubscriptionInv, TypeOK, RequestInv, Asked, ChecksHold, Paying
<1>2. /\ row.price \in Prices /\ row.moved \in BOOLEAN
      /\ row.next \in MaybeDates
  BY <1>1 DEF SubRows
<1>3. /\ day \in Dates /\ IsDate(day)
      /\ row.next # None => row.next \in Dates /\ IsDate(row.next)
  BY <1>1, <1>2, CalendarDates DEF MaybeDates, Dates
<1>4. /\ IsDate(next) /\ next > day /\ (row.next # None => next > row.next)
  BY <1>3, BillingMovesOn
<1>5. due \in Dates /\ next \in Dates /\ next > due
  BY <1>3, <1>4 DEF Dates, IsDate
<1>6. Payment(r) = [account |-> req[r].account, amount |-> row.price, on |-> day,
                    due |-> due, next |-> next, moved |-> row.moved]
  BY <1>1 DEF Payment
<1> HIDE DEF due, next, row, s, day
<1>7. Payment(r) \in Payments
  BY <1>1, <1>2, <1>3, <1>5, <1>6 DEF Payments
<1>8. row.next # None => due = row.next
  BY DEF due
<1>9. QED
  BY <1>1, <1>4, <1>5, <1>6, <1>7, <1>8 DEF s, row, day, next

LEMMA CommitPayStep ==
  ASSUME SubscriptionInv, NEW r \in Requests, CommitPay(r)
  PROVE  SubscriptionInv'
<1> DEFINE s == req[r].sub
           p == Payment(r)
           row == subs[s]
           day == req[r].today
<1>1. /\ TypeOK /\ req[r].pc = "commit" /\ Release(r)
      /\ paid' = [paid EXCEPT ![s] = Append(@, p)]
      /\ balance' = [balance EXCEPT ![req[r].account] = @ - req[r].row.price]
      /\ subs' = [subs EXCEPT ![s] = NextRow(@, day)]
      /\ req' = [req EXCEPT ![r] = IdleRequest]
      /\ seeded' = TRUE /\ UNCHANGED <<today, open, started>>
  BY DEF CommitPay, SubscriptionInv
<1>2. /\ s \in Subs /\ p \in Payments
      /\ p.account = req[r].account /\ p.account \in Accounts
      /\ p.amount = req[r].row.price /\ p.on = day
      /\ p.next = AdvanceNextBilling(row.next, day) /\ p.moved = row.moved
      /\ row.next # None => p.due = row.next
      /\ p.next > p.due /\ p.next > p.on
  BY <1>1, PaymentFacts
<1>3. /\ p.amount \in Nat /\ p.on \in Dates /\ p.on \in Nat /\ p.next \in Dates
      /\ p.next \in Nat /\ p.due \in Nat
  BY <1>2, SubscriptionsAssumption DEF Payments, Dates, IsPrice
<1>4. /\ ~IsPaidThisCycle(row, day) /\ row.state = "live" /\ subLock[s] = r
      /\ row \in SubRows
  BY <1>1, <1>2 DEF SubscriptionInv, RequestInv, ChecksHold, Paying, Payable, TypeOK
<1> HIDE DEF p, s
<1>5. /\ subs'[s] \in SubRows
      /\ subs'[s].state = "live" /\ subs'[s].next = p.next
      /\ subs'[s].last = p.on /\ ~subs'[s].moved
      /\ subs' \in [Subs -> SubRows]
      /\ \A other \in Subs \ {s} : subs'[other] = subs[other]
  <2>1. NextRow(row, day) = [row EXCEPT !.next = p.next, !.last = p.on, !.moved = FALSE]
    BY <1>2 DEF NextRow
  <2>2. /\ NextRow(row, day) \in SubRows
        /\ NextRow(row, day).state = "live" /\ NextRow(row, day).next = p.next
        /\ NextRow(row, day).last = p.on /\ NextRow(row, day).moved = FALSE
    BY <1>3, <1>4, <2>1 DEF SubRows, MaybeDates
  <2>3. QED
    BY <1>1, <1>2, <2>2 DEF TypeOK
<1>6. /\ paid[s] \in Seq(Payments) /\ paid'[s] = Append(paid[s], p)
      /\ \A other \in Subs \ {s} : paid'[other] = paid[other]
  BY <1>1, <1>2 DEF TypeOK
<1>7. /\ paid'[s] \in Seq(Payments)
      /\ Len(paid'[s]) = Len(paid[s]) + 1 /\ Len(paid[s]) \in Nat
      /\ \A i \in 1 .. Len(paid[s]) : paid'[s][i] = paid[s][i]
      /\ paid'[s][Len(paid[s]) + 1] = p
      /\ Last(paid'[s]) = p /\ paid'[s] # <<>>
  BY <1>2, <1>6, AppendPayment
<1>8. TypeOK'
  <2>1. paid' \in [Subs -> Seq(Payments)]
    BY <1>1, <1>2, <1>7 DEF TypeOK
  <2>2. balance' \in [Accounts -> Int]
    BY <1>1, <1>2, <1>3 DEF TypeOK
  <2>3. req' \in [Requests -> PayRequests]
    BY <1>1, IdleRequestType DEF TypeOK
  <2>4. QED
    BY <1>1, <1>5, <2>1, <2>2, <2>3, ReleaseLocks DEF TypeOK
<1>9. ASSUME NEW q \in Requests
      PROVE  RequestInv(q)'
  <2>1. CASE q = r
    BY <1>1, <2>1, IdleInv, ReleaseLocks DEF TypeOK
  <2>2. CASE q # r
    <3>1. RequestInv(q) /\ req'[q] = req[q] /\ SameLocks(q)
      BY <1>1, <2>2, ReleaseLocks DEF SubscriptionInv, TypeOK
    <3>2. Paying(q) => req[q].sub \in Subs /\ req[q].sub # s
      BY <1>4, <2>2, <3>1 DEF RequestInv, Asked, ChecksHold, Paying
    <3>3. SameRows(q)
      BY <1>1, <1>5, <3>1, <3>2 DEF SameRows, RequestInv, ChecksHold
    <3>4. QED
      BY <3>1, <3>3, OthersKeep
  <2>3. QED
    BY <2>1, <2>2
<1>10. PaymentsInv'
  <2>1. ASSUME NEW i \in DOMAIN paid'[s]
        PROVE  paid'[s][i].next > paid'[s][i].due /\ paid'[s][i].next > paid'[s][i].on
    <3>1. i \in 1 .. Len(paid[s]) + 1
      BY <1>7, <2>1
    <3>2. CASE i = Len(paid[s]) + 1
      BY <1>2, <1>7, <3>2
    <3>3. CASE i # Len(paid[s]) + 1
      <4>1. i \in 1 .. Len(paid[s]) /\ i \in DOMAIN paid[s]
        BY <1>6, <1>7, <3>1, <3>3
      <4>2. QED
        BY <1>2, <1>7, <4>1 DEF SubscriptionInv, PaymentsInv
    <3>4. QED
      BY <3>2, <3>3
  <2>2. QED
    BY <1>2, <1>5, <1>6, <2>1 DEF SubscriptionInv, PaymentsInv
<1>11. OncePerCycle'
  <2>1. ASSUME NEW i \in 1 .. Len(paid'[s]) - 1, ~paid'[s][i + 1].moved
        PROVE  /\ paid'[s][i + 1].due > paid'[s][i].due
               /\ paid'[s][i + 1].on >= paid'[s][i].next
    <3>1. i \in 1 .. Len(paid[s]) /\ paid'[s][i] = paid[s][i]
      BY <1>7
    <3>2. CASE i = Len(paid[s])
      <4>1. paid[s] # <<>> /\ i \in DOMAIN paid[s] /\ Last(paid[s]) = paid[s][i]
            /\ paid[s][i] \in Payments /\ paid'[s][i + 1] = p
        BY <1>6, <1>7, <3>1, <3>2, LastPayment
      <4>2. row.last = paid[s][i].on /\ row.next = paid[s][i].next
        BY <1>2, <2>1, <4>1 DEF SubscriptionInv, CycleMatchesPayments, s
      <4>3. /\ paid[s][i].on \in Nat /\ paid[s][i].next \in Nat
            /\ paid[s][i].due \in Nat
        BY <4>1 DEF Payments, Dates
      <4>4. row.last # None /\ row.next # None
        BY <4>2, <4>3, NoDateIsNone
      <4>5. row.next <= p.on
        BY <1>2, <1>3, <1>4, <4>2, <4>3, <4>4 DEF IsPaidThisCycle
      <4>6. paid[s][i].next > paid[s][i].due
        BY <1>2, <4>1 DEF SubscriptionInv, PaymentsInv
      <4>7. QED
        BY <1>2, <1>3, <3>1, <4>1, <4>2, <4>3, <4>4, <4>5, <4>6
    <3>3. CASE i # Len(paid[s])
      <4>1. i \in 1 .. Len(paid[s]) - 1 /\ paid'[s][i + 1] = paid[s][i + 1]
        BY <1>7, <3>1, <3>3
      <4>2. QED
        BY <1>2, <2>1, <3>1, <4>1 DEF SubscriptionInv, OncePerCycle
    <3>4. QED
      BY <3>2, <3>3
  <2>2. QED
    BY <1>2, <1>6, <2>1 DEF SubscriptionInv, OncePerCycle
<1>12. CycleMatchesPayments'
  <2>1. ASSUME NEW other \in Subs, paid'[other] # <<>>
        PROVE  /\ subs'[other].last = Last(paid'[other]).on
               /\ subs'[other].moved \/ subs'[other].next = Last(paid'[other]).next
    BY <1>5, <1>6, <1>7, <2>1 DEF SubscriptionInv, CycleMatchesPayments
  <2>2. ASSUME NEW a \in Accounts
        PROVE  balance'[a] = - PaidInAll(a)'
    <3>1. PaidInAll(a)' = PaidInAll(a) + (IF p.account = a THEN p.amount ELSE 0)
      BY <1>1, <1>2, <1>8, PaidInAllGrows
    <3>2. balance[a] = - PaidInAll(a) /\ PaidInAll(a) \in Int
      BY <1>1, PaidTypes DEF SubscriptionInv, CycleMatchesPayments, PaidInts
    <3>3. balance'[a] = balance[a] - (IF p.account = a THEN p.amount ELSE 0)
      BY <1>1, <1>2, <1>3, <3>2 DEF TypeOK
    <3>4. QED
      BY <1>3, <3>1, <3>2, <3>3
  <2>3. QED
    BY <2>1, <2>2 DEF CycleMatchesPayments
<1>13. QED
  BY <1>8, <1>9, <1>10, <1>11, <1>12 DEF SubscriptionInv

-----------------------------------------------------------------------------
(* The category is deleted.                                                *)

LEMMA LockCategoryStep ==
  ASSUME SubscriptionInv, NEW r \in Requests, LockCategory(r)
  PROVE  SubscriptionInv'
<1>1. CASE ~seeded
  BY <1>1, AbortStep DEF LockCategory
<1>2. CASE seeded
  <2> DEFINE p == [req[r] EXCEPT !.pc = "unlink"]
  <2>1. /\ TypeOK /\ RequestInv(r) /\ req[r] \in PayRequests
        /\ req[r].pc = "drop" /\ categoryLock = None /\ categoryLock' = r
        /\ req' = [req EXCEPT ![r] = p]
        /\ UNCHANGED <<today, open, balance, paid, subs, seeded, accountLock,
                       subLock, started>>
    BY <1>2 DEF LockCategory, SubscriptionInv, TypeOK, money
  <2>2. p \in PayRequests /\ p.pc = "unlink"
    BY <2>1 DEF PayRequests
  <2> HIDE DEF p
  <2>3. req'[r] = p
    BY <2>1 DEF TypeOK
  <2>4. RequestInv(r)'
    BY <2>1, <2>2, <2>3
    DEF RequestInv, Asked, HoldsOnly, ChecksHold, Booking, Paying, Dropping
  <2>5. \A q \in Requests \ {r} : SameLocks(q)
    BY <2>1, SubscriptionsAssumption DEF SameLocks, TypeOK
  <2>6. QED
    BY <2>1, <2>2, <2>4, <2>5, QuietStep DEF TypeOK
<1>3. QED
  BY <1>1, <1>2

LEMMA LockLinkedStep ==
  ASSUME SubscriptionInv, NEW r \in Requests, LockLinked(r)
  PROVE  SubscriptionInv'
<1>1. PICK s \in Subs : subLock[s] = None /\ subLock' = [subLock EXCEPT ![s] = r]
  BY DEF LockLinked, ToUnlink
<1>2. /\ TypeOK /\ RequestInv(r) /\ req[r].pc = "unlink" /\ req[r] \in PayRequests
      /\ req' = [req EXCEPT ![r] = req[r]] /\ req' = req
      /\ UNCHANGED <<today, open, balance, paid, subs, seeded, accountLock,
                     categoryLock, started>>
  BY DEF LockLinked, SubscriptionInv, TypeOK, money
<1>3. RequestInv(r)'
  BY <1>1, <1>2
  DEF RequestInv, Asked, HoldsOnly, ChecksHold, Booking, Paying, Dropping
<1>4. \A q \in Requests \ {r} : SameLocks(q)
  BY <1>1, <1>2, SubscriptionsAssumption DEF SameLocks, TypeOK
<1>5. QED
  BY <1>1, <1>2, <1>3, <1>4, QuietStep DEF TypeOK

LEMMA CommitDropStep ==
  ASSUME SubscriptionInv, NEW r \in Requests, CommitDrop(r)
  PROVE  SubscriptionInv'
<1>1. /\ TypeOK /\ Release(r) /\ seeded' = FALSE
      /\ subs' = [s \in Subs |-> [subs[s] EXCEPT !.inCategory = FALSE]]
      /\ req' = [req EXCEPT ![r] = IdleRequest]
      /\ UNCHANGED <<today, open, balance, paid, started>>
  BY DEF CommitDrop, SubscriptionInv, money
<1>2. ASSUME NEW s \in Subs
      PROVE  /\ subs'[s] \in SubRows
             /\ subs'[s].state = subs[s].state /\ subs'[s].price = subs[s].price
             /\ subs'[s].active = subs[s].active /\ subs'[s].next = subs[s].next
             /\ subs'[s].last = subs[s].last /\ subs'[s].moved = subs[s].moved
  <2>1. subs[s] \in SubRows /\ subs'[s] = [subs[s] EXCEPT !.inCategory = FALSE]
    BY <1>1 DEF TypeOK
  <2>2. QED
    BY <2>1 DEF SubRows
<1>3. TypeOK'
  <2>1. subs' \in [Subs -> SubRows] /\ req' \in [Requests -> PayRequests]
    BY <1>1, <1>2, IdleRequestType DEF TypeOK
  <2>2. QED
    BY <1>1, <2>1, ReleaseLocks DEF TypeOK
<1>4. ASSUME NEW q \in Requests
      PROVE  RequestInv(q)'
  <2>1. CASE q = r
    BY <1>1, <2>1, IdleInv, ReleaseLocks DEF TypeOK
  <2>2. CASE q # r
    <3>1. RequestInv(q) /\ req'[q] = req[q] /\ SameLocks(q)
      BY <1>1, <2>2, ReleaseLocks DEF SubscriptionInv, TypeOK
    <3>2. SameRows(q)
      BY <1>1, <1>2, <3>1
      DEF SameRows, RequestInv, Asked, ChecksHold, Booking, Paying
    <3>3. QED
      BY <3>1, <3>2, OthersKeep
  <2>3. QED
    BY <2>1, <2>2
<1>5. BooksInv'
  BY <1>1, <1>2, BooksKept DEF SubscriptionInv, BooksInv
<1>6. QED
  BY <1>3, <1>4, <1>5 DEF SubscriptionInv, BooksInv

-----------------------------------------------------------------------------
(* Subscriptions and accounts are edited.                                  *)

\* No payment is under way for a row that nobody holds.
LEMMA FreeRow ==
  ASSUME SubscriptionInv, NEW s \in Subs, subLock[s] = None, NEW q \in Requests
  PROVE  Paying(q) => req[q].sub \in Subs /\ req[q].sub # s
BY SubscriptionsAssumption
DEF SubscriptionInv, RequestInv, Asked, ChecksHold, Paying

LEMMA CreateSubStep ==
  ASSUME SubscriptionInv, NEW s \in Subs, CreateSub(s)
  PROVE  SubscriptionInv'
<1>1. PICK body \in CreateBody :
        subs' = [subs EXCEPT ![s] = SubRow("live", body.price, TRUE, body.next,
                                           None, body.inCategory)]
  BY DEF CreateSub
<1> DEFINE row == SubRow("live", body.price, TRUE, body.next, None, body.inCategory)
<1>2. /\ TypeOK /\ subs[s].state = "unused"
      /\ UNCHANGED <<today, open, balance, paid, seeded, locks, req>>
      /\ started' \in 0 .. MaxRequests
  BY SubscriptionsAssumption
  DEF CreateSub, CountRequest, SubscriptionInv, TypeOK, money
<1>3. row \in SubRows /\ row.state = "live"
  <2>1. /\ body.price \in Prices /\ body.inCategory \in BOOLEAN
        /\ body.next \in Dates
    BY CalendarDates DEF CreateBody
  <2>2. QED
    BY <2>1 DEF SubRow, SubRows, MaybeDates
<1> HIDE DEF row
<1>4. /\ subs'[s] = row /\ subs' \in [Subs -> SubRows]
      /\ \A other \in Subs \ {s} : subs'[other] = subs[other]
  BY <1>1, <1>2, <1>3 DEF TypeOK, row
<1>5. paid[s] = <<>>
  BY <1>2 DEF SubscriptionInv, PaymentsInv
<1>6. TypeOK'
  BY <1>2, <1>4 DEF TypeOK, locks
<1>7. ASSUME NEW q \in Requests
      PROVE  SameRows(q)
  BY <1>2, <1>4
  DEF SameRows, SubscriptionInv, RequestInv, Asked, ChecksHold, Booking, Paying
<1>8. QED
  BY <1>2, <1>3, <1>4, <1>5, <1>6, <1>7, EditStep

\* PATCH sets the one field it names, and remembers that the due date moved.
LEMMA UpdatedFacts ==
  ASSUME NEW row \in SubRows, NEW body \in PatchBody
  PROVE  LET new == Updated(row, body)
         IN  /\ new \in SubRows
             /\ new.state = row.state /\ new.last = row.last
             /\ new.moved \/ (new.moved = row.moved /\ new.next = row.next)
<1>1. ASSUME NEW price \in Prices, body = [price |-> price]
      PROVE  Updated(row, body) = [row EXCEPT !.price = price]
  BY <1>1 DEF Updated, SubRows
<1>2. ASSUME NEW active \in BOOLEAN, body = [active |-> active]
      PROVE  Updated(row, body) = [row EXCEPT !.active = active]
  BY <1>2 DEF Updated, SubRows
<1>3. ASSUME NEW next \in Calendar, body = [next |-> next]
      PROVE  Updated(row, body) =
               [row EXCEPT !.next = next, !.moved = TRUE, !.first = next]
  <2> DEFINE set == row.moved \/ "next" \in DOMAIN body
  <2>1. set = TRUE
    BY <1>3
  <2> HIDE DEF set
  <2>2. Updated(row, body) =
          [f \in DOMAIN row |->
             CASE f \in DOMAIN body -> body[f]
               [] f = "moved" -> set
               [] f = "first" /\ "next" \in DOMAIN body -> body.next
               [] OTHER -> row[f]]
    BY DEF Updated, set
  <2>3. QED
    BY <1>3, <2>1, <2>2 DEF SubRows
<1>4. \/ \E price \in Prices : body = [price |-> price]
      \/ \E active \in BOOLEAN : body = [active |-> active]
      \/ \E next \in Calendar : body = [next |-> next]
  BY DEF PatchBody
<1>5. CASE \E price \in Prices : body = [price |-> price]
  BY <1>1, <1>5 DEF SubRows
<1>6. CASE \E active \in BOOLEAN : body = [active |-> active]
  BY <1>2, <1>6 DEF SubRows
<1>7. CASE \E next \in Calendar : body = [next |-> next]
  <2>1. PICK next \in Calendar : body = [next |-> next]
    BY <1>7
  <2> DEFINE new == [row EXCEPT !.next = next, !.moved = TRUE, !.first = next]
  <2>2. Updated(row, body) = new /\ next \in MaybeDates
    BY <1>3, <2>1, CalendarDates DEF MaybeDates
  <2>3. new \in SubRows
    BY <2>2 DEF SubRows
  <2>4. new.state = row.state /\ new.last = row.last /\ new.moved
    BY DEF SubRows
  <2>5. QED
    BY <2>2, <2>3, <2>4
<1>8. QED
  BY <1>4, <1>5, <1>6, <1>7

LEMMA PatchSubStep ==
  ASSUME SubscriptionInv, NEW s \in Subs, PatchSub(s)
  PROVE  SubscriptionInv'
<1>1. PICK body \in PatchBody : subs' = [subs EXCEPT ![s] = Updated(@, body)]
  BY DEF PatchSub
<1> DEFINE row == Updated(subs[s], body)
<1>2. /\ TypeOK /\ subs[s].state = "live" /\ subLock[s] = None /\ subs[s] \in SubRows
      /\ UNCHANGED <<today, open, balance, paid, seeded, locks, req>>
      /\ started' \in 0 .. MaxRequests
  BY SubscriptionsAssumption
  DEF PatchSub, Stored, CountRequest, SubscriptionInv, TypeOK, money
<1>3. /\ row \in SubRows /\ row.state = subs[s].state /\ row.last = subs[s].last
      /\ row.moved \/ (row.moved = subs[s].moved /\ row.next = subs[s].next)
  BY <1>2, UpdatedFacts
<1> HIDE DEF row
<1>4. /\ subs'[s] = row /\ subs' \in [Subs -> SubRows]
      /\ \A other \in Subs \ {s} : subs'[other] = subs[other]
  BY <1>1, <1>2, <1>3 DEF TypeOK, row
<1>5. TypeOK'
  BY <1>2, <1>4 DEF TypeOK, locks
<1>6. ASSUME NEW q \in Requests
      PROVE  SameRows(q)
  BY <1>2, <1>4, FreeRow
  DEF SameRows, SubscriptionInv, RequestInv, ChecksHold
<1>7. QED
  BY <1>2, <1>3, <1>4, <1>5, <1>6, EditStep

LEMMA DeleteSubStep ==
  ASSUME SubscriptionInv, NEW s \in Subs, DeleteSub(s)
  PROVE  SubscriptionInv'
<1> DEFINE row == [subs[s] EXCEPT !.state = "deleted"]
<1>1. /\ TypeOK /\ subLock[s] = None /\ subs[s] \in SubRows
      /\ subs' = [subs EXCEPT ![s] = row]
      /\ UNCHANGED <<today, open, balance, paid, seeded, locks, req>>
      /\ started' \in 0 .. MaxRequests
  BY SubscriptionsAssumption
  DEF DeleteSub, CountRequest, SubscriptionInv, TypeOK, money
<1>2. /\ row \in SubRows /\ row.state = "deleted" /\ row.last = subs[s].last
      /\ row.moved = subs[s].moved /\ row.next = subs[s].next
  BY <1>1 DEF SubRows
<1> HIDE DEF row
<1>3. /\ subs'[s] = row /\ subs' \in [Subs -> SubRows]
      /\ \A other \in Subs \ {s} : subs'[other] = subs[other]
  BY <1>1, <1>2 DEF TypeOK
<1>4. TypeOK'
  BY <1>1, <1>3 DEF TypeOK, locks
<1>5. ASSUME NEW q \in Requests
      PROVE  SameRows(q)
  BY <1>1, <1>3, FreeRow
  DEF SameRows, SubscriptionInv, RequestInv, ChecksHold
<1>6. QED
  BY <1>1, <1>2, <1>3, <1>4, <1>5, EditStep

LEMMA DeleteAccountStep ==
  ASSUME SubscriptionInv, NEW a \in Accounts, DeleteAccount(a)
  PROVE  SubscriptionInv'
<1>1. /\ TypeOK /\ accountLock[a] = None /\ open' = open \ {a}
      /\ UNCHANGED <<today, balance, paid, subs, seeded, locks, req, started>>
  BY DEF DeleteAccount, SubscriptionInv
<1>2. TypeOK'
  BY <1>1 DEF TypeOK, locks
<1>3. ASSUME NEW q \in Requests
      PROVE  SameRows(q)
  BY <1>1, SubscriptionsAssumption
  DEF SameRows, SubscriptionInv, RequestInv, ChecksHold
<1>4. QED
  BY <1>1, <1>2, <1>3, EditStep

LEMMA TickStep ==
  ASSUME SubscriptionInv, Tick
  PROVE  SubscriptionInv'
<1>1. /\ TypeOK /\ today' \in Calendar
      /\ UNCHANGED <<open, balance, paid, subs, seeded, locks, req, started>>
  BY DEF Tick, SubscriptionInv, money
<1>2. TypeOK'
  BY <1>1 DEF TypeOK, locks
<1>3. ASSUME NEW q \in Requests
      PROVE  SameRows(q)
  BY <1>1 DEF SameRows, SubscriptionInv, RequestInv, ChecksHold
<1>4. QED
  BY <1>1, <1>2, <1>3, EditStep

LEMMA QuietSubscriptions ==
  ASSUME SubscriptionInv, UNCHANGED vars
  PROVE  SubscriptionInv'
<1>1. UNCHANGED <<today, open, balance, paid, subs, seeded, locks, req, started>>
  BY DEF vars, locks
<1>2. TypeOK'
  BY <1>1 DEF SubscriptionInv, TypeOK, locks
<1>3. ASSUME NEW q \in Requests
      PROVE  SameRows(q)
  BY <1>1 DEF SameRows, SubscriptionInv, RequestInv, ChecksHold
<1>4. QED
  BY <1>1, <1>2, <1>3, EditStep

-----------------------------------------------------------------------------
(* The invariant.                                                          *)

LEMMA InitSubscriptionInv ==
  ASSUME Init
  PROVE  SubscriptionInv
<1>1. today \in Calendar
  <2>1. \E d \in Calendar : \A e \in Calendar : d <= e
    <3>1. Calendar \in SUBSET Nat /\ Calendar # {}
      BY CalendarDates, SubscriptionsAssumption
    <3>2. QED
      BY <3>1, LeastNatural
  <2>2. QED
    BY <2>1 DEF Init
<1>2. TypeOK
  <2>1. subs \in [Subs -> SubRows] /\ seeded \in BOOLEAN
    BY PlansAssumption DEF Init
  <2>2. req \in [Requests -> PayRequests]
    BY IdleRequestType DEF Init
  <2>3. /\ open \subseteq Accounts /\ balance \in [Accounts -> Int]
        /\ accountLock \in [Accounts -> Requests \union {None}]
        /\ subLock \in [Subs -> Requests \union {None}]
        /\ categoryLock \in Requests \union {None}
        /\ started \in 0 .. MaxRequests
    BY SubscriptionsAssumption DEF Init
  <2>4. paid \in [Subs -> Seq(Payments)]
    BY DEF Init
  <2>5. QED
    BY <1>1, <2>1, <2>2, <2>3, <2>4 DEF TypeOK
<1>3. \A s \in Subs : paid[s] = <<>>
  BY DEF Init
<1>4. PaymentsInv /\ OncePerCycle
  BY <1>3 DEF PaymentsInv, OncePerCycle
<1>5. CycleMatchesPayments
  <2>1. \A a \in Accounts : PaidInAll(a) = 0
    BY <1>3, PaidInAllZero
  <2>2. \A a \in Accounts : balance[a] = 0
    BY DEF Init
  <2>3. QED
    BY <1>3, <2>1, <2>2 DEF CycleMatchesPayments
<1>6. ASSUME NEW r \in Requests
      PROVE  RequestInv(r)
  <2>1. /\ req[r].pc = "idle" /\ categoryLock # r
        /\ \A a \in Accounts : accountLock[a] # r
        /\ \A s \in Subs : subLock[s] # r
    BY SubscriptionsAssumption DEF Init, IdleRequest
  <2>2. QED
    BY <2>1 DEF RequestInv, Asked, HoldsOnly, ChecksHold, Booking, Paying
<1>7. QED
  BY <1>2, <1>4, <1>5, <1>6 DEF SubscriptionInv

LEMMA HandlerKeepsInv ==
  ASSUME SubscriptionInv, NEW r \in Requests, Handler(r)
  PROVE  SubscriptionInv'
<1>1. CASE Pay(r)  BY <1>1, PayStep
<1>2. CASE LockAccount(r)  BY <1>2, LockAccountStep
<1>3. CASE LockSub(r)  BY <1>3, LockSubStep
<1>4. CASE SeedCategory(r)  BY <1>4, SeedCategoryStep
<1>5. CASE CommitPay(r)  BY <1>5, CommitPayStep
<1>6. CASE Timeout(r)  BY <1>6, AbortStep DEF Timeout
<1>7. CASE DeleteCategory(r)  BY <1>7, DeleteCategoryStep
<1>8. CASE LockCategory(r)  BY <1>8, LockCategoryStep
<1>9. CASE LockLinked(r)  BY <1>9, LockLinkedStep
<1>10. CASE CommitDrop(r)  BY <1>10, CommitDropStep
<1>11. CASE DeadlockVictim(r)  BY <1>11, AbortStep DEF DeadlockVictim
<1>12. QED
  BY <1>1, <1>2, <1>3, <1>4, <1>5, <1>6, <1>7, <1>8, <1>9, <1>10, <1>11 DEF Handler

LEMMA NextKeepsInv ==
  ASSUME SubscriptionInv, [Next]_vars
  PROVE  SubscriptionInv'
<1>1. CASE \E r \in Requests : Handler(r)
  BY <1>1, HandlerKeepsInv
<1>2. ASSUME NEW s \in Subs, CreateSub(s) \/ PatchSub(s) \/ DeleteSub(s)
      PROVE  SubscriptionInv'
  BY <1>2, CreateSubStep, PatchSubStep, DeleteSubStep
<1>3. ASSUME NEW a \in Accounts, DeleteAccount(a)
      PROVE  SubscriptionInv'
  BY <1>3, DeleteAccountStep
<1>4. CASE Tick
  BY <1>4, TickStep
<1>5. CASE Drained \/ UNCHANGED vars
  BY <1>5, QuietSubscriptions DEF Drained
<1>6. QED
  BY <1>1, <1>2, <1>3, <1>4, <1>5 DEF Next

\* Whatever pay requests, edits and deletions interleave, and wherever they
\* time out or are cancelled, a request that may pay still holds what it
\* checked and the payments made determine the next cycle.
THEOREM SubscriptionInvHolds == Spec => []SubscriptionInv
<1>1. Init => SubscriptionInv
  BY InitSubscriptionInv
<1>2. SubscriptionInv /\ [Next]_vars => SubscriptionInv'
  BY NextKeepsInv
<1>3. QED
  BY <1>1, <1>2, PTL DEF Spec

\* Rows, dates, locks and requests keep their shape.
THEOREM SubscriptionTypes == Spec => []TypeOK
<1>1. SubscriptionInv => TypeOK
  BY DEF SubscriptionInv
<1>2. QED
  BY <1>1, SubscriptionInvHolds, PTL

\* No due date is paid twice (pay_subscription_handler).
THEOREM PaidOncePerCycle == Spec => []OncePerCycle
<1>1. SubscriptionInv => OncePerCycle
  BY DEF SubscriptionInv
<1>2. QED
  BY <1>1, SubscriptionInvHolds, PTL

\* The subscription, its movements and the balances tell the same story.
THEOREM BooksAgree == Spec => []CycleMatchesPayments
<1>1. SubscriptionInv => CycleMatchesPayments
  BY DEF SubscriptionInv
<1>2. QED
  BY <1>1, SubscriptionInvHolds, PTL

-----------------------------------------------------------------------------
(* What a payment commits is true when it commits.                         *)

LEMMA OnlyCommitsPay ==
  ASSUME [Next]_vars, paid' # paid
  PROVE  \E r \in Requests : CommitPay(r)
BY DEF Next, Handler, vars, money, Begin, Pay, LockAccount, LockSub, SeedCategory,
       Timeout, Abort, DeleteCategory, LockCategory, LockLinked, CommitDrop,
       DeadlockVictim, CreateSub, PatchSub, DeleteSub, DeleteAccount, Tick, Drained

\* A PATCH that cancels or reprices a subscription, or a DELETE of it or of
\* the account, has no payment slip through.
THEOREM PaymentsAreTrue == Spec => PaidAsStored
<1> DEFINE AsStored ==
      \A s \in Subs : paid'[s] # paid[s] =>
        LET p == Last(paid'[s])
        IN  /\ subs[s].state = "live" /\ subs[s].active
            /\ p.amount = subs[s].price /\ p.amount > 0
            /\ p.account \in open /\ Currency[p.account] = Currency[s]
<1>1. ASSUME SubscriptionInv, [Next]_vars
      PROVE  [AsStored]_vars
  <2> SUFFICES ASSUME NEW s \in Subs, paid'[s] # paid[s]
               PROVE  LET p == Last(paid'[s])
                      IN  /\ subs[s].state = "live" /\ subs[s].active
                          /\ p.amount = subs[s].price /\ p.amount > 0
                          /\ p.account \in open /\ Currency[p.account] = Currency[s]
    OBVIOUS
  <2>1. PICK r \in Requests : CommitPay(r)
    BY <1>1, OnlyCommitsPay
  <2> DEFINE p == Payment(r)
  <2>2. /\ req[r].pc = "commit" /\ paid \in [Subs -> Seq(Payments)]
        /\ paid' = [paid EXCEPT ![req[r].sub] = Append(@, p)]
    BY <1>1, <2>1 DEF CommitPay, SubscriptionInv, TypeOK
  <2>3. /\ req[r].sub \in Subs /\ p \in Payments
        /\ p.account = req[r].account /\ p.amount = subs[req[r].sub].price
    BY <1>1, <2>2, PaymentFacts
  <2>4. /\ subs[req[r].sub].state = "live" /\ Payable(r)
        /\ req[r].account \in open
    BY <1>1, <2>2 DEF SubscriptionInv, RequestInv, ChecksHold, Booking, Paying
  <2> HIDE DEF p
  <2>5. s = req[r].sub
    BY <2>2, <2>3
  <2>6. Last(paid'[s]) = p
    BY <2>2, <2>3, <2>5, AppendPayment
  <2>7. QED
    BY <2>3, <2>4, <2>5, <2>6 DEF Payable
<1>2. QED
  BY <1>1, SubscriptionInvHolds, PTL DEF Spec, PaidAsStored

-----------------------------------------------------------------------------
(* The next billing date is the one the calendar defines.                  *)

\* A step leaves a due date, or puts it on or after a day of the calendar.
LEMMA DueDatesMoveOn ==
  ASSUME SubscriptionInv, [Next]_vars, NEW s \in Subs
  PROVE  \/ subs'[s].next = subs[s].next
         \/ \E day \in Calendar : subs'[s].next \in Nat /\ day <= subs'[s].next
<1>1. subs[s] \in SubRows /\ subs \in [Subs -> SubRows]
  BY DEF SubscriptionInv, TypeOK
<1>2. ASSUME NEW r \in Requests, CommitPay(r)
      PROVE  \/ subs'[s].next = subs[s].next
             \/ \E day \in Calendar : subs'[s].next \in Nat /\ day <= subs'[s].next
  <2>1. /\ req[r].pc = "commit"
        /\ subs' = [subs EXCEPT ![req[r].sub] = NextRow(@, req[r].today)]
    BY <1>2 DEF CommitPay
  <2>2. CASE s = req[r].sub
    <3> DEFINE next == AdvanceNextBilling(subs[s].next, req[r].today)
    <3>1. subs'[s].next = next
      BY <1>1, <2>1, <2>2 DEF NextRow, SubRows
    <3>2. Payment(r).next = next /\ Payment(r) \in Payments
          /\ Payment(r).on = req[r].today /\ next > Payment(r).on
      BY <2>1, <2>2, PaymentFacts
    <3>3. req[r].today \in Calendar
      BY <2>1 DEF SubscriptionInv, RequestInv, Asked
    <3> HIDE DEF next
    <3>4. next \in Nat /\ req[r].today \in Nat
      BY <3>2, <3>3, CalendarDates DEF Payments, Dates
    <3>5. QED
      BY <3>1, <3>2, <3>3, <3>4
  <2>3. CASE s # req[r].sub
    BY <1>1, <2>1, <2>3
  <2>4. QED
    BY <2>2, <2>3
<1>3. ASSUME NEW t \in Subs, CreateSub(t)
      PROVE  subs'[s].next = subs[s].next \/ subs'[s].next \in Calendar
  BY <1>1, <1>3 DEF CreateSub, CreateBody, SubRow
<1>4. ASSUME NEW t \in Subs, PatchSub(t)
      PROVE  subs'[s].next = subs[s].next \/ subs'[s].next \in Calendar
  <2>1. PICK body \in PatchBody : subs' = [subs EXCEPT ![t] = Updated(@, body)]
    BY <1>4 DEF PatchSub
  <2>2. CASE s = t
    <3>1. subs'[s] = Updated(subs[s], body)
      BY <1>1, <2>1, <2>2
    <3>2. "next" \in DOMAIN body => body["next"] \in Calendar
      BY DEF PatchBody
    <3>3. Updated(subs[s], body)["next"] =
            IF "next" \in DOMAIN body THEN body["next"] ELSE subs[s]["next"]
      BY <1>1 DEF Updated, SubRows
    <3>4. QED
      BY <3>1, <3>2, <3>3
  <2>3. CASE s # t
    BY <1>1, <2>1, <2>3
  <2>4. QED
    BY <2>2, <2>3
<1>5. ASSUME NEW t \in Subs, DeleteSub(t)
      PROVE  subs'[s].next = subs[s].next
  BY <1>1, <1>5 DEF DeleteSub, SubRows
<1>6. ASSUME NEW r \in Requests, CommitDrop(r)
      PROVE  subs'[s].next = subs[s].next
  BY <1>1, <1>6 DEF CommitDrop, SubRows
<1>7. ASSUME NEW r \in Requests, Handler(r), ~CommitPay(r), ~CommitDrop(r)
      PROVE  subs' = subs
  BY <1>7 DEF Handler, Begin, Pay, LockAccount, LockSub, SeedCategory, Timeout,
              Abort, DeleteCategory, LockCategory, LockLinked, DeadlockVictim
<1>8. ASSUME (\E a \in Accounts : DeleteAccount(a)) \/ Tick \/ Drained \/ UNCHANGED vars
      PROVE  subs' = subs
  BY <1>8 DEF DeleteAccount, Tick, Drained, vars
<1>9. \A day \in Calendar : day \in Nat /\ day <= day
  BY CalendarDates
<1>10. QED
  BY <1>2, <1>3, <1>4, <1>5, <1>6, <1>7, <1>8, <1>9 DEF Next

LEMMA FirstDatesAreDates == \A d \in FirstDates \ {None} : d \in Nat /\ IsDate(d)
BY CalendarDates, PlansAssumption DEF FirstDates, SubRows, MaybeDates, Dates

LEMMA DatesStayRecent ==
  ASSUME SubscriptionInv, DatesInv, [Next]_vars
  PROVE  DatesInv'
<1> SUFFICES ASSUME NEW s \in Subs, subs'[s].next # None
             PROVE  \E d \in FirstDates \ {None} :
                      MonthOf(d) <= MonthOf(subs'[s].next)
  BY DEF DatesInv
<1>1. CASE subs'[s].next = subs[s].next
  BY <1>1 DEF DatesInv
<1>2. ASSUME NEW day \in Calendar, subs'[s].next \in Nat, day <= subs'[s].next
      PROVE  \E d \in FirstDates \ {None} : MonthOf(d) <= MonthOf(subs'[s].next)
  <2>1. day \in Nat /\ day \in FirstDates \ {None}
    BY CalendarDates, NoDateIsNone DEF FirstDates
  <2>2. MonthOf(day) <= MonthOf(subs'[s].next)
    BY <1>2, <2>1, LaterMonth
  <2>3. QED
    BY <2>1, <2>2
<1>3. QED
  BY <1>1, <1>2, DueDatesMoveOn

LEMMA NextBillingFromDates ==
  ASSUME WithinCatchUp, TypeOK, DatesInv
  PROVE  NextBillingIsExact
<1> SUFFICES ASSUME NEW s \in Subs, subs[s].next # None
             PROVE  IsNextBilling(AdvanceNextBilling(subs[s].next, today),
                                  subs[s].next, today)
  BY DEF NextBillingIsExact
<1> DEFINE stored == subs[s].next
<1>1. stored \in Nat /\ IsDate(stored) /\ today \in Calendar
  BY DEF TypeOK, SubRows, MaybeDates, Dates
<1>2. PICK d \in FirstDates \ {None} : MonthOf(d) <= MonthOf(stored)
  BY DEF DatesInv
<1>3. d \in Nat /\ today \in Nat /\ IsDate(today)
  BY <1>1, FirstDatesAreDates, CalendarDates
<1>4. MonthOf(today) < MonthOf(d) + MAX_CATCH_UP_MONTHS
  BY <1>1 DEF WithinCatchUp
<1>5. MonthOf(d) \in Nat /\ MonthOf(stored) \in Nat /\ MonthOf(today) \in Nat
  BY <1>1, <1>3, LaterMonth
<1> HIDE DEF stored
<1>6. MonthOf(today) < MonthOf(stored) + MAX_CATCH_UP_MONTHS
  BY <1>2, <1>4, <1>5 DEF MAX_CATCH_UP_MONTHS
<1>7. QED
  BY <1>1, <1>3, <1>6, NextBillingFound DEF stored

\* Unless a subscription sleeps for longer than the catch-up looks ahead, the
\* billing date is always the one the calendar defines (advance_next_billing).
THEOREM BillingIsExact ==
  ASSUME WithinCatchUp
  PROVE  Spec => []NextBillingIsExact
<1>1. Init => DatesInv
  <2> SUFFICES ASSUME Init, NEW s \in Subs, subs[s].next # None
               PROVE  \E d \in FirstDates \ {None} :
                        MonthOf(d) <= MonthOf(subs[s].next)
    BY DEF DatesInv
  <2>1. subs[s].next \in FirstDates \ {None}
    BY DEF Init, FirstDates
  <2>2. MonthOf(subs[s].next) \in Nat
    BY <2>1, FirstDatesAreDates, LaterMonth
  <2>3. QED
    BY <2>1, <2>2
<1>2. SubscriptionInv /\ DatesInv /\ [Next]_vars => DatesInv'
  BY DatesStayRecent
<1>3. SubscriptionInv /\ DatesInv => NextBillingIsExact
  BY WithinCatchUp, NextBillingFromDates DEF SubscriptionInv
<1>4. QED
  BY <1>1, <1>2, <1>3, SubscriptionInvHolds, PTL DEF Spec
==============================================================================
