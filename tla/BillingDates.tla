---------------------------- MODULE BillingDates -----------------------------
(***************************************************************************)
(* The cycle mathematics of subscriptions (finance/dates.rs).  A date is   *)
(* the number 31 * month + day - 1, where month counts from January of     *)
(* year 0: dates compare as numbers, and some numbers are no date.         *)
(***************************************************************************)
EXTENDS Integers

CONSTANT None  \* SQL NULL: never billed, never paid

ASSUME NoDateIsNone == None \notin Int

\* The longest catch-up of a dormant subscription, in months.
MAX_CATCH_UP_MONTHS == 1200

DateOf(month, day) == 31 * month + day - 1
MonthOf(d) == d \div 31
DayOf(d)   == (d % 31) + 1

\* last_day_of_month; January is 0.
IsLeap(year) == year % 4 = 0 /\ (year % 100 # 0 \/ year % 400 = 0)
LastDay(month) ==
  LET year == month \div 12
      name == month % 12
  IN  IF name = 1 THEN (IF IsLeap(year) THEN 29 ELSE 28)
      ELSE IF name \in {3, 5, 8, 10} THEN 30 ELSE 31

IsDate(d) == d \in Nat /\ DayOf(d) <= LastDay(MonthOf(d))
Earlier(a, b) == IF a <= b THEN a ELSE b
Later(a, b)   == IF a <= b THEN b ELSE a

\* Mutant: the day is not clamped to the month it lands in.
AddMonths(base, months) == DateOf(MonthOf(base) + months, DayOf(base))
\* The day comes from base, clamped to the last day of the target month.
AddMonthsClamped(base, months) ==
  LET month == MonthOf(base) + months
  IN  DateOf(month, Earlier(DayOf(base), LastDay(month)))

\* Mutant: the first monthly occurrence after the payment, which is the due
\* date itself when the payment is early.
AdvanceFromPayDate(stored, payDate) ==
  IF stored = None THEN AddMonthsClamped(payDate, 1)
  ELSE LET k == CHOOSE k \in 0 .. MAX_CATCH_UP_MONTHS :
                  /\ AddMonthsClamped(stored, k) > payDate
                  /\ \A j \in 0 .. k - 1 : AddMonthsClamped(stored, j) <= payDate
       IN  AddMonthsClamped(stored, k)

\* The first occurrence, in whole months from the stored due date, strictly
\* after both the payment and the stored date.
AdvanceNextBilling(stored, payDate) ==
  IF stored = None THEN AddMonthsClamped(payDate, 1)
  ELSE LET threshold == Later(payDate, stored)
           Found(k) == AddMonthsClamped(stored, k) > threshold
       IN  IF \A k \in 1 .. MAX_CATCH_UP_MONTHS : ~Found(k)
           THEN AddMonthsClamped(payDate, 1)
           ELSE AddMonthsClamped(stored,
                  CHOOSE k \in 1 .. MAX_CATCH_UP_MONTHS :
                    Found(k) /\ \A j \in 1 .. k - 1 : ~Found(j))

\* What the billing date after a payment should be, said of dates and not of
\* steps: the least date after payment and due date that falls on the due day,
\* or on the last day of a month too short for it.
OnDueDay(d, stored) ==
  IsDate(d) /\ DayOf(d) = Earlier(DayOf(stored), LastDay(MonthOf(d)))
IsNextBilling(d, stored, payDate) ==
  /\ OnDueDay(d, stored)
  /\ d > stored /\ d > payDate
  /\ \A e \in Later(stored, payDate) + 1 .. d - 1 : ~OnDueDay(e, stored)
==============================================================================
