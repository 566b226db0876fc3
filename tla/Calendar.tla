------------------------------- MODULE Calendar -------------------------------
(***************************************************************************)
(* The calendar units of GET /movements/summary (routes/movements.rs): the *)
(* first and last day of the unit of a date, the next unit, and the        *)
(* buckets a window is cut into.  Dates are numbered as in BillingDates.   *)
(***************************************************************************)
EXTENDS BillingDates, FiniteSetsExt

SummaryGroups == {"day", "week", "month", "year"}

\* 2024-12-30, a Monday: the day the weekdays are counted from.
AMonday == DateOf(12 * 2024 + 11, 30)
Days(from, to) == Cardinality({d \in from .. to - 1 : IsDate(d)})
Weekday(d) == IF d >= AMonday THEN Days(AMonday, d) % 7
              ELSE (7 - (Days(d, AMonday) % 7)) % 7
\* chrono's checked_add_days and checked_sub_days, by less than two weeks.
AddDays(d, n) == CHOOSE e \in d .. d + n + 3 : IsDate(e) /\ Days(d, e) = n
SubDays(d, n) == CHOOSE e \in d - n - 3 .. d : IsDate(e) /\ Days(e, d) = n

JanuaryOf(d) == MonthOf(d) - (MonthOf(d) % 12)

\* Mutant: a week starts on Sunday.
SundayStart(group, d) ==
  CASE group = "day"   -> d
    [] group = "week"  -> SubDays(d, (Weekday(d) + 1) % 7)
    [] group = "month" -> DateOf(MonthOf(d), 1)
    [] group = "year"  -> DateOf(JanuaryOf(d), 1)
\* First day of the unit; a week starts on Monday.
summary_unit_start(group, d) ==
  CASE group = "day"   -> d
    [] group = "week"  -> SubDays(d, Weekday(d))
    [] group = "month" -> DateOf(MonthOf(d), 1)
    [] group = "year"  -> DateOf(JanuaryOf(d), 1)

\* Mutant: every month has thirty days.
ThirtyDays(group, start) ==
  CASE group = "day"   -> start
    [] group = "week"  -> AddDays(start, 6)
    [] group = "month" -> start + 29
    [] group = "year"  -> DateOf(MonthOf(start) + 11, 31)
\* Last day of the unit that starts at start.
summary_unit_end(group, start) ==
  CASE group = "day"   -> start
    [] group = "week"  -> AddDays(start, 6)
    [] group = "month" -> DateOf(MonthOf(start), LastDay(MonthOf(start)))
    [] group = "year"  -> DateOf(MonthOf(start) + 11, 31)

\* First day of the next unit.
next_summary_unit_start(group, start) ==
  CASE group = "day"   -> AddDays(start, 1)
    [] group = "week"  -> AddDays(start, 7)
    [] group = "month" -> AddMonthsClamped(start, 1)
    [] group = "year"  -> DateOf(MonthOf(start) + 12, 1)

\* The starts of the units that meet the window, one after the other.
summary_bucket_windows(group, from, to) ==
  LET start[n \in 0 .. to - from] ==
        IF n = 0 THEN summary_unit_start(group, from)
        ELSE next_summary_unit_start(group, start[n - 1])
      last == CHOOSE n \in 0 .. to - from :
                /\ start[n] <= to
                /\ n = to - from \/ start[n + 1] > to
  IN  {[from |-> start[n], to |-> summary_unit_end(group, start[n])] : n \in 0 .. last}

\* PostgreSQL's date_trunc, said of dates: the last first day up to d.
FirstDay(group, e) ==
  CASE group = "day"   -> TRUE
    [] group = "week"  -> Weekday(e) = 0
    [] group = "month" -> DayOf(e) = 1
    [] group = "year"  -> DayOf(e) = 1 /\ MonthOf(e) % 12 = 0
date_trunc(group, d) ==
  LET span == IF group = "year" THEN 371 ELSE 31
  IN  Max({e \in d - span .. d : IsDate(e) /\ FirstDay(group, e)})
===============================================================================
