-------------------------------- MODULE Streak --------------------------------
(***************************************************************************)
(* The streak of a habit (routes/habits.rs, STREAK_SQL and TODAY_SQL): the *)
(* gaps-and-islands query, row number by row number, and what its comment  *)
(* says it counts.  Days are numbered; day 0 was a Sunday.                 *)
(***************************************************************************)
EXTENDS Naturals, FiniteSetsExt

CONSTANTS
  Days,   \* the days a log can be of
  None    \* SQL NULL: no log, no end, no category

HABIT_LOG_STATUSES == {"done", "missed", "skipped"}
\* not_done is legacy: still read, no longer written.
Statuses == HABIT_LOG_STATUSES \union {"not_done"}
\* The calendar has no gaps.
ASSUME DaysAssumption ==
  /\ Days \subseteq Nat /\ IsFiniteSet(Days) /\ None \notin Nat \union Statuses
  /\ \A first, last \in Days : first .. last \subseteq Days

Logs == [Days -> Statuses \union {None}]

\* An empty mask is every day; 0 = Sunday .. 6 = Saturday.
Scheduled(d, mask) == mask = {} \/ (d % 7) \in mask

\* Mutant: skipped days bridge nothing.
NoBridge(logs, mask) ==
  LET Kept == {d \in Days : logs[d] # None /\ Scheduled(d, mask)}
      nonskip == {d \in Kept : logs[d] # "skipped"}
      rn(d) == Cardinality({e \in nonskip : e >= d})
      cut == {rn(d) : d \in {e \in nonskip : \/ logs[e] \in {"missed", "not_done"}
                                             \/ e + rn(e) - 1 # Max(Kept)}}
  IN  (IF cut = {} THEN Cardinality(nonskip) + 1 ELSE Min(cut)) - 1

\* STREAK_SQL.  The masked logs, without the skipped ones numbered from the
\* newest, are cut at the first that is missed or is not on the day its number
\* and the skips after it put it on, counted back from the newest log.
current_streak(logs, mask) ==
  LET masked == {d \in Days : logs[d] # None /\ Scheduled(d, mask)}
      nonskip == {d \in masked : logs[d] # "skipped"}
      anchor == Max(masked)
      rn(d) == Cardinality({e \in nonskip : e >= d})
      skipped_after(d) == Cardinality({e \in masked \ nonskip : e > d})
      cut == {rn(d) : d \in {e \in nonskip :
                \/ logs[e] \in {"missed", "not_done"}
                \/ e + (rn(e) - 1 + skipped_after(e)) # anchor}}
  IN  (IF cut = {} THEN Cardinality(nonskip) + 1 ELSE Min(cut)) - 1

\* TODAY_SQL: the log of the day; without one the day is pending, or off.
today_status(logs, mask, day) ==
  IF logs[day] # None THEN logs[day]
  ELSE IF Scheduled(day, mask) THEN "pending" ELSE "skipped"

\* What the comment of the module says: count the done days, past skipped days,
\* up to the first scheduled day that is missed or has no log.  Days off the
\* schedule are ignored.  That the count starts from the newest log, however old
\* it is, the comment leaves open; the tests of the handler, which log fixed days
\* of the past, rely on it.
Unbroken(logs, mask, d) ==
  LET newest == Max({e \in Days : logs[e] # None /\ Scheduled(e, mask)})
  IN  \A e \in d .. newest : Scheduled(e, mask) => logs[e] \in {"done", "skipped"}
StreakAsDocumented(logs, mask) ==
  Cardinality({d \in Days : /\ logs[d] = "done" /\ Scheduled(d, mask)
                            /\ Unbroken(logs, mask, d)})
===============================================================================
