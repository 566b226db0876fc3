-------------------------------- MODULE Habits --------------------------------
(***************************************************************************)
(* Habits and their daily logs (routes/habits.rs).                         *)
(***************************************************************************)
EXTENDS Planner

VARIABLES habits, logs

Habit == [state : States, mask : SUBSET (0 .. 6),
          start : Nat \union {None}, end : Nat \union {None},
          category : Categories \union {None}]
NoHabit == [state |-> "unused", mask |-> {}, start |-> None, end |-> None,
            category |-> None]
NoLogs == [d \in Days |-> None]

\* What the handlers let through: of a habit, and of a log.
HabitBody == {b \in Body : b.habit = None /\ b.date = None /\ b.status = None}
LogBody == {b \in Body : b.date # None /\ b.status \in HABIT_LOG_STATUSES
                         /\ b.habit = None /\ b.category = None}
ASSUME HabitBodiesAssumption ==
  /\ Bodies["create_habit"] \union Bodies["patch_habit"] \subseteq HabitBody
  /\ Bodies["log"] \subseteq LogBody

HabitsTypeOK == habits \in [Habits -> Habit] /\ logs \in [Habits -> Logs]

MyHabit(h) == h \in OwnHabits /\ habits[h].state = "live"
\* GET /habits
list_habits == {h \in OwnHabits : MyHabit(h)}

\* GET /habits/:id/streak: the mask of the habit, then the query over its logs.
get_streak(h) == current_streak(logs[h], habits[h].mask)

\* GET /habits/logs?from=&to=: at most 366 days, the first not after the last.
parse_logs_range(from, to) == from <= to /\ to - from <= 365
list_logs_range(from, to) ==
  {log \in OwnHabits \X Days :
     logs[log[1]][log[2]] # None /\ from <= log[2] /\ log[2] <= to}

\* validate_date_range: the end may be the start.
ValidDates(start, end) == end # None => end >= start

\* POST /habits
create_habit(r) ==
  \E body \in Bodies["create_habit"] :
    \E start \in FirstDays(body) :
      /\ ValidDates(start, body.end)
      /\ Start(r, "create_habit", None, [body EXCEPT !.start = start], AfterLink(body))
      /\ UNCHANGED <<habits, logs>>

InsertHabit(r) ==
  LET body == req[r].body
  IN  /\ req[r].pc = "write" /\ req[r].op = "create_habit"
      /\ IF CategoryExists(r) /\ \E h \in OwnHabits : habits[h].state = "unused"
         THEN \E h \in OwnHabits :
                /\ habits[h].state = "unused"
                /\ habits' = [habits EXCEPT ![h] =
                     [state |-> "live", mask |-> body.mask, start |-> body.start,
                      end |-> body.end, category |-> body.category]]
         ELSE UNCHANGED habits
      /\ End(r)
      /\ UNCHANGED logs

\* PATCH /habits/:id.  start_date, frequency and days_of_week never change.
patch_habit(r) ==
  \E body \in Bodies["patch_habit"], h \in Habits :
    /\ Start(r, "patch_habit", h, body, "read")
    /\ UNCHANGED <<habits, logs>>
ReadHabit(r) ==
  LET h == req[r].id
      body == req[r].body
  IN  /\ req[r].pc = "read" /\ req[r].op = "patch_habit"
      /\ IF MyHabit(h) /\ ValidDates(habits[h].start, Given(body.end, habits[h].end))
         THEN Goto(r, AfterLink(body)) ELSE End(r)
      /\ UNCHANGED <<habits, logs>>
UpdateHabit(r) ==
  LET h == req[r].id
      body == req[r].body
  IN  /\ req[r].pc = "write" /\ req[r].op = "patch_habit"
      /\ habits' = IF MyHabit(h) /\ CategoryExists(r)
                   THEN [habits EXCEPT ![h].end = Given(body.end, @),
                                       ![h].category = Given(body.category, @)]
                   ELSE habits
      /\ End(r)
      /\ UNCHANGED logs

\* DELETE /habits/:id takes the logs along (ON DELETE CASCADE).
delete_habit(h) ==
  /\ MyHabit(h)
  /\ habits' = [habits EXCEPT ![h] = [NoHabit EXCEPT !.state = "deleted"]]
  /\ logs' = [logs EXCEPT ![h] = NoLogs]

LogOps == {"create_log", "patch_log", "delete_log"}
\* Mutant: any calendar date.
AnyDate(date) == date \in Days
\* No day after today in Bogota; the past is open.
validate_log_date(date) == date <= today
\* POST, PATCH and DELETE of /habits/:id/logs
write_log(r) ==
  \E op \in LogOps, body \in Bodies["log"], h \in Habits :
    /\ validate_log_date(body.date)
    /\ Start(r, op, h, body, "owner")
    /\ UNCHANGED <<habits, logs>>
\* ensure_habit_writable
CheckHabit(r) ==
  /\ req[r].pc = "owner"
  /\ IF MyHabit(req[r].id) THEN Goto(r, "write") ELSE End(r)
  /\ UNCHANGED <<habits, logs>>
\* UNIQUE (habit_id, log_date): a second POST is a 409; a PATCH of no row is a
\* 404; a DELETE of no row is a 204 like any other.  A habit that is gone by
\* now has no logs and gets none.
WriteLog(r) ==
  LET h == req[r].id
      d == req[r].body.date
      new == IF req[r].op = "delete_log" THEN None ELSE req[r].body.status
  IN  /\ req[r].pc = "write" /\ req[r].op \in LogOps
      /\ logs' = IF MyHabit(h) /\ (req[r].op = "create_log" <=> logs[h][d] = None)
                 THEN [logs EXCEPT ![h][d] = new] ELSE logs
      /\ End(r)
      /\ UNCHANGED habits

HabitStarts(r) == create_habit(r) \/ patch_habit(r) \/ write_log(r)
HabitSteps(r) == InsertHabit(r) \/ ReadHabit(r) \/ UpdateHabit(r)
                 \/ CheckHabit(r) \/ WriteLog(r)
===============================================================================
