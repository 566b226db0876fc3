------------------------------- MODULE GoalDates -------------------------------
(***************************************************************************)
(* The dates and the category of goals (routes/goals.rs).  Their tasks and *)
(* their progress are module GoalProgress's.                               *)
(***************************************************************************)
EXTENDS Planner

CONSTANT Goals

VARIABLE goals

\* raced: history, whether a PATCH wrote it over other dates than it had
\* validated its own against.
Goal == [state : States, start : Nat \union {None}, end : Nat \union {None},
         category : Categories \union {None}, raced : BOOLEAN]
NoGoal == [state |-> "unused", start |-> None, end |-> None, category |-> None,
           raced |-> FALSE]

\* What the handlers let through; end is the due date.
GoalBody == {b \in Body : b.habit = None /\ b.mask = {} /\ b.date = None
                          /\ b.status = None}
ASSUME GoalBodiesAssumption ==
  Bodies["create_goal"] \union Bodies["patch_goal"] \subseteq GoalBody

GoalsTypeOK == goals \in [Goals -> Goal]

\* GET /goals
list_goals == {g \in Goals : goals[g].state = "live"}

\* validate_date_range: due on the first day at the earliest.
DueInTime(start, due) == due # None => due >= start

\* POST /goals.  As for a habit, the default is the UTC day.
create_goal(r) ==
  \E body \in Bodies["create_goal"] :
    \E start \in FirstDays(body) :
      /\ DueInTime(start, body.end)
      /\ Start(r, "create_goal", None, [body EXCEPT !.start = start], AfterLink(body))
      /\ UNCHANGED goals
InsertGoal(r) ==
  LET body == req[r].body
  IN  /\ req[r].pc = "write" /\ req[r].op = "create_goal"
      /\ IF CategoryExists(r) /\ \E g \in Goals : goals[g].state = "unused"
         THEN \E g \in Goals :
                /\ goals[g].state = "unused"
                /\ goals' = [goals EXCEPT ![g] =
                     [state |-> "live", start |-> body.start, end |-> body.end,
                      category |-> body.category, raced |-> FALSE]]
         ELSE UNCHANGED goals
      /\ End(r)

\* PATCH /goals/:id: start and due date, each new or as the row had it when it
\* was read.
patch_goal(r) ==
  \E body \in Bodies["patch_goal"], g \in Goals :
    /\ Start(r, "patch_goal", g, body, "read")
    /\ UNCHANGED goals
\* Mutant: the new due date is compared with a new start only.
DueAsSent(body, row) == body.start # None => DueInTime(body.start, body.end)
MergedDue(body, row) ==
  DueInTime(Given(body.start, row.start), Given(body.end, row.end))
ReadGoal(r) ==
  LET g == req[r].id
      body == req[r].body
  IN  /\ req[r].pc = "read" /\ req[r].op = "patch_goal"
      /\ IF g \in list_goals /\ MergedDue(body, goals[g])
         THEN Validated(r, AfterLink(body), DatesOf(goals[g])) ELSE End(r)
      /\ UNCHANGED goals
UpdateGoal(r) ==
  LET g == req[r].id
      body == req[r].body
  IN  /\ req[r].pc = "write" /\ req[r].op = "patch_goal"
      /\ goals' = IF g \in list_goals /\ CategoryExists(r)
                  THEN [goals EXCEPT
                          ![g].start = Given(body.start, @),
                          ![g].end = Given(body.end, @),
                          ![g].category = Given(body.category, @),
                          ![g].raced = @ \/ req[r].snap # DatesOf(goals[g])]
                  ELSE goals
      /\ End(r)

\* DELETE /goals/:id
delete_goal(g) ==
  /\ g \in list_goals
  /\ goals' = [goals EXCEPT ![g] = [NoGoal EXCEPT !.state = "deleted"]]

GoalStarts(r) == create_goal(r) \/ patch_goal(r)
GoalSteps(r) == InsertGoal(r) \/ ReadGoal(r) \/ UpdateGoal(r)
===============================================================================
