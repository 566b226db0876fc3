--------------------------- MODULE AgendaInvariant ---------------------------
(***************************************************************************)
(* The inductive invariant of Agenda: the rows are in order, and what a    *)
(* handler has looked up still says enough when it writes.                 *)
(***************************************************************************)
EXTENDS Agenda

\* No log outlives its habit or is of a day to come.
RowsInv ==
  /\ \A h \in OwnHabits : HabitInOrder(habits[h], MyCategories)
  /\ \A h \in Habits, d \in Days : logs[h][d] # None => MyHabit(h) /\ d <= today
  /\ \A g \in Goals : GoalInOrder(goals[g], MyCategories)
  /\ \A e \in Events : EventInOrder(events[e], MyCategories, list_habits)
  /\ \A n \in Notes : NoteInOrder(notes[n], MyCategories)

\* What the request says: which row it is about, and what its body left out.
HabitOps == {"create_habit", "patch_habit"}
GoalOps == {"create_goal", "patch_goal"}
EventOps == {"create_event", "patch_event"}
SaysItsRow(q) ==
  /\ q.pc = "owner" => q.op \in LogOps
  /\ q.op \in LogOps => /\ q.id \in Habits /\ q.body.category = None
                        /\ q.body.date \in Days /\ q.body.date <= today
  /\ q.op \notin EventOps => q.body.habit = None
  /\ q.op = "patch_habit" => q.id \in Habits
  /\ q.op = "patch_goal" => q.id \in Goals
  /\ q.op = "patch_event" => q.id \in Events
  /\ q.op = "patch_note" => q.id \in Notes

\* After its lookup, a category is the user's own and of the kind the operation
\* wants, and a habit is the user's own, even if either has been deleted since.
KnowsItsLinks(q) ==
  /\ q.pc = "write" /\ q.body.category # None =>
       /\ q.body.category \in OwnCategories
       /\ q.op \in HabitOps => KindOf[q.body.category] = "habit"
       /\ q.op \in GoalOps => KindOf[q.body.category] = "goal"
  /\ q.pc \in {"category", "write"} /\ q.body.habit # None => q.body.habit \in OwnHabits

\* A create has a valid range.  After a PATCH has read the row, its body is
\* valid with the dates it read; the start of a habit is still the one it read.
KnowsItsDates(q) ==
  /\ q.op = "create_habit" => /\ q.body.start \in Nat
                              /\ ValidDates(q.body.start, q.body.end)
  /\ q.op = "create_goal" => /\ q.body.start \in Nat
                             /\ DueInTime(q.body.start, q.body.end)
  /\ q.op = "create_event" => /\ q.body.start \in Nat
                              /\ ValidRange(q.body.start, q.body.end)
  /\ q.op = "patch_habit" /\ q.pc # "read" =>
       /\ habits[q.id].state # "unused"
       /\ MyHabit(q.id) => ValidDates(habits[q.id].start, q.body.end)
  /\ q.op = "patch_goal" /\ q.pc # "read" => /\ q.snap \in Dates
                                             /\ MergedDue(q.body, q.snap)
  /\ q.op = "patch_event" /\ q.pc # "read" => /\ q.snap \in Dates
                                              /\ MergedRange(q.body, q.snap)

Knows(q) == SaysItsRow(q) /\ KnowsItsLinks(q) /\ KnowsItsDates(q)

\* The inductive invariant of Agenda.
AgendaInv ==
  /\ TypeOK /\ LinksAreOwned /\ RowsInv
  /\ \A r \in Requests : Knows(req[r])
===============================================================================
