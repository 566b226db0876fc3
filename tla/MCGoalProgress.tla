---------------------------- MODULE MCGoalProgress ----------------------------
(* Small instances of GoalProgress for TLC.                                *)
EXTENDS GoalInvariant, TLC

CONSTANTS t1, t2, g1, g2

Row(g, s) ==
  [state |-> "live", goal |-> g, status |-> s, completed |-> s = "completed"]
Free == NoTask

\* One task and an id left to insert, or two tasks of one goal.
FirstGoal == {g1}
OneTask == t1 :> Row(g1, "pending") @@ t2 :> Free
TwoTasks == t1 :> Row(g1, "pending") @@ t2 :> Row(g1, "completed")
WriterSymmetry == Permutations(Writers)
==============================================================================
