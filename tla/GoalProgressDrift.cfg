CONSTANTS
  t1 = t1
  t2 = t2
  g1 = g1
  g2 = g2
  Tasks = {t1, t2}
  Goals = {g1}
  Statuses = {"pending", "completed"}
  Writers = {w1, w2}
  None = None
  Opened <- FirstGoal
  Plan <- TwoTasks
  MaxWrites = 2
SPECIFICATION Spec
SYMMETRY WriterSymmetry
INVARIANTS ProgressMatchesTasks
