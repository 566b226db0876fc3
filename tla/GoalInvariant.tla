---------------------------- MODULE GoalInvariant ----------------------------
(***************************************************************************)
(* Why the properties of GoalProgress hold: an inductive invariant.  It    *)
(* says of every statement in flight what it has already read or written,  *)
(* which locks it holds, and that both are still true although other       *)
(* statements commit meanwhile.                                            *)
(***************************************************************************)
EXTENDS GoalProgress

\* The statement has its task row; its foreign key is checked as well.
Writing(w) == job[w].pc \in {"checking", "counting", "waiting"}
Checked(w) == job[w].pc \in {"counting", "waiting"}
Unlinking(w) == job[w].pc = "unlinking"

Inserting == {w \in Writers : job[w].op = "create" /\ job[w].pc = "writing"}

\* Task t may have this row: the completed ones are dated, unless they were
\* completed before the triggers were complete.
Dated(t, row) ==
  row.state = "live" =>
    /\ row.completed => row.status = "completed"
    /\ row.status = "completed" /\ ~row.completed =>
         Plan[t].state = "live" /\ Plan[t].status = "completed" /\ ~Plan[t].completed

\* Only stored tasks name a goal, and a goal not yet created has no progress.
RowsInv ==
  /\ \A t \in Tasks : tasks[t].goal # None => tasks[t].state = "live"
  /\ \A g \in Goals : goals[g].state = "unused" => goals[g].progress = 0

\* There is an id for every insert under way.
RoomInv == Cardinality(Inserting) <= Cardinality(Unused)

\* What a statement has been asked for, by how far it got.
Asked(w) ==
  LET j == job[w]
  IN  /\ j.pc = "writing" =>
           /\ j.op \in {"create", "patch", "delete"}
           /\ j.op = "create" => j.status \in Statuses
           /\ j.op # "create" => j.task \in Tasks
      /\ j.pc \in {"dropping", "unlinking"} => j.op = "drop" /\ j.goal \in Goals
      /\ j.pc \in {"idle", "checking", "counting", "waiting"} => j.op # "drop"

\* What a task write is about to commit, and which goals it recounts.
Prepared(w) ==
  LET j == job[w]
  IN  /\ ~Checked(w) => j.done = {}
      /\ Writing(w) =>
           /\ j.task \in Tasks
           /\ j.new.state # "unused"
           /\ j.new.goal # None => j.new.state = "live"
           /\ j.new.goal = None /\ j.new.state = "live" => j.old.goal = None
           /\ Dated(j.task, j.new)
           /\ j.todo \union j.done \subseteq Affected(j.old, j.new)
           /\ Fires(j.old, j.new) =>
                Affected(j.old, j.new) \subseteq j.todo \union j.done
      /\ j.pc = "waiting" => j.goal \in j.todo

\* A statement holds the locks it took and no others.
HoldsOnly(w) ==
  /\ \A t \in Tasks : taskLock[t] = w =>
       (Writing(w) /\ t = job[w].task) \/ (Unlinking(w) /\ t \in job[w].links)
  /\ \A g \in Goals : goalLock[g] = w =>
       g \in job[w].done \/ (Unlinking(w) /\ g = job[w].goal)
  /\ \A g \in Goals : w \in keyShare[g] => Checked(w) /\ g \in NewLink(job[w])

\* What a task write has read stays true until it commits.
ReadsHold(w) ==
  /\ Writing(w) => taskLock[job[w].task] = w /\ job[w].old = tasks[job[w].task]
  /\ Checked(w) => \A g \in NewLink(job[w]) : w \in keyShare[g] /\ Existing(g)
  /\ \A g \in job[w].done : goalLock[g] = w

\* The deletion of a goal knows every task that names it, and no write can add
\* one: the goal is locked, and nobody is about to link to it.
DropHolds(w) ==
  Unlinking(w) =>
    LET g == job[w].goal
    IN  /\ Existing(g) /\ goalLock[g] = w /\ keyShare[g] = {}
        /\ \A t \in Tasks : tasks[t].goal = g => t \in job[w].links
        /\ \A t \in job[w].links : tasks[t].state # "unused"

\* The table a task write counts: what is committed, and its own row.
Written(w) == [tasks EXCEPT ![job[w].task] = job[w].new]
\* What a task write has counted is right, or it knows what made it wrong.
CountsHold(w) ==
  \A g \in Counted(w) :
    job[w].seen[g] # Recount(Written(w), g) => g \in job[w].stale

WriterInv(w) ==
  /\ Asked(w) /\ Prepared(w) /\ HoldsOnly(w) /\ ReadsHold(w)
  /\ DropHolds(w) /\ CountsHold(w)

\* The inductive invariant of GoalProgress.  TasksInv and DriftOnlyFromOverlap
\* speak of what is committed; the rest is what the statements in flight know.
GoalInv ==
  /\ TypeOK /\ RowsInv /\ RoomInv
  /\ \A w \in Writers : WriterInv(w)
  /\ TasksInv /\ DriftOnlyFromOverlap
==============================================================================
