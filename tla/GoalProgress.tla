---------------------------- MODULE GoalProgress -----------------------------
(***************************************************************************)
(* Tasks linked to goals, and goals.progress, which a trigger on tasks     *)
(* recomputes (routes/tasks.rs, routes/goals.rs, migration 0007).          *)
(*                                                                         *)
(* Every write is one autocommit statement, but the database runs it in    *)
(* steps that other statements interleave with: it waits for the rows it   *)
(* writes, then its row triggers run statements of their own, each on a    *)
(* snapshot taken when it starts.  A trigger that waits for a goal row     *)
(* still counts the tasks of the snapshot it took before it waited.        *)
(***************************************************************************)
EXTENDS Integers, FiniteSets

CONSTANTS
  Tasks,     \* the ids tasks may get
  Goals,     \* the ids goals may get
  Statuses,  \* the statuses a client sends; "completed" counts
  Writers,   \* the statements that may be in flight together
  None,      \* SQL NULL, "field not sent", and the owner of a free lock
  Opened,    \* the goals that exist when the model starts
  Plan,      \* the tasks that exist when the model starts: task -> row
  MaxWrites  \* bound: how many writes are started in all

ASSUME NoneAssumption ==
  None \notin Writers \union Goals \union Statuses \union Tasks
ASSUME StatusesAssumption == "completed" \in Statuses
ASSUME WritesAssumption == MaxWrites \in Nat
ASSUME FiniteAssumption == IsFiniteSet(Tasks) /\ IsFiniteSet(Writers)

VARIABLES
  tasks,     \* the tasks table, as committed
  goals,     \* the goals table, as committed
  taskLock,  \* the writer of each task row, or None
  goalLock,  \* the writer of each goal row, or None
  keyShare,  \* the writers holding each goal FOR KEY SHARE (foreign key)
  job,       \* each writer: its statement, and how far it got
  started,   \* how many writes were started
  overlapped \* history: goals whose last recount may have missed a write

vars == <<tasks, goals, taskLock, goalLock, keyShare, job, started, overlapped>>
tables == <<tasks, goals, overlapped>>
locks  == <<taskLock, goalLock, keyShare>>

RowStates == {"unused", "live", "deleted"}
\* completed: whether completed_at is set.
TaskRow == [state : RowStates, goal : Goals \union {None}, status : Statuses,
            completed : BOOLEAN]
GoalRow == [state : RowStates, progress : 0 .. 100]

\* Before migration 0007 a task inserted as completed got no completed_at; one
\* that has it is completed: the UPDATE trigger of 0004 cleared it otherwise.
ASSUME PlanAssumption ==
  /\ Opened \subseteq Goals
  /\ Plan \in [Tasks -> TaskRow]
  /\ \A t \in Tasks : Plan[t].completed => Plan[t].status = "completed"
  /\ \A t \in Tasks : Plan[t].goal # None =>
       Plan[t].state = "live" /\ Plan[t].goal \in Opened

\* A row that is not there; its status says nothing.
AnyStatus == CHOOSE s \in Statuses : TRUE
NoTask == [state |-> "unused", goal |-> None, status |-> AnyStatus,
           completed |-> FALSE]

\* What bodies may ask for: a status of the list, a goal or none.
Sent == [goal : Goals \union {None}, status : Statuses]
SentPatch ==
  [goal : Goals \union {None}, status : Statuses \union {None}]
    \ {[goal |-> None, status |-> None]}

\* Mutant: the factor of the rounding is lost.
PercentUnscaled(n, total) ==
  IF total = 0 THEN 0 ELSE (200 * n + total) \div total
\* ROUND(100.0 * n / total), half up, and 0 for a goal without tasks.
Percent(n, total) ==
  IF total = 0 THEN 0 ELSE (200 * n + total) \div (2 * total)

Linked(table, g) == {t \in Tasks : table[t].state = "live" /\ table[t].goal = g}
\* What the trigger computes for goal g from a tasks table.
Recount(table, g) ==
  LET linked == Linked(table, g)
  IN  Percent(Cardinality({t \in linked : table[t].status = "completed"}),
              Cardinality(linked))

Pcs == {"idle", "writing", "checking", "counting", "waiting", "dropping",
        "unlinking"}
Job == [pc : Pcs, op : {"none", "create", "patch", "delete", "drop"},
        task : Tasks \union {None}, goal : Goals \union {None},
        status : Statuses \union {None},
        old : TaskRow, new : TaskRow,
        todo : SUBSET Goals,           \* goals the trigger has still to update
        seen : [Goals -> 0 .. 100],    \* what it counted in its snapshots
        done : SUBSET Goals,           \* goal rows it has updated
        stale : SUBSET Goals,          \* history: counts another commit outdated
        links : SUBSET Tasks]          \* tasks a deleted goal has to unlink

IdleJob ==
  [pc |-> "idle", op |-> "none", task |-> None, goal |-> None, status |-> None,
   old |-> NoTask, new |-> NoTask, todo |-> {}, seen |-> [g \in Goals |-> 0],
   done |-> {}, stale |-> {}, links |-> {}]

Stored(t)   == t \in Tasks /\ tasks[t].state = "live"
\* GET /tasks?view=: done tasks, or the open ones (by due date: today, upcoming,
\* overdue, which split them further).
list_tasks(view) ==
  {t \in Tasks : Stored(t) /\ (tasks[t].completed <=> view = "done")}
Existing(g) == g \in Goals /\ goals[g].state = "live"
Unused      == {t \in Tasks : tasks[t].state = "unused" /\ taskLock[t] = None}
RoomToInsert ==
  Cardinality({w \in Writers : job[w].op = "create" /\ job[w].pc = "writing"})
    < Cardinality(Unused)

-----------------------------------------------------------------------------
(* Locks, and the end of a statement.                                      *)

Release(w) ==
  /\ taskLock' = [t \in Tasks |-> IF taskLock[t] = w THEN None ELSE taskLock[t]]
  /\ goalLock' = [g \in Goals |-> IF goalLock[g] = w THEN None ELSE goalLock[g]]
  /\ keyShare' = [g \in Goals |-> keyShare[g] \ {w}]

\* The statement fails or finds no row: nothing it did remains.
Fail(w) ==
  /\ Release(w)
  /\ job' = [job EXCEPT ![w] = IdleJob]
  /\ UNCHANGED <<tables, started>>

Deleting(w) == job[w].op = "drop"
\* Who keeps w from a task row, from referencing a goal (FOR KEY SHARE), from
\* updating its progress (FOR NO KEY UPDATE) and from deleting it (FOR UPDATE).
TaskBlockers(w, t)   == {taskLock[t]} \ {None, w}
LinkBlockers(w, g)   == {x \in {goalLock[g]} \ {None, w} : Deleting(x)}
UpdateBlockers(w, g) == {goalLock[g]} \ {None, w}
DeleteBlockers(w, g) == UpdateBlockers(w, g) \union (keyShare[g] \ {w})

Begin(w, j) ==
  /\ job[w].pc = "idle"
  /\ started < MaxWrites
  /\ started' = started + 1
  /\ job' = [job EXCEPT ![w] = j]
  /\ UNCHANGED <<tables, locks>>

-----------------------------------------------------------------------------
(* POST /tasks, PATCH /tasks/{id}, DELETE /tasks/{id}.                     *)

\* The handlers look up what the request names, then issue the statement.
CreateTask(w) ==
  \E body \in Sent :
    /\ RoomToInsert
    /\ body.goal = None \/ Existing(body.goal)
    /\ Begin(w, [IdleJob EXCEPT !.pc = "writing", !.op = "create",
                                !.goal = body.goal, !.status = body.status])
PatchTask(w) ==
  \E t \in Tasks, body \in SentPatch :
    /\ Stored(t)
    /\ body.goal = None \/ Existing(body.goal)
    /\ Begin(w, [IdleJob EXCEPT !.pc = "writing", !.op = "patch", !.task = t,
                                !.goal = body.goal, !.status = body.status])
DeleteTask(w) ==
  \E t \in Tasks :
    Begin(w, [IdleJob EXCEPT !.pc = "writing", !.op = "delete", !.task = t])

\* Mutant: the goal is set to what was sent, so leaving it out clears it.
PatchedAsSent(row, j) ==
  [row EXCEPT !.goal = j.goal, !.status = IF j.status = None THEN @ ELSE j.status]
\* COALESCE($8, goal_id), COALESCE($6, status).
Patched(row, j) ==
  [row EXCEPT !.goal = IF j.goal = None THEN @ ELSE j.goal,
              !.status = IF j.status = None THEN @ ELSE j.status]

\* Mutant: as before migration 0007, only an UPDATE sets completed_at.
StampUpdates(old, new) ==
  [new EXCEPT !.completed =
     \/ old.state = "live" /\ old.status # "completed" /\ new.status = "completed"
     \/ @ /\ new.status = "completed"]
\* BEFORE INSERT and UPDATE: completed_at is set when the task becomes completed,
\* kept while it is, and cleared when it is reopened.
set_task_completed_at(old, new) ==
  LET becomes == old.state # "live" \/ old.status # "completed"
  IN  [new EXCEPT !.completed = new.status = "completed" /\ (becomes \/ @)]

\* Mutant: a re-linked task is recounted for its new goal only.
AffectedNew(old, new) == {new.goal} \ {None}
\* The trigger function recomputes both the old and the new goal ...
Affected(old, new) == {old.goal, new.goal} \ {None}
\* ... and the UPDATE trigger fires only when the status or the goal changed.
Fires(old, new) == old.status # new.status \/ old.goal # new.goal

\* The statement has its row: its foreign key and its triggers come next.
WriteTask(w, t, new, toCount) ==
  /\ taskLock' = [taskLock EXCEPT ![t] = w]
  /\ job' = [job EXCEPT ![w].pc = "checking", ![w].task = t,
               ![w].old = tasks[t], ![w].new = new, ![w].todo = toCount]
  /\ UNCHANGED <<tables, goalLock, keyShare, started>>

InsertTask(w) ==
  /\ job[w].pc = "writing" /\ job[w].op = "create"
  /\ LET t   == CHOOSE u \in Unused : TRUE
         row == [NoTask EXCEPT !.state = "live", !.goal = job[w].goal,
                               !.status = job[w].status]
         new == set_task_completed_at(tasks[t], row)
     IN  WriteTask(w, t, new, Affected(tasks[t], new))

UpdateTask(w) ==
  /\ job[w].pc = "writing" /\ job[w].op = "patch"
  /\ LET t   == job[w].task
         new == set_task_completed_at(tasks[t], Patched(tasks[t], job[w]))
     IN  /\ TaskBlockers(w, t) = {}
         /\ IF Stored(t)
            THEN WriteTask(w, t, new, IF Fires(tasks[t], new)
                                      THEN Affected(tasks[t], new) ELSE {})
            ELSE Fail(w)

RemoveTask(w) ==
  /\ job[w].pc = "writing" /\ job[w].op = "delete"
  /\ LET t    == job[w].task
         gone == [NoTask EXCEPT !.state = "deleted"]
     IN  /\ TaskBlockers(w, t) = {}
         /\ IF Stored(t) THEN WriteTask(w, t, gone, Affected(tasks[t], gone))
            ELSE Fail(w)

NewLink(j) == {j.new.goal} \ {None, j.old.goal}
\* Mutant: the foreign key is checked but the goal is not kept.
CheckOnly(w) == UNCHANGED keyShare
\* A goal the row starts to name is kept from being deleted until the commit.
KeepGoals(w) ==
  keyShare' = [g \in Goals |-> IF g \in NewLink(job[w]) THEN keyShare[g] \union {w}
                               ELSE keyShare[g]]
\* The foreign key: a goal that was deleted meanwhile fails the statement.
CheckGoal(w) ==
  /\ job[w].pc = "checking"
  /\ \A g \in NewLink(job[w]) : LinkBlockers(w, g) = {}
  /\ IF \A g \in NewLink(job[w]) : Existing(g)
     THEN /\ KeepGoals(w)
          /\ job' = [job EXCEPT ![w].pc = "counting"]
          /\ UNCHANGED <<tables, taskLock, goalLock, started>>
     ELSE Fail(w)

\* UPDATE goals SET progress = (SELECT ... FROM tasks): the statement takes its
\* snapshot, which holds the committed tasks and the row this writer wrote ...
CountTasks(w) ==
  /\ job[w].pc = "counting"
  /\ \E g \in job[w].todo :
       job' = [job EXCEPT ![w].pc = "waiting", ![w].goal = g,
         ![w].seen[g] = Recount([tasks EXCEPT ![job[w].task] = job[w].new], g)]
  /\ UNCHANGED <<tables, locks, started>>

\* ... then waits for the goal row, which may be gone, and does not recount.
UpdateGoal(w) ==
  /\ job[w].pc = "waiting"
  /\ LET g == job[w].goal
     IN  /\ UpdateBlockers(w, g) = {}
         /\ goalLock' = IF Existing(g) THEN [goalLock EXCEPT ![g] = w] ELSE goalLock
         /\ job' = [job EXCEPT ![w].pc = "counting", ![w].todo = @ \ {g},
                      ![w].done = IF Existing(g) THEN @ \union {g} ELSE @]
  /\ UNCHANGED <<tables, taskLock, keyShare, started>>

\* The goals writer x has counted the tasks of and not yet committed.
Counted(x) == job[x].done \union (IF job[x].pc = "waiting" THEN {job[x].goal} ELSE {})

\* The goals whose count the write of j changes.
Outdated(j) == IF Fires(j.old, j.new) THEN {j.old.goal, j.new.goal} ELSE {}

CommitTask(w) ==
  /\ job[w].pc = "counting" /\ job[w].todo = {}
  /\ LET j == job[w]
     IN  /\ tasks' = [tasks EXCEPT ![j.task] = j.new]
         /\ goals' = [g \in Goals |-> IF g \in j.done
                        THEN [goals[g] EXCEPT !.progress = j.seen[g]] ELSE goals[g]]
         /\ overlapped' = (overlapped \ j.done) \union (j.done \intersect j.stale)
         /\ job' = [x \in Writers |->
              IF x = w THEN IdleJob
              ELSE [job[x] EXCEPT !.stale =
                      @ \union (Counted(x) \intersect Outdated(j))]]
  /\ Release(w)
  /\ UNCHANGED started

-----------------------------------------------------------------------------
(* POST /goals and DELETE /goals/{id}.                                     *)

CreateGoal(g) ==
  /\ goals[g].state = "unused"
  /\ goals' = [goals EXCEPT ![g].state = "live"]
  /\ UNCHANGED <<tasks, locks, job, started, overlapped>>

DeleteGoal(w) ==
  \E g \in Goals :
    Begin(w, [IdleJob EXCEPT !.pc = "dropping", !.op = "drop", !.goal = g])

\* The row is locked, then ON DELETE SET NULL looks for the tasks to unlink.
LockGoal(w) ==
  /\ job[w].pc = "dropping"
  /\ LET g == job[w].goal
     IN  /\ DeleteBlockers(w, g) = {}
         /\ IF Existing(g)
            THEN /\ goalLock' = [goalLock EXCEPT ![g] = w]
                 /\ job' = [job EXCEPT ![w].pc = "unlinking",
                                       ![w].links = Linked(tasks, g)]
                 /\ UNCHANGED <<tables, taskLock, keyShare, started>>
            ELSE Fail(w)

ToUnlink(w) == {t \in job[w].links : taskLock[t] # w}
LockLinked(w) ==
  /\ job[w].pc = "unlinking"
  /\ \E t \in ToUnlink(w) :
       /\ TaskBlockers(w, t) = {}
       /\ taskLock' = [taskLock EXCEPT ![t] = w]
  /\ UNCHANGED <<tables, goalLock, keyShare, job, started>>

\* A task that meanwhile moved to another goal, or is gone, stays as it is.
Unlinks(w, t) == t \in job[w].links /\ tasks[t].goal = job[w].goal

CommitDrop(w) ==
  /\ job[w].pc = "unlinking" /\ ToUnlink(w) = {}
  /\ tasks' = [t \in Tasks |-> IF Unlinks(w, t) THEN [tasks[t] EXCEPT !.goal = None]
                               ELSE tasks[t]]
  /\ goals' = [goals EXCEPT ![job[w].goal] = [state |-> "deleted", progress |-> 0]]
  /\ overlapped' = overlapped \ {job[w].goal}
  /\ Release(w)
  /\ job' = [job EXCEPT ![w] = IdleJob]
  /\ UNCHANGED started

-----------------------------------------------------------------------------
(* Waiting, and the deadlock detector of the database.                     *)

Blockers(w) ==
  LET j == job[w]
  IN  CASE j.pc = "writing" /\ j.op # "create" -> TaskBlockers(w, j.task)
        [] j.pc = "checking"  -> UNION {LinkBlockers(w, g) : g \in NewLink(j)}
        [] j.pc = "waiting"   -> UpdateBlockers(w, j.goal)
        [] j.pc = "dropping"  -> DeleteBlockers(w, j.goal)
        [] j.pc = "unlinking" -> UNION {TaskBlockers(w, t) : t \in ToUnlink(w)}
        [] OTHER -> {}
WaitCycle(S) == S # {} /\ \A w \in S : Blockers(w) \intersect S # {}
\* Mutant: the handler starts the cancelled statement again, however often.
RetryVictim(w) ==
  /\ \E S \in SUBSET Writers : w \in S /\ WaitCycle(S)
  /\ Release(w)
  /\ job' = [job EXCEPT ![w] = [IdleJob EXCEPT
       !.pc = IF job[w].op = "drop" THEN "dropping" ELSE "writing",
       !.op = job[w].op, !.task = IF job[w].op = "create" THEN None ELSE job[w].task,
       !.goal = IF job[w].op = "drop" THEN job[w].goal ELSE job[w].new.goal,
       !.status = IF job[w].op \in {"create", "patch"} THEN job[w].new.status
                  ELSE None]]
  /\ UNCHANGED <<tables, started>>
\* One of the writers of a cycle is cancelled (40P01) and answers 500.
DeadlockVictim(w) ==
  /\ \E S \in SUBSET Writers :
       /\ w \in S /\ WaitCycle(S)
       /\ \A T \in SUBSET S : WaitCycle(T) => T = S
  /\ Fail(w)

-----------------------------------------------------------------------------
Init ==
  /\ tasks = Plan
  /\ goals = [g \in Goals |-> [state |-> IF g \in Opened THEN "live" ELSE "unused",
                               progress |-> Recount(Plan, g)]]
  /\ taskLock = [t \in Tasks |-> None]
  /\ goalLock = [g \in Goals |-> None]
  /\ keyShare = [g \in Goals |-> {}]
  /\ job = [w \in Writers |-> IdleJob]
  /\ started = 0
  /\ overlapped = {}

Request(w) == CreateTask(w) \/ PatchTask(w) \/ DeleteTask(w) \/ DeleteGoal(w)
\* Locks and reads of a statement in flight, its commit, its cancellation.
Run(w) ==
  \/ InsertTask(w) \/ UpdateTask(w) \/ RemoveTask(w)
  \/ CheckGoal(w) \/ CountTasks(w) \/ UpdateGoal(w) \/ CommitTask(w)
  \/ LockGoal(w) \/ LockLinked(w) \/ CommitDrop(w)
  \/ DeadlockVictim(w)
\* All the writes this instance allows have ended.
Drained ==
  /\ started = MaxWrites /\ \A w \in Writers : job[w].pc = "idle"
  /\ UNCHANGED vars
Next ==
  \/ \E w \in Writers : Request(w) \/ Run(w)
  \/ \E g \in Goals : CreateGoal(g)
  \/ Drained

Spec == Init /\ [][Next]_vars
\* The database runs every statement on: a row lock is queued for, so a writer
\* that waits is served although others come and go.
FairSpec == Spec /\ \A w \in Writers : SF_vars(Run(w))

-----------------------------------------------------------------------------
(* Properties.                                                             *)

\* Rows, locks and statements have the shape the tables and handlers give
\* them; a row lock is held by a statement in flight.
TypeOK ==
  /\ tasks \in [Tasks -> TaskRow]
  /\ goals \in [Goals -> GoalRow]
  /\ taskLock \in [Tasks -> Writers \union {None}]
  /\ goalLock \in [Goals -> Writers \union {None}]
  /\ keyShare \in [Goals -> SUBSET Writers]
  /\ job \in [Writers -> Job]
  /\ started \in 0 .. MaxWrites
  /\ overlapped \in SUBSET Goals
  /\ \A w \in Writers : job[w].pc = "idle" =>
       /\ \A t \in Tasks : taskLock[t] # w
       /\ \A g \in Goals : goalLock[g] # w /\ w \notin keyShare[g]

\* The handlers look a goal up and link to it in a later statement, and a goal
\* may be deleted at any time: still no stored task names a goal that is gone
\* (ensure_task_goal, and the foreign key with ON DELETE SET NULL).
NoOrphanTask ==
  \A t \in Tasks : tasks[t].goal # None => Existing(tasks[t].goal)

\* The two places a task is counted as done agree after any mix of creations,
\* completions and reopenings: the view "done" and the open views go by
\* completed_at, which triggers keep, progress goes by status.  Only a task
\* completed before the triggers were complete may lack the date.
DoneViewIsCompleted ==
  \A t \in Tasks : Stored(t) =>
    /\ t \in list_tasks("done") => tasks[t].status = "completed"
    /\ t \in list_tasks("open") /\ tasks[t].status = "completed" =>
         Plan[t].state = "live" /\ Plan[t].status = "completed" /\ ~Plan[t].completed

\* What holds of the tasks at every moment.
TasksInv == NoOrphanTask /\ DoneViewIsCompleted

\* What the specification of goal tracking promises: whatever has committed,
\* the progress of a goal is the share of its linked tasks that are completed.
ProgressMatchesTasks ==
  \A g \in Goals : Existing(g) => goals[g].progress = Recount(tasks, g)

\* What the code delivers of it: the progress of a goal is off only while its
\* last recount was overlapped by the commit of another write to its tasks;
\* in particular a goal whose tasks are written one at a time is exact.
DriftOnlyFromOverlap ==
  \A g \in Goals : Existing(g) /\ goals[g].progress # Recount(tasks, g)
                     => g \in overlapped

\* A PATCH cannot clear goal_id (COALESCE), and deleting a goal clears it only
\* in the tasks that still name that goal when it gets to them: a task that
\* another request just moved to a second goal stays with the second goal.
OnlyDeletionUnlinks ==
  [][\A t \in Tasks :
       tasks[t].goal # None /\ tasks'[t].goal = None /\ tasks'[t].state = "live"
         => goals'[tasks[t].goal].state = "deleted"]_vars

\* Requests wait for each other's rows in opposite orders (a task, then its
\* goal; a goal, then its tasks); with the deadlock detector every statement
\* still ends.
EveryWriteEnds == \A w \in Writers : job[w].pc # "idle" ~> job[w].pc = "idle"
==============================================================================
