-------------------------- MODULE GoalProgressProofs --------------------------
(***************************************************************************)
(* Tasks, goals and their progress, for any number of tasks, goals and     *)
(* statements in flight: the invariant of GoalInvariant is kept by every   *)
(* step, and the properties of GoalProgress follow from it.                *)
(***************************************************************************)
EXTENDS GoalInvariant, FiniteSetTheorems, TLAPS

-----------------------------------------------------------------------------
(* The share of the completed tasks.                                       *)

LEMMA NoTaskType == NoTask \in TaskRow /\ AnyStatus \in Statuses
BY StatusesAssumption DEF NoTask, TaskRow, RowStates, AnyStatus

LEMMA IdleJobType == IdleJob \in Job
BY NoTaskType DEF IdleJob, Job, Pcs

LEMMA DivisionBound ==
  ASSUME NEW a \in Nat, NEW b \in Nat \ {0}, a < 101 * b
  PROVE  a \div b \in 0 .. 100
<1> DEFINE q == a \div b
<1>1. q \in Int /\ b * q <= a /\ a < b * (q + 1)
  OBVIOUS
<1>2. q >= 0 /\ q <= 100
  OBVIOUS
<1>3. QED
  BY <1>1, <1>2

LEMMA PercentType ==
  ASSUME NEW n \in Nat, NEW total \in Nat, n <= total
  PROVE  Percent(n, total) \in 0 .. 100
<1>1. CASE total = 0
  BY <1>1 DEF Percent
<1>2. CASE total # 0
  <2>1. 200 * n + total \in Nat /\ 2 * total \in Nat \ {0}
    BY <1>2
  <2>2. 200 * n + total < 101 * (2 * total)
    BY <1>2
  <2>3. QED
    BY <1>2, <2>1, <2>2, DivisionBound DEF Percent
<1>3. QED
  BY <1>1, <1>2

LEMMA LinkedFinite ==
  ASSUME NEW table, NEW g
  PROVE  /\ IsFiniteSet(Linked(table, g))
         /\ Cardinality(Linked(table, g)) \in Nat
<1>1. Linked(table, g) \subseteq Tasks
  BY DEF Linked
<1>2. QED
  BY <1>1, FiniteAssumption, FS_Subset, FS_CardinalityType

LEMMA RecountType ==
  ASSUME NEW table, NEW g
  PROVE  Recount(table, g) \in 0 .. 100
<1> DEFINE all  == Linked(table, g)
           done == {t \in all : table[t].status = "completed"}
<1>1. IsFiniteSet(all) /\ Cardinality(all) \in Nat
  BY LinkedFinite
<1>2. IsFiniteSet(done) /\ Cardinality(done) <= Cardinality(all)
  BY <1>1, FS_Subset
<1>3. Cardinality(done) \in Nat
  BY <1>2, FS_CardinalityType
<1>4. Percent(Cardinality(done), Cardinality(all)) \in 0 .. 100
  <2> HIDE DEF done, all
  <2> QED
    BY <1>1, <1>2, <1>3, PercentType
<1>5. QED
  BY <1>4 DEF Recount

\* A goal that no task names has no progress.
LEMMA RecountEmpty ==
  ASSUME NEW table, NEW g, \A t \in Tasks : table[t].goal # g
  PROVE  Recount(table, g) = 0
<1>1. Linked(table, g) = {}
  BY DEF Linked
<1>2. Cardinality({}) = 0
  BY FS_EmptySet
<1>3. QED
  BY <1>1, <1>2 DEF Recount, Percent

\* A count depends on which tasks name the goal and on their status only.
Agrees(r, s, g) ==
  /\ (r.state = "live" /\ r.goal = g) <=> (s.state = "live" /\ s.goal = g)
  /\ r.state = "live" /\ r.goal = g =>
       (r.status = "completed" <=> s.status = "completed")
LEMMA RecountAgrees ==
  ASSUME NEW A, NEW B, NEW g, \A t \in Tasks : Agrees(A[t], B[t], g)
  PROVE  Recount(A, g) = Recount(B, g)
<1>1. Linked(A, g) = Linked(B, g)
  BY DEF Linked, Agrees
<1>2. {t \in Linked(A, g) : A[t].status = "completed"}
        = {t \in Linked(B, g) : B[t].status = "completed"}
  BY <1>1 DEF Linked, Agrees
<1>3. QED
  BY <1>1, <1>2 DEF Recount

\* A write that neither takes a task to the goal, nor from it, nor changes the
\* status of one of its tasks leaves the count as it is.
LEMMA UnaffectedAgrees ==
  ASSUME NEW old, NEW new, NEW g \in Goals,
         old.goal # None => old.state = "live",
         new.goal # None => new.state = "live",
         Fires(old, new) => g \notin {old.goal, new.goal}
  PROVE  Agrees(old, new, g)
BY NoneAssumption DEF Agrees, Fires

-----------------------------------------------------------------------------
(* What a step of one statement leaves to the others.                      *)

\* A statement that is not the one taking a step is left as it was, but for the
\* history of what another commit outdated.
SameStatement(x) ==
  /\ job'[x].pc = job[x].pc /\ job'[x].op = job[x].op
  /\ job'[x].task = job[x].task /\ job'[x].goal = job[x].goal
  /\ job'[x].status = job[x].status
  /\ job'[x].old = job[x].old /\ job'[x].new = job[x].new
  /\ job'[x].todo = job[x].todo /\ job'[x].done = job[x].done
  /\ job'[x].seen = job[x].seen /\ job'[x].links = job[x].links
SameLocks(x) ==
  /\ \A t \in Tasks : taskLock'[t] = x <=> taskLock[t] = x
  /\ \A g \in Goals : goalLock'[g] = x <=> goalLock[g] = x
  /\ \A g \in Goals : x \in keyShare'[g] <=> x \in keyShare[g]
\* The rows x relies on are there as before.
SameRows(x) ==
  /\ Writing(x) => tasks'[job[x].task] = tasks[job[x].task]
  /\ Checked(x) => \A g \in NewLink(job[x]) : Existing(g)'
  /\ Unlinking(x) =>
       /\ Existing(job[x].goal)' /\ keyShare'[job[x].goal] = {}
       /\ \A t \in Tasks : tasks'[t].goal = job[x].goal => t \in job[x].links
       /\ \A t \in job[x].links : tasks'[t].state # "unused"

\* The parts of WriterInv that do not speak of counts.
StatementInv(w) ==
  Asked(w) /\ Prepared(w) /\ HoldsOnly(w) /\ ReadsHold(w) /\ DropHolds(w)

LEMMA OthersKeep ==
  ASSUME TypeOK, NEW x \in Writers, StatementInv(x),
         SameStatement(x), SameLocks(x), SameRows(x)
  PROVE  StatementInv(x)'
<1>1. Writing(x)' = Writing(x) /\ Checked(x)' = Checked(x)
      /\ Unlinking(x)' = Unlinking(x)
  BY DEF SameStatement, Writing, Checked, Unlinking
<1>2. NewLink(job[x])' = NewLink(job[x])
  BY DEF SameStatement, NewLink
<1>3. Asked(x)'
  BY DEF SameStatement, StatementInv, Asked
<1>4. Prepared(x)'
  BY <1>1 DEF SameStatement, StatementInv, Prepared, Dated, Affected, Fires
<1>5. HoldsOnly(x)'
  BY <1>1, <1>2 DEF SameStatement, SameLocks, StatementInv, HoldsOnly
<1>6. ReadsHold(x)'
  <2>1. Writing(x) => job[x].task \in Tasks
    BY DEF StatementInv, Prepared
  <2>2. NewLink(job[x]) \subseteq Goals /\ job[x].done \subseteq Goals
    BY DEF TypeOK, Job, TaskRow, NewLink
  <2>3. QED
    BY <1>1, <1>2, <2>1, <2>2
    DEF SameStatement, SameLocks, SameRows, StatementInv, ReadsHold
<1>7. DropHolds(x)'
  <2> SUFFICES ASSUME Unlinking(x)
               PROVE  DropHolds(x)'
    BY <1>1 DEF DropHolds
  <2>1. job[x].goal \in Goals
    BY DEF StatementInv, Asked, Unlinking
  <2>2. goalLock'[job[x].goal] = x
    BY <2>1 DEF StatementInv, DropHolds, SameLocks
  <2>3. QED
    BY <2>2 DEF SameStatement, SameRows, DropHolds
<1>8. QED
  BY <1>3, <1>4, <1>5, <1>6, <1>7 DEF StatementInv

\* A step of w that commits nothing touches no other statement.
Quiet(w) ==
  /\ UNCHANGED tables
  /\ \A x \in Writers \ {w} :
       /\ job'[x] = job[x] /\ SameLocks(x)
       /\ Unlinking(x) => keyShare'[job[x].goal] = {}

LEMMA QuietOthers ==
  ASSUME GoalInv, NEW w \in Writers, Quiet(w), NEW x \in Writers \ {w}
  PROVE  WriterInv(x)'
<1>1. StatementInv(x)
  BY DEF GoalInv, WriterInv, StatementInv
<1>2. SameStatement(x) /\ SameLocks(x) /\ UNCHANGED <<tasks, goals>>
  BY DEF Quiet, SameStatement, tables
<1>3. SameRows(x)
  BY <1>1, <1>2
  DEF Quiet, SameRows, StatementInv, ReadsHold, DropHolds, Existing
<1>4. StatementInv(x)'
  BY <1>1, <1>2, <1>3, OthersKeep DEF GoalInv
<1>5. CountsHold(x)'
  <2>1. CountsHold(x) /\ job'[x] = job[x] /\ tasks' = tasks
    BY <1>2 DEF GoalInv, WriterInv, Quiet
  <2>2. Counted(x)' = Counted(x) /\ Written(x)' = Written(x)
    BY <2>1 DEF Counted, Written
  <2>3. ASSUME NEW g PROVE Recount(Written(x), g)' = Recount(Written(x), g)
    BY <2>2 DEF Recount, Linked
  <2>4. QED
    BY <2>1, <2>2, <2>3 DEF CountsHold
<1>6. QED
  BY <1>4, <1>5 DEF WriterInv, StatementInv

LEMMA QuietStep ==
  ASSUME GoalInv, NEW w \in Writers, Quiet(w), TypeOK', RoomInv', WriterInv(w)'
  PROVE  GoalInv'
<1>1. UNCHANGED <<tasks, goals, overlapped>>
  BY DEF Quiet, tables
<1>2. \A x \in Writers : WriterInv(x)'
  BY QuietOthers
<1>3. RowsInv'
  BY <1>1 DEF GoalInv, RowsInv
<1>4. TasksInv'
  BY <1>1 DEF GoalInv, TasksInv, NoOrphanTask, DoneViewIsCompleted, Existing,
              Stored, list_tasks
<1>5. DriftOnlyFromOverlap'
  <2>1. ASSUME NEW g PROVE Recount(tasks, g)' = Recount(tasks, g)
    BY <1>1 DEF Recount, Linked
  <2>2. QED
    BY <1>1, <2>1 DEF GoalInv, DriftOnlyFromOverlap, Existing
<1>6. QED
  BY <1>2, <1>3, <1>4, <1>5 DEF GoalInv

\* There is room for the inserts while no insert begins and no id is used up.
LEMMA RoomKept ==
  ASSUME RoomInv, Inserting' \subseteq Inserting, Unused \subseteq Unused'
  PROVE  RoomInv'
<1>1. IsFiniteSet(Inserting) /\ IsFiniteSet(Unused')
  BY FiniteAssumption, FS_Subset DEF Inserting, Unused
<1>2. Cardinality(Inserting') <= Cardinality(Inserting)
      /\ Cardinality(Unused) <= Cardinality(Unused')
      /\ IsFiniteSet(Inserting') /\ IsFiniteSet(Unused)
  BY <1>1, FS_Subset
<1>3. /\ Cardinality(Inserting) \in Nat /\ Cardinality(Inserting') \in Nat
      /\ Cardinality(Unused) \in Nat /\ Cardinality(Unused') \in Nat
  BY <1>1, <1>2, FS_CardinalityType
<1>4. QED
  BY <1>2, <1>3 DEF RoomInv

-----------------------------------------------------------------------------
(* A statement that fails.                                                 *)

LEMMA ReleaseLocks ==
  ASSUME TypeOK, NEW w \in Writers, Release(w)
  PROVE  /\ taskLock' \in [Tasks -> Writers \union {None}]
         /\ goalLock' \in [Goals -> Writers \union {None}]
         /\ keyShare' \in [Goals -> SUBSET Writers]
         /\ \A t \in Tasks : taskLock'[t] # w
         /\ \A g \in Goals : goalLock'[g] # w /\ w \notin keyShare'[g]
         /\ \A x \in Writers \ {w} : SameLocks(x)
         /\ \A g \in Goals : keyShare'[g] \subseteq keyShare[g]
         /\ \A t \in Tasks : taskLock[t] = None => taskLock'[t] = None
BY NoneAssumption DEF TypeOK, Release, SameLocks

\* A writer that is idle, or whose statement just ended, owes nothing.
LEMMA IdleInv ==
  ASSUME NEW w \in Writers, job'[w] = IdleJob,
         \A t \in Tasks : taskLock'[t] # w,
         \A g \in Goals : goalLock'[g] # w /\ w \notin keyShare'[g]
  PROVE  WriterInv(w)'
<1>1. /\ ~Writing(w)' /\ ~Checked(w)' /\ ~Unlinking(w)'
      /\ job'[w].pc = "idle" /\ job'[w].done = {} /\ job'[w].op = "none"
  BY DEF Writing, Checked, Unlinking, IdleJob
<1>2. Counted(w)' = {}
  BY <1>1 DEF Counted
<1>3. QED
  BY <1>1, <1>2 DEF WriterInv, Asked, Prepared, HoldsOnly, ReadsHold, DropHolds,
                    CountsHold

LEMMA FailStep ==
  ASSUME GoalInv, NEW w \in Writers, Fail(w)
  PROVE  GoalInv'
<1>1. TypeOK /\ Release(w) /\ UNCHANGED <<tables, started>>
  BY DEF GoalInv, Fail
<1>2. job' = [job EXCEPT ![w] = IdleJob] /\ job'[w] = IdleJob
      /\ job' \in [Writers -> Job]
  BY <1>1, IdleJobType DEF Fail, TypeOK
<1>3. TypeOK'
  <2>1. \A x \in Writers \ {w} : job'[x] = job[x] /\ SameLocks(x)
    BY <1>1, <1>2, ReleaseLocks DEF TypeOK
  <2>2. ASSUME NEW x \in Writers, job'[x].pc = "idle"
        PROVE  /\ \A t \in Tasks : taskLock'[t] # x
               /\ \A g \in Goals : goalLock'[g] # x /\ x \notin keyShare'[g]
    BY <1>1, <2>1, <2>2, ReleaseLocks DEF TypeOK, SameLocks
  <2>3. QED
    BY <1>1, <1>2, <2>2, ReleaseLocks DEF TypeOK, tables
<1>4. Quiet(w)
  <2>1. ASSUME NEW x \in Writers, Unlinking(x)
        PROVE  keyShare'[job[x].goal] = {}
    <3>1. job[x].goal \in Goals /\ keyShare[job[x].goal] = {}
      BY <2>1 DEF GoalInv, WriterInv, Asked, DropHolds, Unlinking
    <3>2. QED
      BY <1>1, <3>1, ReleaseLocks
  <2>2. QED
    BY <1>1, <1>2, <2>1, ReleaseLocks DEF Quiet, TypeOK
<1>5. WriterInv(w)'
  BY <1>1, <1>2, IdleInv, ReleaseLocks
<1>6. RoomInv'
  <2>1. Inserting' \subseteq Inserting
    BY <1>2 DEF Inserting, TypeOK, IdleJob
  <2>2. Unused \subseteq Unused'
    BY <1>1, ReleaseLocks DEF Unused, tables
  <2>3. QED
    BY <2>1, <2>2, RoomKept DEF GoalInv
<1>7. QED
  BY <1>3, <1>4, <1>5, <1>6, QuietStep

-----------------------------------------------------------------------------
(* Statements begin, lock and read: steps that commit nothing.             *)

\* A statement that runs on keeps its locks apart from the others'.
LEMMA RunningStep ==
  ASSUME GoalInv, NEW w \in Writers, Quiet(w),
         job' \in [Writers -> Job], job'[w].pc # "idle",
         taskLock' \in [Tasks -> Writers \union {None}],
         goalLock' \in [Goals -> Writers \union {None}],
         keyShare' \in [Goals -> SUBSET Writers],
         started' \in 0 .. MaxWrites,
         RoomInv', WriterInv(w)'
  PROVE  GoalInv'
<1>1. ASSUME NEW x \in Writers, job'[x].pc = "idle"
      PROVE  /\ \A t \in Tasks : taskLock'[t] # x
             /\ \A g \in Goals : goalLock'[g] # x /\ x \notin keyShare'[g]
  <2>1. x # w /\ job[x].pc = "idle" /\ SameLocks(x)
    BY <1>1 DEF Quiet
  <2>2. QED
    BY <2>1 DEF GoalInv, TypeOK, SameLocks
<1>2. TypeOK'
  BY <1>1 DEF GoalInv, TypeOK, Quiet, tables
<1>3. QED
  BY <1>2, QuietStep

\* A statement that has just begun holds nothing.
LEMMA FreshInv ==
  ASSUME NEW w \in Writers, job'[w].pc \in {"writing", "dropping"},
         job'[w].done = {}, Asked(w)',
         \A t \in Tasks : taskLock'[t] # w,
         \A g \in Goals : goalLock'[g] # w /\ w \notin keyShare'[g]
  PROVE  WriterInv(w)'
<1>1. ~Writing(w)' /\ ~Checked(w)' /\ ~Unlinking(w)' /\ job'[w].pc # "waiting"
  BY DEF Writing, Checked, Unlinking
<1>2. Counted(w)' = {}
  BY <1>1 DEF Counted
<1>3. QED
  BY <1>1, <1>2 DEF WriterInv, Prepared, HoldsOnly, ReadsHold, DropHolds,
                    CountsHold

LEMMA BeginStep ==
  ASSUME GoalInv, NEW w \in Writers, NEW j \in Job, Begin(w, j),
         j.pc \in {"writing", "dropping"}, j.done = {},
         job'[w] = j => Asked(w)', RoomInv'
  PROVE  GoalInv'
<1>1. /\ job' = [job EXCEPT ![w] = j] /\ job'[w] = j /\ job' \in [Writers -> Job]
      /\ job[w].pc = "idle" /\ UNCHANGED <<tables, locks>>
      /\ started' \in 0 .. MaxWrites
  BY WritesAssumption DEF Begin, GoalInv, TypeOK
<1>2. \A x \in Writers \ {w} : job'[x] = job[x]
  BY <1>1 DEF GoalInv, TypeOK
<1>3. Quiet(w)
  <2>1. ASSUME NEW x \in Writers, Unlinking(x)
        PROVE  keyShare[job[x].goal] = {}
    BY <2>1 DEF GoalInv, WriterInv, DropHolds
  <2>2. QED
    BY <1>1, <1>2, <2>1 DEF Quiet, SameLocks, locks
<1>4. WriterInv(w)'
  BY <1>1, FreshInv DEF GoalInv, TypeOK, locks
<1>5. QED
  BY <1>1, <1>3, <1>4, RunningStep DEF GoalInv, TypeOK, locks

\* Beginning a statement other than an insert keeps the room for the others.
LEMMA BeginRoom ==
  ASSUME GoalInv, NEW w \in Writers, NEW j \in Job, Begin(w, j), j.op # "create"
  PROVE  RoomInv'
<1>1. Inserting' \subseteq Inserting
  BY DEF Inserting, Begin, GoalInv, TypeOK
<1>2. Unused \subseteq Unused'
  BY DEF Unused, Begin, tables, locks
<1>3. QED
  BY <1>1, <1>2, RoomKept DEF GoalInv

LEMMA CreateTaskStep ==
  ASSUME GoalInv, NEW w \in Writers, CreateTask(w)
  PROVE  GoalInv'
<1>1. PICK body \in Sent :
        RoomToInsert /\
        Begin(w, [IdleJob EXCEPT !.pc = "writing", !.op = "create",
                                 !.goal = body.goal, !.status = body.status])
  BY DEF CreateTask
<1> DEFINE j == [IdleJob EXCEPT !.pc = "writing", !.op = "create",
                                !.goal = body.goal, !.status = body.status]
<1>2. /\ j \in Job /\ j.pc = "writing" /\ j.op = "create" /\ j.done = {}
      /\ j.status \in Statuses
  BY IdleJobType DEF Job, Sent, IdleJob, Pcs
<1> HIDE DEF j
<1>3. Begin(w, j)
  BY <1>1 DEF j
<1>4. job'[w] = j => Asked(w)'
  BY <1>2 DEF Asked
<1>5. RoomInv'
  <2>1. Inserting' \subseteq Inserting \union {w} /\ Unused' = Unused
    BY <1>3 DEF Inserting, Unused, Begin, GoalInv, TypeOK, tables, locks
  <2>2. IsFiniteSet(Inserting) /\ IsFiniteSet(Unused)
    BY FiniteAssumption, FS_Subset DEF Inserting, Unused
  <2>3. /\ IsFiniteSet(Inserting \union {w})
        /\ Cardinality(Inserting \union {w}) <= Cardinality(Inserting) + 1
    <3>1. ASSUME NEW S, IsFiniteSet(S)
          PROVE  /\ IsFiniteSet(S \union {w})
                 /\ Cardinality(S \union {w}) <= Cardinality(S) + 1
      <4>1. /\ IsFiniteSet(S \union {w})
            /\ Cardinality(S \union {w})
                 = IF w \in S THEN Cardinality(S) ELSE Cardinality(S) + 1
        BY <3>1, FS_AddElement
      <4>2. Cardinality(S) \in Nat
        BY <3>1, FS_CardinalityType
      <4>3. QED
        BY <4>1, <4>2
    <3>2. QED
      BY <2>2, <3>1
  <2>4. IsFiniteSet(Inserting')
        /\ Cardinality(Inserting') <= Cardinality(Inserting \union {w})
    BY <2>1, <2>3, FS_Subset
  <2>5. Cardinality(Inserting) < Cardinality(Unused)
    BY <1>1 DEF RoomToInsert, Inserting
  <2>6. /\ Cardinality(Inserting) \in Nat /\ Cardinality(Inserting') \in Nat
        /\ Cardinality(Inserting \union {w}) \in Nat /\ Cardinality(Unused) \in Nat
    BY <2>2, <2>3, <2>4, FS_CardinalityType
  <2>7. QED
    BY <2>1, <2>3, <2>4, <2>5, <2>6 DEF RoomInv
<1>6. QED
  BY <1>2, <1>3, <1>4, <1>5, BeginStep

LEMMA PatchTaskStep ==
  ASSUME GoalInv, NEW w \in Writers, PatchTask(w)
  PROVE  GoalInv'
<1>1. PICK t \in Tasks, body \in SentPatch :
        Begin(w, [IdleJob EXCEPT !.pc = "writing", !.op = "patch", !.task = t,
                                 !.goal = body.goal, !.status = body.status])
  BY DEF PatchTask
<1> DEFINE j == [IdleJob EXCEPT !.pc = "writing", !.op = "patch", !.task = t,
                                !.goal = body.goal, !.status = body.status]
<1>2. /\ j \in Job /\ j.pc = "writing" /\ j.op = "patch" /\ j.done = {}
      /\ j.task \in Tasks
  BY IdleJobType DEF Job, SentPatch, IdleJob, Pcs
<1> HIDE DEF j
<1>3. Begin(w, j)
  BY <1>1 DEF j
<1>4. job'[w] = j => Asked(w)'
  BY <1>2 DEF Asked
<1>5. QED
  BY <1>2, <1>3, <1>4, BeginRoom, BeginStep

LEMMA DeleteTaskStep ==
  ASSUME GoalInv, NEW w \in Writers, DeleteTask(w)
  PROVE  GoalInv'
<1>1. PICK t \in Tasks :
        Begin(w, [IdleJob EXCEPT !.pc = "writing", !.op = "delete", !.task = t])
  BY DEF DeleteTask
<1> DEFINE j == [IdleJob EXCEPT !.pc = "writing", !.op = "delete", !.task = t]
<1>2. /\ j \in Job /\ j.pc = "writing" /\ j.op = "delete" /\ j.done = {}
      /\ j.task \in Tasks
  BY IdleJobType DEF Job, IdleJob, Pcs
<1> HIDE DEF j
<1>3. Begin(w, j)
  BY <1>1 DEF j
<1>4. job'[w] = j => Asked(w)'
  BY <1>2 DEF Asked
<1>5. QED
  BY <1>2, <1>3, <1>4, BeginRoom, BeginStep

LEMMA DeleteGoalStep ==
  ASSUME GoalInv, NEW w \in Writers, DeleteGoal(w)
  PROVE  GoalInv'
<1>1. PICK g \in Goals :
        Begin(w, [IdleJob EXCEPT !.pc = "dropping", !.op = "drop", !.goal = g])
  BY DEF DeleteGoal
<1> DEFINE j == [IdleJob EXCEPT !.pc = "dropping", !.op = "drop", !.goal = g]
<1>2. /\ j \in Job /\ j.pc = "dropping" /\ j.op = "drop" /\ j.done = {}
      /\ j.goal \in Goals
  BY IdleJobType DEF Job, IdleJob, Pcs
<1> HIDE DEF j
<1>3. Begin(w, j)
  BY <1>1 DEF j
<1>4. job'[w] = j => Asked(w)'
  BY <1>2 DEF Asked
<1>5. QED
  BY <1>2, <1>3, <1>4, BeginRoom, BeginStep

-----------------------------------------------------------------------------
(* A task write takes its row.                                             *)

LEMMA TriggerType ==
  ASSUME NEW old \in TaskRow, NEW row \in TaskRow
  PROVE  /\ set_task_completed_at(old, row) \in TaskRow
         /\ set_task_completed_at(old, row).state = row.state
         /\ set_task_completed_at(old, row).goal = row.goal
         /\ set_task_completed_at(old, row).status = row.status
         /\ set_task_completed_at(old, row).completed <=>
              /\ row.status = "completed"
              /\ \/ old.state # "live" \/ old.status # "completed"
                 \/ row.completed
BY DEF set_task_completed_at, TaskRow

LEMMA PatchedType ==
  ASSUME NEW row \in TaskRow, NEW j \in Job
  PROVE  /\ Patched(row, j) \in TaskRow
         /\ Patched(row, j).state = row.state
         /\ Patched(row, j).completed = row.completed
         /\ Patched(row, j).goal = IF j.goal = None THEN row.goal ELSE j.goal
BY DEF Patched, TaskRow, Job

LEMMA WriteTaskStep ==
  ASSUME GoalInv, NEW w \in Writers, job[w].pc = "writing",
         NEW t \in Tasks, NEW new \in TaskRow, NEW toCount \in SUBSET Goals,
         WriteTask(w, t, new, toCount), TaskBlockers(w, t) = {},
         new.state # "unused", new.goal # None => new.state = "live",
         new.goal = None /\ new.state = "live" => tasks[t].goal = None,
         Dated(t, new), toCount \subseteq Affected(tasks[t], new),
         Fires(tasks[t], new) => Affected(tasks[t], new) \subseteq toCount,
         RoomInv'
  PROVE  GoalInv'
<1>1. TypeOK /\ WriterInv(w) /\ taskLock[t] = None /\ tasks[t] \in TaskRow
  <2>1. TypeOK /\ WriterInv(w)
    BY DEF GoalInv
  <2>2. taskLock[t] \in {None, w}
    BY <2>1 DEF TaskBlockers
  <2>3. taskLock[t] # w
    BY <2>1 DEF WriterInv, HoldsOnly, Writing, Unlinking
  <2>4. QED
    BY <2>1, <2>2, <2>3 DEF TypeOK
<1>2. /\ taskLock' = [taskLock EXCEPT ![t] = w]
      /\ UNCHANGED <<tasks, goals, overlapped, goalLock, keyShare, started>>
  BY DEF WriteTask, tables
<1>3. /\ job' \in [Writers -> Job] /\ job'[w].pc = "checking"
      /\ job'[w].op = job[w].op /\ job'[w].task = t /\ job'[w].old = tasks[t]
      /\ job'[w].new = new /\ job'[w].todo = toCount
      /\ job'[w].done = job[w].done
      /\ \A x \in Writers \ {w} : job'[x] = job[x]
  <2> DEFINE p == [job[w] EXCEPT !.pc = "checking", !.task = t, !.old = tasks[t],
                                 !.new = new, !.todo = toCount]
  <2>1. job \in [Writers -> Job] /\ job[w] \in Job
    BY <1>1 DEF TypeOK
  <2>2. job' = [job EXCEPT ![w] = p]
    BY <2>1 DEF WriteTask, Job
  <2>3. /\ p.pc = "checking" /\ p.op = job[w].op /\ p.task = t
        /\ p.old = tasks[t] /\ p.new = new /\ p.todo = toCount
        /\ p.done = job[w].done
    BY <2>1 DEF Job
  <2>4. p \in Job
    <3>1. tasks[t] \in TaskRow /\ "checking" \in Pcs
      BY <1>1 DEF Pcs
    <3>2. QED
      BY <2>1, <3>1 DEF Job
  <2> HIDE DEF p
  <2>5. QED
    BY <2>1, <2>2, <2>3, <2>4
<1>4. Quiet(w)
  <2>1. ASSUME NEW x \in Writers \ {w}
        PROVE  SameLocks(x)
    BY <1>1, <1>2, NoneAssumption DEF SameLocks, TypeOK
  <2>2. ASSUME NEW x \in Writers \ {w}, Unlinking(x)
        PROVE  keyShare'[job[x].goal] = {}
    BY <1>2, <2>2 DEF GoalInv, WriterInv, DropHolds
  <2>3. QED
    BY <1>2, <1>3, <2>1, <2>2 DEF Quiet, tables
<1>5. WriterInv(w)'
  <2>1. Writing(w)' /\ ~Checked(w)' /\ ~Unlinking(w)' /\ job'[w].done = {}
    BY <1>1, <1>3 DEF Writing, Checked, Unlinking, WriterInv, Prepared
  <2>2. Asked(w)'
    BY <1>1, <1>3 DEF WriterInv, Asked
  <2>3. Prepared(w)'
    BY <1>3, <2>1 DEF Prepared, Dated
  <2>4. HoldsOnly(w)'
    BY <1>1, <1>2, <1>3, <2>1
    DEF WriterInv, HoldsOnly, TypeOK, Writing, Unlinking, Checked, Prepared
  <2>5. ReadsHold(w)'
    BY <1>1, <1>2, <1>3, <2>1 DEF ReadsHold, TypeOK
  <2>6. DropHolds(w)' /\ CountsHold(w)'
    BY <1>3, <2>1 DEF DropHolds, CountsHold, Counted
  <2>7. QED
    BY <2>2, <2>3, <2>4, <2>5, <2>6 DEF WriterInv
<1>6. QED
  BY <1>1, <1>2, <1>3, <1>4, <1>5, RunningStep DEF TypeOK

\* A row that is written over a stored one uses up no id.
LEMMA OverwriteRoom ==
  ASSUME GoalInv, NEW w \in Writers, NEW t \in Tasks, tasks[t].state = "live",
         NEW new, NEW toCount, WriteTask(w, t, new, toCount)
  PROVE  RoomInv'
<1>1. Inserting' \subseteq Inserting
  BY DEF Inserting, WriteTask, GoalInv, TypeOK, Job
<1>2. Unused \subseteq Unused'
  BY DEF Unused, WriteTask, GoalInv, TypeOK, tables
<1>3. QED
  BY <1>1, <1>2, RoomKept DEF GoalInv

LEMMA InsertTaskStep ==
  ASSUME GoalInv, NEW w \in Writers, InsertTask(w)
  PROVE  GoalInv'
<1> DEFINE t   == CHOOSE u \in Unused : TRUE
           row == [NoTask EXCEPT !.state = "live", !.goal = job[w].goal,
                                 !.status = job[w].status]
           new == set_task_completed_at(tasks[t], row)
<1>1. /\ TypeOK /\ WriterInv(w) /\ job[w].pc = "writing" /\ job[w].op = "create"
      /\ job[w].status \in Statuses /\ job[w] \in Job
  BY DEF GoalInv, InsertTask, WriterInv, Asked, TypeOK
<1>2. /\ IsFiniteSet(Inserting) /\ IsFiniteSet(Unused) /\ w \in Inserting
      /\ Cardinality(Inserting) \in Nat /\ Cardinality(Unused) \in Nat
  <2>1. IsFiniteSet(Inserting) /\ IsFiniteSet(Unused)
    BY FiniteAssumption, FS_Subset DEF Inserting, Unused
  <2>2. QED
    BY <1>1, <2>1, FS_CardinalityType DEF Inserting
<1>3. \A S : IsFiniteSet(S) => \A x \in S :
        IsFiniteSet(S \ {x}) /\ Cardinality(S \ {x}) = Cardinality(S) - 1
  BY FS_RemoveElement
<1>4. t \in Unused
  <2>1. Cardinality(Inserting \ {w}) = Cardinality(Inserting) - 1
        /\ Cardinality(Inserting \ {w}) \in Nat
    BY <1>2, <1>3, FS_CardinalityType
  <2>2. Cardinality(Unused) # 0
    BY <1>2, <2>1 DEF GoalInv, RoomInv
  <2>3. Unused # {}
    BY <2>2, FS_EmptySet
  <2>4. QED
    BY <2>3
<1>5. t \in Tasks /\ tasks[t] \in TaskRow /\ tasks[t].state = "unused"
      /\ taskLock[t] = None /\ tasks[t].goal = None
  BY <1>1, <1>4 DEF Unused, TypeOK, GoalInv, RowsInv
<1>6. /\ row \in TaskRow /\ row.state = "live" /\ row.goal = job[w].goal
      /\ row.status = job[w].status
  BY <1>1, NoTaskType DEF TaskRow, RowStates, Job
<1>7. WriteTask(w, t, new, Affected(tasks[t], new))
  BY DEF InsertTask
<1> HIDE DEF row, t
<1>8. /\ new \in TaskRow /\ new.state = "live"
      /\ new.completed <=> new.status = "completed"
  BY <1>5, <1>6, TriggerType
<1> HIDE DEF new
<1>9. Affected(tasks[t], new) \in SUBSET Goals
  BY <1>5, <1>8 DEF Affected, TaskRow
<1>10. Dated(t, new)
  BY <1>8 DEF Dated
<1>11. RoomInv'
  <2>1. Inserting' \subseteq Inserting \ {w}
    BY <1>1, <1>7 DEF Inserting, WriteTask, TypeOK, Job
  <2>2. Unused \ {t} \subseteq Unused'
    BY <1>1, <1>7 DEF Unused, WriteTask, TypeOK, tables
  <2>3. /\ IsFiniteSet(Inserting \ {w}) /\ IsFiniteSet(Unused \ {t})
        /\ Cardinality(Inserting \ {w}) = Cardinality(Inserting) - 1
        /\ Cardinality(Unused \ {t}) = Cardinality(Unused) - 1
    BY <1>2, <1>3, <1>4
  <2>4. IsFiniteSet(Inserting')
        /\ Cardinality(Inserting') <= Cardinality(Inserting \ {w})
    BY <2>1, <2>3, FS_Subset
  <2>5. IsFiniteSet(Unused')
        /\ Cardinality(Unused \ {t}) <= Cardinality(Unused')
    <3>1. IsFiniteSet(Unused')
      BY FiniteAssumption, FS_Subset DEF Unused
    <3>2. QED
      BY <2>2, <3>1, FS_Subset
  <2>6. Cardinality(Inserting') \in Nat /\ Cardinality(Unused') \in Nat
    BY <2>4, <2>5, FS_CardinalityType
  <2>7. Cardinality(Inserting) <= Cardinality(Unused)
    BY DEF GoalInv, RoomInv
  <2>8. QED
    BY <1>2, <2>3, <2>4, <2>5, <2>6, <2>7 DEF RoomInv
<1>12. TaskBlockers(w, t) = {}
  BY <1>5 DEF TaskBlockers
<1>13. QED
  BY <1>1, <1>5, <1>7, <1>8, <1>9, <1>10, <1>11, <1>12, WriteTaskStep

LEMMA UpdateTaskStep ==
  ASSUME GoalInv, NEW w \in Writers, UpdateTask(w)
  PROVE  GoalInv'
<1> DEFINE t   == job[w].task
           row == Patched(tasks[t], job[w])
           new == set_task_completed_at(tasks[t], row)
           toCount == IF Fires(tasks[t], new) THEN Affected(tasks[t], new) ELSE {}
<1>1. CASE ~Stored(t)
  BY <1>1, FailStep DEF UpdateTask
<1>2. CASE Stored(t)
  <2>1. /\ WriterInv(w) /\ job[w].pc = "writing" /\ TaskBlockers(w, t) = {}
        /\ t \in Tasks /\ tasks[t] \in TaskRow /\ job[w] \in Job
        /\ tasks[t].state = "live" /\ WriteTask(w, t, new, toCount)
    BY <1>2 DEF UpdateTask, Stored, GoalInv, TypeOK
  <2>2. Dated(t, tasks[t])
    BY <2>1 DEF GoalInv, TasksInv, DoneViewIsCompleted, Dated, Stored, list_tasks,
                TaskRow
  <2>3. /\ row \in TaskRow /\ row.state = "live"
        /\ row.completed = tasks[t].completed
        /\ row.goal = None => tasks[t].goal = None
    BY <2>1, PatchedType
  <2>4. /\ new \in TaskRow /\ new.state = "live" /\ new.goal = row.goal
        /\ new.status = row.status
        /\ new.completed <=>
             row.status = "completed"
               /\ (tasks[t].status # "completed" \/ tasks[t].completed)
    <3> HIDE DEF row
    <3>1. QED
      BY <2>1, <2>3, TriggerType
  <2> HIDE DEF new, row
  <2>5. Dated(t, new)
    BY <2>1, <2>2, <2>4 DEF Dated, TaskRow
  <2>6. toCount \in SUBSET Goals /\ toCount \subseteq Affected(tasks[t], new)
        /\ (Fires(tasks[t], new) => Affected(tasks[t], new) \subseteq toCount)
    BY <2>1, <2>4 DEF Affected, TaskRow
  <2> HIDE DEF t, toCount
  <2>7. RoomInv'
    BY <2>1, OverwriteRoom
  <2>8. QED
    BY <2>1, <2>3, <2>4, <2>5, <2>6, <2>7, WriteTaskStep
<1>3. QED
  BY <1>1, <1>2

LEMMA RemoveTaskStep ==
  ASSUME GoalInv, NEW w \in Writers, RemoveTask(w)
  PROVE  GoalInv'
<1> DEFINE t    == job[w].task
           gone == [NoTask EXCEPT !.state = "deleted"]
<1>1. CASE ~Stored(t)
  BY <1>1, FailStep DEF RemoveTask
<1>2. CASE Stored(t)
  <2>1. /\ WriterInv(w) /\ job[w].pc = "writing" /\ TaskBlockers(w, t) = {}
        /\ t \in Tasks /\ tasks[t] \in TaskRow /\ tasks[t].state = "live"
        /\ WriteTask(w, t, gone, Affected(tasks[t], gone))
    BY <1>2 DEF RemoveTask, Stored, GoalInv, TypeOK
  <2>2. gone \in TaskRow /\ gone.state = "deleted" /\ gone.goal = None
    BY NoTaskType DEF TaskRow, RowStates, NoTask
  <2> HIDE DEF gone, t
  <2>3. Dated(t, gone) /\ Affected(tasks[t], gone) \in SUBSET Goals
    BY <2>1, <2>2 DEF Dated, Affected, TaskRow
  <2>4. RoomInv'
    BY <2>1, OverwriteRoom
  <2>5. QED
    BY <2>1, <2>2, <2>3, <2>4, WriteTaskStep
<1>3. QED
  BY <1>1, <1>2

-----------------------------------------------------------------------------
(* A task write checks its foreign key and recounts its goals.             *)

\* A step that starts no insert and frees or uses no id.
LEMMA SameRoom ==
  ASSUME GoalInv, Inserting' \subseteq Inserting, UNCHANGED <<tasks, taskLock>>
  PROVE  RoomInv'
<1>1. Unused' = Unused
  BY DEF Unused
<1>2. QED
  BY <1>1, RoomKept DEF GoalInv

\* While a write holds its row, the goals it takes the task from and to exist:
\* no deletion can get past the row, or past the key it shares.
LEMMA AffectedExist ==
  ASSUME GoalInv, NEW w \in Writers, Checked(w),
         NEW g \in Affected(job[w].old, job[w].new)
  PROVE  g \in Goals /\ Existing(g)
<1>1. /\ WriterInv(w) /\ Writing(w) /\ job[w].task \in Tasks
      /\ job[w].old = tasks[job[w].task]
  BY DEF GoalInv, Checked, Writing, WriterInv, Prepared, ReadsHold
<1>2. CASE g = job[w].old.goal
  BY <1>1, <1>2 DEF Affected, GoalInv, TasksInv, NoOrphanTask, Existing
<1>3. CASE g # job[w].old.goal
  BY <1>1, <1>3 DEF Affected, NewLink, WriterInv, ReadsHold, Existing
<1>4. QED
  BY <1>2, <1>3

LEMMA CheckGoalStep ==
  ASSUME GoalInv, NEW w \in Writers, CheckGoal(w)
  PROVE  GoalInv'
<1>1. CASE ~(\A g \in NewLink(job[w]) : Existing(g))
  BY <1>1, FailStep DEF CheckGoal
<1>2. CASE \A g \in NewLink(job[w]) : Existing(g)
  <2>1. /\ TypeOK /\ WriterInv(w) /\ job[w].pc = "checking" /\ job[w] \in Job
        /\ KeepGoals(w) /\ job' = [job EXCEPT ![w].pc = "counting"]
        /\ \A g \in NewLink(job[w]) : LinkBlockers(w, g) = {}
        /\ UNCHANGED <<tasks, goals, overlapped, taskLock, goalLock, started>>
    BY <1>2 DEF CheckGoal, GoalInv, TypeOK, tables
  <2>2. /\ job' \in [Writers -> Job] /\ job'[w].pc = "counting"
        /\ job'[w].op = job[w].op /\ job'[w].task = job[w].task
        /\ job'[w].old = job[w].old /\ job'[w].new = job[w].new
        /\ job'[w].todo = job[w].todo /\ job'[w].done = job[w].done
        /\ \A x \in Writers \ {w} : job'[x] = job[x]
    BY <2>1 DEF TypeOK, Job, Pcs
  <2>3. NewLink(job[w]) \subseteq Goals /\ NewLink(job[w])' = NewLink(job[w])
    BY <2>1, <2>2 DEF NewLink, Job, TaskRow
  <2>4. keyShare' \in [Goals -> SUBSET Writers]
    BY <2>1 DEF KeepGoals, TypeOK
  <2>5. Quiet(w)
    <3>1. ASSUME NEW x \in Writers \ {w}
          PROVE  SameLocks(x)
      BY <2>1 DEF SameLocks, KeepGoals, TypeOK
    <3>2. ASSUME NEW x \in Writers \ {w}, Unlinking(x)
          PROVE  keyShare'[job[x].goal] = {}
      <4>1. /\ job[x].goal \in Goals /\ goalLock[job[x].goal] = x /\ Deleting(x)
            /\ keyShare[job[x].goal] = {}
        BY <3>2 DEF GoalInv, WriterInv, DropHolds, Asked, Unlinking, Deleting
      <4>2. job[x].goal \notin NewLink(job[w])
        BY <2>1, <4>1, NoneAssumption DEF LinkBlockers
      <4>3. QED
        BY <2>1, <4>1, <4>2 DEF KeepGoals
    <3>3. QED
      BY <2>1, <2>2, <3>1, <3>2 DEF Quiet, tables
  <2>6. WriterInv(w)'
    <3>1. /\ Writing(w) /\ ~Checked(w) /\ ~Unlinking(w)
          /\ Writing(w)' /\ Checked(w)' /\ ~Unlinking(w)'
      BY <2>1, <2>2 DEF Writing, Checked, Unlinking
    <3>2. Asked(w)'
      BY <2>1, <2>2 DEF WriterInv, Asked
    <3>3. Prepared(w)'
      BY <2>1, <2>2, <3>1 DEF WriterInv, Prepared, Dated
    <3>4. HoldsOnly(w)'
      BY <2>1, <2>2, <2>3, <3>1 DEF WriterInv, HoldsOnly, KeepGoals
    <3>5. job'[w].done = {}
      BY <2>1, <2>2, <3>1 DEF WriterInv, Prepared
    <3>6. ReadsHold(w)'
      BY <1>2, <2>1, <2>2, <2>3, <3>1, <3>5
      DEF WriterInv, ReadsHold, KeepGoals, Existing
    <3>7. DropHolds(w)' /\ CountsHold(w)'
      BY <2>2, <3>1, <3>5 DEF DropHolds, CountsHold, Counted
    <3>8. QED
      BY <3>2, <3>3, <3>4, <3>6, <3>7 DEF WriterInv
  <2>7. RoomInv'
    <3>1. Inserting' \subseteq Inserting
      BY <2>2 DEF Inserting
    <3>2. QED
      BY <2>1, <3>1, SameRoom
  <2>8. QED
    BY <2>1, <2>2, <2>4, <2>5, <2>6, <2>7, RunningStep DEF TypeOK
<1>3. QED
  BY <1>1, <1>2

LEMMA CountTasksStep ==
  ASSUME GoalInv, NEW w \in Writers, CountTasks(w)
  PROVE  GoalInv'
<1>1. /\ TypeOK /\ WriterInv(w) /\ job[w].pc = "counting" /\ job[w] \in Job
      /\ UNCHANGED <<tasks, goals, overlapped, taskLock, goalLock, keyShare, started>>
  BY DEF CountTasks, GoalInv, TypeOK, tables, locks
<1>2. PICK g \in job[w].todo :
        job' = [job EXCEPT ![w].pc = "waiting", ![w].goal = g,
                           ![w].seen[g] = Recount(Written(w), g)]
  BY DEF CountTasks, Written
<1> DEFINE n == Recount(Written(w), g)
           p == [job[w] EXCEPT !.pc = "waiting", !.goal = g, !.seen[g] = n]
<1>3. n \in 0 .. 100 /\ g \in Goals
  BY <1>1, RecountType DEF Job
<1> HIDE DEF n
<1>4. /\ p.pc = "waiting" /\ p.op = job[w].op /\ p.task = job[w].task
      /\ p.old = job[w].old /\ p.new = job[w].new /\ p.goal = g
      /\ p.todo = job[w].todo /\ p.done = job[w].done /\ p.stale = job[w].stale
      /\ p.seen = [job[w].seen EXCEPT ![g] = n]
  BY <1>1 DEF Job
<1>5. p \in Job
  <2>1. "waiting" \in Pcs
    BY DEF Pcs
  <2>2. QED
    BY <1>1, <1>3, <2>1 DEF Job
<1>6. job' = [job EXCEPT ![w] = p]
  BY <1>1, <1>2 DEF TypeOK, Job, n
<1> HIDE DEF p
<1>7. /\ job' \in [Writers -> Job] /\ job'[w] = p
      /\ \A x \in Writers \ {w} : job'[x] = job[x]
  BY <1>1, <1>5, <1>6 DEF TypeOK
<1>8. Quiet(w)
  <2>1. ASSUME NEW x \in Writers, Unlinking(x)
        PROVE  keyShare[job[x].goal] = {}
    BY <2>1 DEF GoalInv, WriterInv, DropHolds
  <2>2. QED
    BY <1>1, <1>7, <2>1 DEF Quiet, SameLocks, tables
<1>9. WriterInv(w)'
  <2>1. /\ Writing(w) /\ Checked(w) /\ ~Unlinking(w)
        /\ Writing(w)' /\ Checked(w)' /\ ~Unlinking(w)'
    BY <1>1, <1>4, <1>7 DEF Writing, Checked, Unlinking
  <2>2. NewLink(job[w])' = NewLink(job[w])
    BY <1>4, <1>7 DEF NewLink
  <2>3. Asked(w)'
    BY <1>1, <1>4, <1>7 DEF WriterInv, Asked
  <2>4. Prepared(w)'
    BY <1>1, <1>4, <1>7, <2>1 DEF WriterInv, Prepared, Dated
  <2>5. HoldsOnly(w)'
    BY <1>1, <1>4, <1>7, <2>1, <2>2 DEF WriterInv, HoldsOnly
  <2>6. ReadsHold(w)'
    BY <1>1, <1>4, <1>7, <2>1, <2>2 DEF WriterInv, ReadsHold, Existing
  <2>7. DropHolds(w)'
    BY <2>1 DEF DropHolds
  <2>8. CountsHold(w)'
    <3>1. Counted(w)' = Counted(w) \union {g} /\ Written(w)' = Written(w)
      BY <1>1, <1>4, <1>7 DEF Counted, Written
    <3>2. ASSUME NEW h PROVE Recount(Written(w), h)' = Recount(Written(w), h)
      BY <3>1 DEF Recount, Linked
    <3>3. job[w].seen \in [Goals -> 0 .. 100] /\ Counted(w) \subseteq Goals
      BY <1>1 DEF Job, Counted
    <3>4. job'[w].seen[g] = Recount(Written(w), g)
      BY <1>3, <1>4, <1>7, <3>3 DEF n
    <3>5. ASSUME NEW h \in Counted(w), h # g
          PROVE  job'[w].seen[h] = job[w].seen[h]
      BY <1>4, <1>7, <3>3, <3>5
    <3>6. QED
      BY <1>1, <1>4, <1>7, <3>1, <3>2, <3>4, <3>5 DEF WriterInv, CountsHold
  <2>9. QED
    BY <2>3, <2>4, <2>5, <2>6, <2>7, <2>8 DEF WriterInv
<1>10. RoomInv'
  <2>1. Inserting' \subseteq Inserting
    BY <1>4, <1>7 DEF Inserting
  <2>2. QED
    BY <1>1, <2>1, SameRoom
<1>11. QED
  BY <1>1, <1>4, <1>7, <1>8, <1>9, <1>10, RunningStep DEF TypeOK

LEMMA UpdateGoalStep ==
  ASSUME GoalInv, NEW w \in Writers, UpdateGoal(w)
  PROVE  GoalInv'
<1> DEFINE g == job[w].goal
<1>1. /\ TypeOK /\ WriterInv(w) /\ job[w].pc = "waiting" /\ job[w] \in Job
      /\ UNCHANGED <<tasks, goals, overlapped, taskLock, keyShare, started>>
      /\ UpdateBlockers(w, g) = {}
  BY DEF UpdateGoal, GoalInv, TypeOK, tables
<1>2. /\ Writing(w) /\ Checked(w) /\ ~Unlinking(w)
      /\ g \in job[w].todo
  BY <1>1 DEF Writing, Checked, Unlinking, WriterInv, Prepared
<1>3. g \in Goals /\ Existing(g)
  <2>1. g \in Affected(job[w].old, job[w].new)
    BY <1>1, <1>2 DEF WriterInv, Prepared
  <2>2. QED
    BY <1>2, <2>1, AffectedExist
<1>4. /\ goalLock' = [goalLock EXCEPT ![g] = w]
      /\ job' = [job EXCEPT ![w].pc = "counting", ![w].todo = @ \ {g},
                            ![w].done = @ \union {g}]
  BY <1>1, <1>3 DEF UpdateGoal, TypeOK, Job
<1>5. goalLock[g] \in {None, w}
  BY <1>1 DEF UpdateBlockers
<1>6. /\ job'[w].pc = "counting" /\ job'[w].op = job[w].op
      /\ job'[w].task = job[w].task /\ job'[w].old = job[w].old
      /\ job'[w].new = job[w].new /\ job'[w].todo = job[w].todo \ {g}
      /\ job'[w].done = job[w].done \union {g} /\ job'[w].seen = job[w].seen
      /\ job'[w].stale = job[w].stale
      /\ \A x \in Writers \ {w} : job'[x] = job[x]
  BY <1>1, <1>4 DEF TypeOK, Job
<1>7. job' \in [Writers -> Job]
  <2> DEFINE p == [job[w] EXCEPT !.pc = "counting", !.todo = @ \ {g},
                                 !.done = @ \union {g}]
  <2>1. "counting" \in Pcs
    BY DEF Pcs
  <2>2. p \in Job
    BY <1>1, <1>3, <2>1 DEF Job
  <2>3. job' = [job EXCEPT ![w] = p]
    BY <1>1, <1>4 DEF TypeOK, Job
  <2> HIDE DEF p
  <2>4. QED
    BY <1>1, <2>2, <2>3 DEF TypeOK
<1> HIDE DEF g
<1>8. Quiet(w)
  <2>1. ASSUME NEW x \in Writers \ {w}
        PROVE  SameLocks(x)
    BY <1>1, <1>4, <1>5, NoneAssumption DEF SameLocks, TypeOK
  <2>2. ASSUME NEW x \in Writers, Unlinking(x)
        PROVE  keyShare[job[x].goal] = {}
    BY <2>2 DEF GoalInv, WriterInv, DropHolds
  <2>3. QED
    BY <1>1, <1>6, <2>1, <2>2 DEF Quiet, tables
<1>9. WriterInv(w)'
  <2>1. Writing(w)' /\ Checked(w)' /\ ~Unlinking(w)'
    BY <1>6 DEF Writing, Checked, Unlinking
  <2>2. NewLink(job[w])' = NewLink(job[w])
    BY <1>6 DEF NewLink
  <2>3. Asked(w)'
    BY <1>1, <1>6 DEF WriterInv, Asked
  <2>4. Prepared(w)'
    BY <1>1, <1>2, <1>6, <2>1 DEF WriterInv, Prepared, Dated
  <2>5. HoldsOnly(w)'
    BY <1>1, <1>2, <1>4, <1>6, <2>1, <2>2 DEF WriterInv, HoldsOnly, TypeOK
  <2>6. ReadsHold(w)'
    BY <1>1, <1>2, <1>3, <1>4, <1>6, <2>1, <2>2
    DEF WriterInv, ReadsHold, Existing, TypeOK
  <2>7. DropHolds(w)'
    BY <2>1 DEF DropHolds
  <2>8. CountsHold(w)'
    <3>1. Counted(w)' = Counted(w) /\ Written(w)' = Written(w)
      BY <1>1, <1>6 DEF Counted, Written, g
    <3>2. ASSUME NEW h PROVE Recount(Written(w), h)' = Recount(Written(w), h)
      BY <3>1 DEF Recount, Linked
    <3>3. QED
      BY <1>1, <1>6, <3>1, <3>2 DEF WriterInv, CountsHold
  <2>9. QED
    BY <2>3, <2>4, <2>5, <2>6, <2>7, <2>8 DEF WriterInv
<1>10. RoomInv'
  <2>1. Inserting' \subseteq Inserting
    BY <1>6 DEF Inserting
  <2>2. QED
    BY <1>1, <2>1, SameRoom
<1>11. goalLock' \in [Goals -> Writers \union {None}]
  BY <1>1, <1>4 DEF TypeOK
<1>12. QED
  BY <1>1, <1>6, <1>7, <1>8, <1>9, <1>10, <1>11, RunningStep DEF TypeOK

-----------------------------------------------------------------------------
(* The deletion of a goal locks it, and then its tasks.                    *)

LEMMA LockGoalStep ==
  ASSUME GoalInv, NEW w \in Writers, LockGoal(w)
  PROVE  GoalInv'
<1> DEFINE g == job[w].goal
<1>1. CASE ~Existing(g)
  BY <1>1, FailStep DEF LockGoal
<1>2. CASE Existing(g)
  <2>1. /\ TypeOK /\ WriterInv(w) /\ job[w].pc = "dropping" /\ job[w] \in Job
        /\ UNCHANGED <<tasks, goals, overlapped, taskLock, keyShare, started>>
        /\ DeleteBlockers(w, g) = {} /\ g \in Goals
        /\ goalLock' = [goalLock EXCEPT ![g] = w]
        /\ job' = [job EXCEPT ![w].pc = "unlinking",
                              ![w].links = Linked(tasks, g)]
    BY <1>2 DEF LockGoal, GoalInv, TypeOK, tables, Existing
  <2>2. goalLock[g] \in {None, w} /\ keyShare[g] = {}
    <3>1. goalLock[g] \in {None, w} /\ keyShare[g] \subseteq {w}
      BY <2>1 DEF DeleteBlockers, UpdateBlockers
    <3>2. w \notin keyShare[g]
      BY <2>1 DEF WriterInv, HoldsOnly, Checked
    <3>3. QED
      BY <3>1, <3>2
  <2>3. /\ job'[w].pc = "unlinking" /\ job'[w].op = job[w].op
        /\ job'[w].goal = g /\ job'[w].links = Linked(tasks, g)
        /\ job'[w].done = job[w].done
        /\ \A x \in Writers \ {w} : job'[x] = job[x]
    BY <2>1 DEF TypeOK, Job
  <2>4. job' \in [Writers -> Job]
    <3> DEFINE p == [job[w] EXCEPT !.pc = "unlinking", !.links = Linked(tasks, g)]
    <3>1. "unlinking" \in Pcs /\ Linked(tasks, g) \subseteq Tasks
      BY DEF Pcs, Linked
    <3>2. p \in Job
      BY <2>1, <3>1 DEF Job
    <3>3. job' = [job EXCEPT ![w] = p]
      BY <2>1 DEF TypeOK, Job
    <3> HIDE DEF p
    <3>4. QED
      BY <2>1, <3>2, <3>3 DEF TypeOK
  <2> HIDE DEF g
  <2>5. Quiet(w)
    <3>1. ASSUME NEW x \in Writers \ {w}
          PROVE  SameLocks(x)
      BY <2>1, <2>2, NoneAssumption DEF SameLocks, TypeOK
    <3>2. ASSUME NEW x \in Writers, Unlinking(x)
          PROVE  keyShare[job[x].goal] = {}
      BY <3>2 DEF GoalInv, WriterInv, DropHolds
    <3>3. QED
      BY <2>1, <2>3, <3>1, <3>2 DEF Quiet, tables
  <2>6. WriterInv(w)'
    <3>1. /\ ~Writing(w) /\ ~Checked(w) /\ ~Unlinking(w)
          /\ ~Writing(w)' /\ ~Checked(w)' /\ Unlinking(w)'
          /\ job[w].done = {} /\ job'[w].done = {}
      BY <2>1, <2>3 DEF Writing, Checked, Unlinking, WriterInv, Prepared
    <3>2. Asked(w)'
      BY <2>1, <2>3 DEF WriterInv, Asked
    <3>3. Prepared(w)' /\ CountsHold(w)'
      BY <2>3, <3>1 DEF Prepared, CountsHold, Counted
    <3>4. HoldsOnly(w)'
      BY <2>1, <2>3, <3>1 DEF WriterInv, HoldsOnly, TypeOK
    <3>5. ReadsHold(w)'
      BY <3>1 DEF ReadsHold
    <3>6. DropHolds(w)'
      <4>1. \A t \in Tasks : tasks[t].goal = g => t \in Linked(tasks, g)
        BY <2>1, NoneAssumption DEF GoalInv, RowsInv, Linked
      <4>2. \A t \in Linked(tasks, g) : tasks[t].state # "unused"
        BY DEF Linked
      <4>3. QED
        BY <1>2, <2>1, <2>2, <2>3, <4>1, <4>2 DEF DropHolds, Existing, TypeOK, g
    <3>7. QED
      BY <3>2, <3>3, <3>4, <3>5, <3>6 DEF WriterInv
  <2>7. RoomInv'
    <3>1. Inserting' \subseteq Inserting
      BY <2>3 DEF Inserting
    <3>2. QED
      BY <2>1, <3>1, SameRoom
  <2>8. goalLock' \in [Goals -> Writers \union {None}]
    BY <2>1 DEF TypeOK
  <2>9. QED
    BY <2>1, <2>3, <2>4, <2>5, <2>6, <2>7, <2>8, RunningStep DEF TypeOK
<1>3. QED
  BY <1>1, <1>2

LEMMA LockLinkedStep ==
  ASSUME GoalInv, NEW w \in Writers, LockLinked(w)
  PROVE  GoalInv'
<1>1. /\ TypeOK /\ WriterInv(w) /\ job[w].pc = "unlinking" /\ job[w] \in Job
      /\ UNCHANGED <<tasks, goals, overlapped, goalLock, keyShare, job, started>>
  BY DEF LockLinked, GoalInv, TypeOK, tables
<1>2. PICK t \in ToUnlink(w) :
        TaskBlockers(w, t) = {} /\ taskLock' = [taskLock EXCEPT ![t] = w]
  BY DEF LockLinked
<1>3. /\ t \in job[w].links /\ t \in Tasks /\ taskLock[t] = None
      /\ tasks[t].state # "unused"
  BY <1>1, <1>2
  DEF ToUnlink, TaskBlockers, WriterInv, DropHolds, Unlinking, Job
<1>4. Quiet(w)
  <2>1. ASSUME NEW x \in Writers \ {w}
        PROVE  SameLocks(x)
    BY <1>1, <1>2, <1>3, NoneAssumption DEF SameLocks, TypeOK
  <2>2. ASSUME NEW x \in Writers, Unlinking(x)
        PROVE  keyShare[job[x].goal] = {}
    BY <2>2 DEF GoalInv, WriterInv, DropHolds
  <2>3. QED
    BY <1>1, <2>1, <2>2 DEF Quiet, tables
<1>5. WriterInv(w)'
  <2>1. /\ ~Writing(w) /\ ~Checked(w) /\ Unlinking(w)
        /\ ~Writing(w)' /\ ~Checked(w)' /\ Unlinking(w)'
        /\ job[w].done = {}
    BY <1>1 DEF Writing, Checked, Unlinking, WriterInv, Prepared
  <2>2. Asked(w)'
    BY <1>1 DEF WriterInv, Asked
  <2>3. Prepared(w)' /\ CountsHold(w)'
    BY <1>1, <2>1 DEF Prepared, CountsHold, Counted
  <2>4. HoldsOnly(w)'
    BY <1>1, <1>2, <1>3, <2>1 DEF WriterInv, HoldsOnly, TypeOK
  <2>5. ReadsHold(w)'
    BY <1>1, <2>1 DEF ReadsHold
  <2>6. DropHolds(w)'
    BY <1>1, <2>1 DEF WriterInv, DropHolds, Existing
  <2>7. QED
    BY <2>2, <2>3, <2>4, <2>5, <2>6 DEF WriterInv
<1>6. RoomInv'
  <2>1. Inserting' = Inserting
    BY <1>1 DEF Inserting
  <2>2. Unused \subseteq Unused'
    BY <1>1, <1>2, <1>3 DEF Unused, TypeOK
  <2>3. QED
    BY <2>1, <2>2, RoomKept DEF GoalInv
<1>7. taskLock' \in [Tasks -> Writers \union {None}]
  BY <1>1, <1>2 DEF TypeOK
<1>8. QED
  BY <1>1, <1>4, <1>5, <1>6, <1>7, RunningStep DEF TypeOK

-----------------------------------------------------------------------------
(* A task write commits.                                                   *)

\* What a commit changes: one task, the progress of the goals it counted.
CommitsTask(w) ==
  /\ TypeOK /\ WriterInv(w) /\ job[w] \in Job /\ job[w].pc = "counting"
  /\ Writing(w) /\ Checked(w) /\ job[w].todo = {}
  /\ job[w].task \in Tasks /\ tasks' = Written(w)
  /\ tasks[job[w].task] = job[w].old /\ tasks'[job[w].task] = job[w].new
  /\ \A t \in Tasks \ {job[w].task} : tasks'[t] = tasks[t]
  /\ \A g \in Goals : goals'[g].state = goals[g].state
  /\ \A g \in job[w].done : goals'[g].progress = job[w].seen[g]
  /\ \A g \in Goals \ job[w].done : goals'[g] = goals[g]
  /\ overlapped' = (overlapped \ job[w].done)
                     \union (job[w].done \intersect job[w].stale)
  /\ job'[w] = IdleJob
  /\ \A x \in Writers \ {w} :
       /\ job'[x] \in Job
       /\ SameStatement(x)
       /\ job'[x].stale =
            job[x].stale \union (Counted(x) \intersect Outdated(job[w]))
  /\ Release(w)
  /\ UNCHANGED started

LEMMA CommitTaskFacts ==
  ASSUME GoalInv, NEW w \in Writers, CommitTask(w)
  PROVE  /\ CommitsTask(w)
         /\ tasks' \in [Tasks -> TaskRow] /\ goals' \in [Goals -> GoalRow]
         /\ job' \in [Writers -> Job]
<1> DEFINE j == job[w]
<1>1. /\ TypeOK /\ WriterInv(w) /\ j \in Job /\ j.pc = "counting" /\ j.todo = {}
      /\ tasks' = [tasks EXCEPT ![j.task] = j.new]
      /\ goals' = [g \in Goals |-> IF g \in j.done
                     THEN [goals[g] EXCEPT !.progress = j.seen[g]] ELSE goals[g]]
      /\ overlapped' = (overlapped \ j.done) \union (j.done \intersect j.stale)
      /\ job' = [x \in Writers |->
                   IF x = w THEN IdleJob
                   ELSE [job[x] EXCEPT !.stale =
                           @ \union (Counted(x) \intersect Outdated(j))]]
      /\ Release(w) /\ started' = started
  BY DEF CommitTask, GoalInv, TypeOK
<1>2. Writing(w) /\ Checked(w) /\ j.task \in Tasks /\ j.old = tasks[j.task]
  BY <1>1 DEF Writing, Checked, WriterInv, Prepared, ReadsHold
<1>3. /\ tasks' \in [Tasks -> TaskRow] /\ tasks' = Written(w)
      /\ tasks'[j.task] = j.new
      /\ \A t \in Tasks \ {j.task} : tasks'[t] = tasks[t]
  <2>1. j.new \in TaskRow
    BY <1>1 DEF Job
  <2>2. QED
    BY <1>1, <1>2, <2>1 DEF TypeOK, Written
<1>4. /\ goals' \in [Goals -> GoalRow]
      /\ \A g \in Goals : goals'[g].state = goals[g].state
      /\ \A g \in j.done : goals'[g].progress = j.seen[g]
      /\ \A g \in Goals \ j.done : goals'[g] = goals[g]
  <2>1. j.seen \in [Goals -> 0 .. 100] /\ j.done \subseteq Goals
    BY <1>1 DEF Job
  <2> HIDE DEF j
  <2>2. QED
    BY <1>1, <2>1 DEF TypeOK, GoalRow
<1>5. ASSUME NEW x \in Writers \ {w}
      PROVE  /\ job'[x] \in Job /\ SameStatement(x)
             /\ job'[x].stale =
                  job[x].stale \union (Counted(x) \intersect Outdated(j))
  <2> DEFINE more == job[x].stale \union (Counted(x) \intersect Outdated(j))
  <2>1. job'[x] = [job[x] EXCEPT !.stale = more] /\ job[x] \in Job
    BY <1>1 DEF TypeOK
  <2>2. more \subseteq Goals
    <3>1. job[x].stale \subseteq Goals
      BY <2>1 DEF Job
    <3>2. Counted(x) \subseteq Goals
      <4>1. job[x].done \subseteq Goals /\ job[x].todo \subseteq Goals
        BY <2>1 DEF Job
      <4>2. job[x].pc = "waiting" => job[x].goal \in job[x].todo
        BY DEF GoalInv, WriterInv, Prepared
      <4>3. QED
        BY <4>1, <4>2 DEF Counted
    <3>3. QED
      BY <3>1, <3>2
  <2> HIDE DEF more
  <2>3. job'[x] \in Job /\ SameStatement(x) /\ job'[x].stale = more
    BY <2>1, <2>2 DEF Job, SameStatement
  <2>4. QED
    BY <2>3 DEF more
<1>6. job' \in [Writers -> Job] /\ job'[w] = IdleJob
  <2>1. job'[w] = IdleJob
    BY <1>1
  <2>2. \A x \in Writers : job'[x] \in Job
    BY <1>5, <2>1, IdleJobType
  <2>3. job' = [x \in Writers |-> job'[x]]
    BY <1>1
  <2>4. QED
    BY <2>1, <2>2, <2>3
<1>7. QED
  BY <1>1, <1>2, <1>3, <1>4, <1>5, <1>6 DEF CommitsTask

\* Counts that a commit does not make wrong stay right.
LEMMA CommitRecounts ==
  ASSUME GoalInv, NEW w \in Writers, CommitsTask(w),
         NEW A, NEW B, NEW g \in Goals,
         g \notin Outdated(job[w]),
         \A t \in Tasks \ {job[w].task} : A[t] = B[t],
         A[job[w].task] = job[w].old, B[job[w].task] = job[w].new
  PROVE  Recount(A, g) = Recount(B, g)
<1>1. /\ job[w].old.goal # None => job[w].old.state = "live"
      /\ job[w].new.goal # None => job[w].new.state = "live"
      /\ Fires(job[w].old, job[w].new) =>
           g \notin {job[w].old.goal, job[w].new.goal}
  BY DEF CommitsTask, GoalInv, RowsInv, WriterInv, Prepared, Outdated
<1>2. Agrees(job[w].old, job[w].new, g)
  BY <1>1, UnaffectedAgrees
<1>3. \A t \in Tasks : Agrees(A[t], B[t], g)
  BY <1>2 DEF Agrees
<1>4. QED
  BY <1>3, RecountAgrees

LEMMA CommitTaskOthers ==
  ASSUME GoalInv, NEW w \in Writers, CommitsTask(w), NEW x \in Writers \ {w}
  PROVE  WriterInv(x)'
<1>1. /\ TypeOK /\ WriterInv(x) /\ StatementInv(x) /\ SameStatement(x)
      /\ job[x] \in Job
  BY DEF GoalInv, WriterInv, StatementInv, CommitsTask, TypeOK
<1>2. SameLocks(x) /\ \A g \in Goals : keyShare'[g] \subseteq keyShare[g]
  BY ReleaseLocks DEF CommitsTask
<1>3. Writing(x) => job[x].task \in Tasks \ {job[w].task}
  BY DEF CommitsTask, GoalInv, WriterInv, Prepared, ReadsHold
<1>4. SameRows(x)
  <2>1. Writing(x) => tasks'[job[x].task] = tasks[job[x].task]
    BY <1>3 DEF CommitsTask
  <2>2. Checked(x) => \A g \in NewLink(job[x]) : Existing(g)'
    BY <1>1 DEF WriterInv, ReadsHold, CommitsTask, Existing
  <2>3. ASSUME Unlinking(x)
        PROVE  /\ Existing(job[x].goal)' /\ keyShare'[job[x].goal] = {}
               /\ \A t \in Tasks : tasks'[t].goal = job[x].goal =>
                    t \in job[x].links
               /\ \A t \in job[x].links : tasks'[t].state # "unused"
    <3>1. /\ Existing(job[x].goal) /\ keyShare[job[x].goal] = {}
          /\ job[x].goal \in Goals /\ job[x].links \subseteq Tasks
          /\ \A t \in Tasks : tasks[t].goal = job[x].goal => t \in job[x].links
          /\ \A t \in job[x].links : tasks[t].state # "unused"
      BY <1>1, <2>3 DEF WriterInv, DropHolds, Asked, Unlinking, Job
    <3>2. Existing(job[x].goal)' /\ keyShare'[job[x].goal] = {}
      BY <1>1, <1>2, <3>1 DEF CommitsTask, Existing, SameStatement
    <3>3. job[w].new.goal = job[x].goal => job[w].task \in job[x].links
      <4>1. job[x].goal \notin NewLink(job[w])
        BY <3>1 DEF CommitsTask, WriterInv, ReadsHold
      <4>2. job[w].new.goal = job[x].goal => job[w].old.goal = job[x].goal
        BY <3>1, <4>1, NoneAssumption DEF NewLink
      <4>3. QED
        BY <3>1, <4>2 DEF CommitsTask
    <3>4. job[w].new.state # "unused"
      BY DEF CommitsTask, WriterInv, Prepared
    <3>5. QED
      BY <3>1, <3>2, <3>3, <3>4 DEF CommitsTask
  <2>4. QED
    BY <2>1, <2>2, <2>3 DEF SameRows
<1>5. StatementInv(x)'
  BY <1>1, <1>2, <1>4, OthersKeep
<1>6. CountsHold(x)'
  <2>1. /\ Counted(x)' = Counted(x) /\ job'[x].seen = job[x].seen
        /\ job'[x].task = job[x].task /\ job'[x].new = job[x].new
    BY <1>1 DEF SameStatement, Counted
  <2>2. job'[x].stale =
          job[x].stale \union (Counted(x) \intersect Outdated(job[w]))
    BY DEF CommitsTask
  <2>3. ASSUME NEW g \in Counted(x), g \notin Outdated(job[w])
        PROVE  Recount(Written(x), g)' = Recount(Written(x), g)
    <3>1. Writing(x) /\ g \in Goals
      <4>1. Checked(x)
        BY <1>1, <2>3 DEF WriterInv, Prepared, Counted, Checked
      <4>2. job[x].done \subseteq Goals /\ job[x].todo \subseteq Goals
        BY <1>1 DEF Job
      <4>3. QED
        BY <1>1, <2>3, <4>1, <4>2
        DEF WriterInv, Prepared, Counted, Checked, Writing
    <3> DEFINE A == Written(x)
               B == [tasks' EXCEPT ![job[x].task] = job[x].new]
    <3>2. Written(x)' = B
      BY <2>1 DEF Written
    <3>3. /\ \A t \in Tasks \ {job[w].task} : A[t] = B[t]
          /\ A[job[w].task] = job[w].old /\ B[job[w].task] = job[w].new
      <4>1. /\ tasks \in [Tasks -> TaskRow] /\ tasks' \in [Tasks -> TaskRow]
            /\ job[w].task \in Tasks /\ job[x].task \in Tasks \ {job[w].task}
        <5>1. job[w].new \in TaskRow
          BY DEF CommitsTask, Job
        <5>2. QED
          BY <1>1, <1>3, <3>1, <5>1 DEF TypeOK, CommitsTask, Written
      <4>2. QED
        BY <4>1 DEF CommitsTask, Written
    <3>4. Recount(A, g) = Recount(B, g)
      <4> HIDE DEF A, B
      <4>1. QED
        BY <2>3, <3>1, <3>3, CommitRecounts
    <3>5. Recount(Written(x), g)' = Recount(B, g)
      BY <3>2 DEF Recount, Linked
    <3>6. QED
      BY <3>4, <3>5
  <2>4. QED
    BY <1>1, <2>1, <2>2, <2>3 DEF WriterInv, CountsHold
<1>7. QED
  BY <1>5, <1>6 DEF WriterInv, StatementInv

LEMMA CommitTaskStep ==
  ASSUME GoalInv, NEW w \in Writers, CommitTask(w)
  PROVE  GoalInv'
<1> DEFINE t == job[w].task
<1>1. /\ CommitsTask(w) /\ TypeOK
      /\ tasks' \in [Tasks -> TaskRow] /\ goals' \in [Goals -> GoalRow]
      /\ job' \in [Writers -> Job]
  BY CommitTaskFacts DEF GoalInv
<1>2. /\ WriterInv(w) /\ Writing(w) /\ Checked(w)
      /\ Prepared(w) /\ ReadsHold(w) /\ CountsHold(w)
      /\ t \in Tasks /\ taskLock[t] = w
      /\ job[w].done \subseteq Goals
  BY <1>1 DEF CommitsTask, WriterInv, ReadsHold, Job
<1>3. \A g \in Affected(job[w].old, job[w].new) : g \in Goals /\ Existing(g)
  BY <1>2, AffectedExist
<1>4. job[w].done \subseteq Affected(job[w].old, job[w].new)
  BY <1>2 DEF Prepared
<1>5. TypeOK'
  <2>1. overlapped' \in SUBSET Goals
    BY <1>1, <1>2 DEF CommitsTask, TypeOK
  <2>2. ASSUME NEW x \in Writers, job'[x].pc = "idle"
        PROVE  /\ \A u \in Tasks : taskLock'[u] # x
               /\ \A g \in Goals : goalLock'[g] # x /\ x \notin keyShare'[g]
    <3>1. CASE x = w
      BY <1>1, <3>1, ReleaseLocks DEF CommitsTask
    <3>2. CASE x # w
      <4>1. job[x].pc = "idle" /\ SameLocks(x)
        BY <1>1, <2>2, <3>2, ReleaseLocks DEF CommitsTask, SameStatement
      <4>2. QED
        BY <1>1, <4>1 DEF TypeOK, SameLocks
    <3>3. QED
      BY <3>1, <3>2
  <2>3. started' \in 0 .. MaxWrites
    BY <1>1 DEF CommitsTask, TypeOK
  <2>4. /\ taskLock' \in [Tasks -> Writers \union {None}]
        /\ goalLock' \in [Goals -> Writers \union {None}]
        /\ keyShare' \in [Goals -> SUBSET Writers]
    BY <1>1, ReleaseLocks DEF CommitsTask
  <2>5. QED
    BY <1>1, <2>1, <2>2, <2>3, <2>4 DEF TypeOK
<1>6. RowsInv'
  <2>1. ASSUME NEW u \in Tasks, tasks'[u].goal # None
        PROVE  tasks'[u].state = "live"
    BY <1>1, <1>2, <2>1 DEF CommitsTask, GoalInv, RowsInv, Prepared
  <2>2. ASSUME NEW g \in Goals, goals'[g].state = "unused"
        PROVE  goals'[g].progress = 0
    <3>1. goals[g].state = "unused"
      BY <1>1, <2>2 DEF CommitsTask
    <3>2. g \notin job[w].done
      BY <1>3, <1>4, <3>1 DEF Existing
    <3>3. QED
      BY <1>1, <3>1, <3>2 DEF CommitsTask, GoalInv, RowsInv
  <2>3. QED
    BY <2>1, <2>2 DEF RowsInv
<1>7. RoomInv'
  <2>1. Inserting' \subseteq Inserting
    <3>1. ASSUME NEW x \in Writers, job'[x].op = "create", job'[x].pc = "writing"
          PROVE  job[x].op = "create" /\ job[x].pc = "writing"
      BY <1>1, <3>1 DEF CommitsTask, SameStatement, IdleJob
    <3>2. QED
      BY <3>1 DEF Inserting
  <2>2. Unused \subseteq Unused'
    <3>1. ASSUME NEW u \in Unused
          PROVE  tasks'[u] = tasks[u] /\ taskLock'[u] = None
      <4>1. u \in Tasks /\ u # t /\ taskLock[u] = None
        BY <1>2, NoneAssumption DEF Unused
      <4>2. QED
        BY <1>1, <4>1, ReleaseLocks DEF CommitsTask
    <3>2. QED
      BY <3>1 DEF Unused
  <2>3. QED
    BY <2>1, <2>2, RoomKept DEF GoalInv
<1>8. \A x \in Writers : WriterInv(x)'
  <2>1. WriterInv(w)'
    BY <1>1, IdleInv, ReleaseLocks DEF CommitsTask
  <2>2. QED
    BY <1>1, <2>1, CommitTaskOthers
<1>9. TasksInv'
  <2>1. NoOrphanTask'
    <3>1. ASSUME NEW u \in Tasks, tasks'[u].goal # None
          PROVE  Existing(tasks'[u].goal)
      <4>1. CASE u = t
        BY <1>1, <1>3, <3>1, <4>1 DEF CommitsTask, Affected
      <4>2. CASE u # t
        BY <1>1, <3>1, <4>2 DEF CommitsTask, GoalInv, TasksInv, NoOrphanTask
      <4>3. QED
        BY <4>1, <4>2
    <3>2. QED
      BY <1>1, <3>1 DEF NoOrphanTask, Existing, CommitsTask
  <2>2. DoneViewIsCompleted'
    <3>1. ASSUME NEW u \in Tasks PROVE Dated(u, tasks'[u])
      <4>1. Dated(u, tasks[u])
        BY <1>1 DEF GoalInv, TasksInv, DoneViewIsCompleted, Dated, Stored,
                    list_tasks, TypeOK, TaskRow
      <4>2. QED
        BY <1>1, <1>2, <4>1 DEF CommitsTask, Prepared
    <3>2. QED
      BY <1>1, <3>1 DEF DoneViewIsCompleted, Dated, Stored, list_tasks
  <2>3. QED
    BY <2>1, <2>2 DEF TasksInv
<1>10. DriftOnlyFromOverlap'
  <2>1. ASSUME NEW g \in Goals, Existing(g)', goals'[g].progress # Recount(tasks', g)
        PROVE  g \in overlapped'
    <3>1. CASE g \in job[w].done
      <4>1. g \in Counted(w) /\ goals'[g].progress = job[w].seen[g]
            /\ tasks' = Written(w)
        BY <1>1, <3>1 DEF Counted, CommitsTask
      <4>2. g \in job[w].stale
        BY <1>2, <2>1, <4>1 DEF CountsHold
      <4>3. QED
        BY <1>1, <3>1, <4>2 DEF CommitsTask
    <3>2. CASE g \notin job[w].done
      <4>1. goals'[g] = goals[g] /\ Existing(g)
        BY <1>1, <2>1, <3>2 DEF CommitsTask, Existing
      <4>2. g \notin Outdated(job[w])
        <5>1. Fires(job[w].old, job[w].new) =>
                g \notin Affected(job[w].old, job[w].new)
          BY <1>1, <1>2, <3>2 DEF CommitsTask, Prepared
        <5>2. QED
          BY <5>1, NoneAssumption DEF Outdated, Affected
      <4>3. Recount(tasks, g) = Recount(tasks', g)
        BY <1>1, <4>2, CommitRecounts DEF CommitsTask
      <4>4. g \in overlapped
        BY <2>1, <4>1, <4>3 DEF GoalInv, DriftOnlyFromOverlap
      <4>5. QED
        BY <1>1, <3>2, <4>4 DEF CommitsTask
    <3>3. QED
      BY <3>1, <3>2
  <2>2. ASSUME NEW g PROVE Recount(tasks, g)' = Recount(tasks', g)
    BY DEF Recount, Linked
  <2>3. QED
    BY <2>1, <2>2 DEF DriftOnlyFromOverlap
<1>11. QED
  BY <1>5, <1>6, <1>7, <1>8, <1>9, <1>10 DEF GoalInv

-----------------------------------------------------------------------------
(* The deletion of a goal commits, and a goal is created.                  *)

\* What the deletion of goal g changes: the tasks that name it, and the goal.
CommitsDrop(w, g) ==
  /\ TypeOK /\ WriterInv(w) /\ job[w].pc = "unlinking" /\ Unlinking(w)
  /\ g = job[w].goal /\ g \in Goals
  /\ keyShare[g] = {} /\ goalLock[g] = w
  /\ \A t \in Tasks : tasks[t].goal = g =>
       /\ taskLock[t] = w
       /\ tasks'[t] = [tasks[t] EXCEPT !.goal = None]
  /\ \A t \in Tasks : tasks[t].goal # g => tasks'[t] = tasks[t]
  /\ tasks' \in [Tasks -> TaskRow]
  /\ goals' = [goals EXCEPT ![g] = [state |-> "deleted", progress |-> 0]]
  /\ overlapped' = overlapped \ {g}
  /\ job' = [job EXCEPT ![w] = IdleJob]
  /\ Release(w)
  /\ UNCHANGED started

LEMMA CommitDropFacts ==
  ASSUME GoalInv, NEW w \in Writers, CommitDrop(w)
  PROVE  CommitsDrop(w, job[w].goal)
<1> DEFINE g == job[w].goal
<1>1. /\ TypeOK /\ WriterInv(w) /\ job[w].pc = "unlinking" /\ Unlinking(w)
      /\ ToUnlink(w) = {}
      /\ tasks' = [t \in Tasks |-> IF Unlinks(w, t)
                     THEN [tasks[t] EXCEPT !.goal = None] ELSE tasks[t]]
  BY DEF CommitDrop, GoalInv, Unlinking
<1>2. /\ g \in Goals /\ keyShare[g] = {} /\ goalLock[g] = w
      /\ \A t \in Tasks : tasks[t].goal = g => t \in job[w].links
  BY <1>1 DEF WriterInv, Asked, DropHolds
<1>3. \A t \in Tasks : Unlinks(w, t) <=> tasks[t].goal = g
  BY <1>2 DEF Unlinks
<1>4. \A t \in Tasks : tasks[t].goal = g => taskLock[t] = w
  BY <1>1, <1>2 DEF ToUnlink
<1>5. tasks' \in [Tasks -> TaskRow]
  BY <1>1 DEF TypeOK, TaskRow
<1>6. QED
  BY <1>1, <1>2, <1>3, <1>4, <1>5 DEF CommitsDrop, CommitDrop

\* The rows as they become, field by field.
LEMMA DroppedRows ==
  ASSUME TypeOK, NEW w \in Writers, NEW g, CommitsDrop(w, g), NEW t \in Tasks
  PROVE  /\ tasks'[t].state = tasks[t].state
         /\ tasks'[t].status = tasks[t].status
         /\ tasks'[t].completed = tasks[t].completed
         /\ tasks'[t].goal = IF tasks[t].goal = g THEN None ELSE tasks[t].goal
         /\ \A h \in Goals \ {g} : Agrees(tasks[t], tasks'[t], h)
<1>1. tasks[t] \in TaskRow
  BY DEF TypeOK
<1>2. /\ tasks'[t].state = tasks[t].state
      /\ tasks'[t].status = tasks[t].status
      /\ tasks'[t].completed = tasks[t].completed
      /\ tasks'[t].goal = IF tasks[t].goal = g THEN None ELSE tasks[t].goal
  BY <1>1 DEF CommitsDrop, TaskRow
<1>3. QED
  BY <1>2, NoneAssumption DEF Agrees

LEMMA CommitDropOthers ==
  ASSUME GoalInv, NEW w \in Writers, NEW g, CommitsDrop(w, g),
         NEW x \in Writers \ {w}
  PROVE  WriterInv(x)'
<1>1. /\ TypeOK /\ WriterInv(x) /\ StatementInv(x) /\ job[x] \in Job
      /\ job'[x] = job[x] /\ SameStatement(x) /\ g \in Goals
  BY DEF GoalInv, WriterInv, StatementInv, CommitsDrop, TypeOK, SameStatement
<1>2. SameLocks(x) /\ \A h \in Goals : keyShare'[h] \subseteq keyShare[h]
  BY ReleaseLocks DEF CommitsDrop
<1>3. Writing(x) =>
        /\ job[x].task \in Tasks /\ job[x].old = tasks[job[x].task]
        /\ taskLock[job[x].task] = x
  BY <1>1 DEF WriterInv, Prepared, ReadsHold
<1>4. \A h \in Goals \ {g} : Existing(h) => goals'[h] = goals[h]
  BY <1>1 DEF CommitsDrop, TypeOK
<1>5. Checked(x) => g \notin Affected(job[x].old, job[x].new)
  <2>1. ASSUME Checked(x), g = job[x].old.goal
        PROVE  FALSE
    BY <1>3, <2>1 DEF CommitsDrop, Checked, Writing
  <2>2. ASSUME Checked(x), g \in NewLink(job[x])
        PROVE  FALSE
    BY <1>1, <2>2 DEF WriterInv, ReadsHold, CommitsDrop
  <2>3. QED
    BY <2>1, <2>2, <1>1, NoneAssumption DEF Affected, NewLink
<1>6. SameRows(x)
  <2>1. Writing(x) => tasks'[job[x].task] = tasks[job[x].task]
    BY <1>3 DEF CommitsDrop
  <2>2. Checked(x) => \A h \in NewLink(job[x]) : Existing(h)'
    <3>1. ASSUME Checked(x), NEW h \in NewLink(job[x])
          PROVE  Existing(h) /\ h # g
      BY <1>1, <1>5, <3>1 DEF WriterInv, ReadsHold, Affected, NewLink
    <3>2. QED
      BY <1>4, <3>1 DEF Existing
  <2>3. ASSUME Unlinking(x)
        PROVE  /\ Existing(job[x].goal)' /\ keyShare'[job[x].goal] = {}
               /\ \A t \in Tasks : tasks'[t].goal = job[x].goal =>
                    t \in job[x].links
               /\ \A t \in job[x].links : tasks'[t].state # "unused"
    <3>1. /\ Existing(job[x].goal) /\ keyShare[job[x].goal] = {}
          /\ job[x].goal \in Goals /\ job[x].links \subseteq Tasks
          /\ goalLock[job[x].goal] = x
          /\ \A t \in Tasks : tasks[t].goal = job[x].goal => t \in job[x].links
          /\ \A t \in job[x].links : tasks[t].state # "unused"
      BY <1>1, <2>3 DEF WriterInv, DropHolds, Asked, Unlinking, Job
    <3>2. job[x].goal # g
      BY <3>1 DEF CommitsDrop
    <3>3. Existing(job[x].goal)' /\ keyShare'[job[x].goal] = {}
      BY <1>1, <1>2, <1>4, <3>1, <3>2 DEF Existing
    <3>4. \A t \in Tasks : tasks'[t].state = tasks[t].state
      BY <1>1, DroppedRows
    <3>5. \A t \in Tasks : tasks'[t].goal = job[x].goal =>
                             tasks[t].goal = job[x].goal
      BY <1>1, <3>1, <3>2, DroppedRows, NoneAssumption
    <3>6. QED
      BY <3>1, <3>3, <3>4, <3>5
  <2>4. QED
    BY <2>1, <2>2, <2>3 DEF SameRows
<1>7. StatementInv(x)'
  BY <1>1, <1>2, <1>6, OthersKeep
<1>8. CountsHold(x)'
  <2>1. Counted(x)' = Counted(x)
    BY <1>1 DEF Counted
  <2>2. ASSUME NEW h \in Counted(x)
        PROVE  Recount(Written(x), h)' = Recount(Written(x), h)
    <3>1. Checked(x) /\ Writing(x) /\ h \in Goals \ {g}
      <4>1. Checked(x) /\ Writing(x)
        BY <1>1, <2>2 DEF WriterInv, Prepared, Counted, Checked, Writing
      <4>2. h \in Affected(job[x].old, job[x].new)
        BY <1>1, <2>2, <4>1 DEF WriterInv, Prepared, Counted
      <4>3. QED
        BY <1>5, <4>1, <4>2, AffectedExist
    <3> DEFINE A == Written(x)
               B == [tasks' EXCEPT ![job[x].task] = job[x].new]
    <3>2. \A t \in Tasks : Agrees(A[t], B[t], h)
      <4>1. tasks \in [Tasks -> TaskRow] /\ DOMAIN tasks' = Tasks
        BY <1>1 DEF TypeOK, CommitsDrop
      <4>2. A[job[x].task] = job[x].new /\ B[job[x].task] = job[x].new
        BY <1>3, <3>1, <4>1 DEF Written
      <4>3. ASSUME NEW t \in Tasks, t # job[x].task
            PROVE  A[t] = tasks[t] /\ B[t] = tasks'[t]
        BY <4>1, <4>3 DEF Written
      <4>4. \A t \in Tasks : Agrees(tasks[t], tasks'[t], h)
        BY <1>1, <3>1, DroppedRows
      <4>5. QED
        BY <4>2, <4>3, <4>4 DEF Agrees
    <3>3. Recount(A, h) = Recount(B, h)
      <4> HIDE DEF A, B
      <4>1. QED
        BY <3>2, RecountAgrees
    <3>4. Recount(Written(x), h)' = Recount(B, h)
      BY <1>1 DEF Recount, Linked, Written
    <3>5. QED
      BY <3>3, <3>4
  <2>3. QED
    BY <1>1, <2>1, <2>2 DEF WriterInv, CountsHold
<1>9. QED
  BY <1>7, <1>8 DEF WriterInv, StatementInv

LEMMA CommitDropStep ==
  ASSUME GoalInv, NEW w \in Writers, CommitDrop(w)
  PROVE  GoalInv'
<1> DEFINE g == job[w].goal
<1>1. CommitsDrop(w, g) /\ TypeOK /\ g \in Goals
  BY CommitDropFacts DEF CommitsDrop
<1> HIDE DEF g
<1>2. /\ \A h \in Goals \ {g} : goals'[h] = goals[h]
      /\ goals'[g].state = "deleted" /\ goals' \in [Goals -> GoalRow]
  BY <1>1 DEF CommitsDrop, TypeOK, GoalRow, RowStates
<1>3. /\ job' \in [Writers -> Job] /\ job'[w] = IdleJob
      /\ \A x \in Writers \ {w} : job'[x] = job[x] /\ SameLocks(x)
  BY <1>1, IdleJobType, ReleaseLocks DEF CommitsDrop, TypeOK
<1>4. TypeOK'
  <2>1. ASSUME NEW x \in Writers, job'[x].pc = "idle"
        PROVE  /\ \A t \in Tasks : taskLock'[t] # x
               /\ \A h \in Goals : goalLock'[h] # x /\ x \notin keyShare'[h]
    <3>1. CASE x = w
      BY <1>1, <3>1, ReleaseLocks DEF CommitsDrop
    <3>2. CASE x # w
      BY <1>1, <1>3, <2>1, <3>2 DEF TypeOK, SameLocks
    <3>3. QED
      BY <3>1, <3>2
  <2>2. /\ taskLock' \in [Tasks -> Writers \union {None}]
        /\ goalLock' \in [Goals -> Writers \union {None}]
        /\ keyShare' \in [Goals -> SUBSET Writers]
    BY <1>1, ReleaseLocks DEF CommitsDrop
  <2>3. /\ tasks' \in [Tasks -> TaskRow] /\ overlapped' \in SUBSET Goals
        /\ started' \in 0 .. MaxWrites
    BY <1>1 DEF CommitsDrop, TypeOK
  <2>4. QED
    BY <1>2, <1>3, <2>1, <2>2, <2>3 DEF TypeOK
<1>5. RowsInv'
  <2>1. ASSUME NEW t \in Tasks, tasks'[t].goal # None
        PROVE  tasks'[t].state = "live"
    BY <1>1, <2>1, DroppedRows DEF GoalInv, RowsInv
  <2>2. ASSUME NEW h \in Goals, goals'[h].state = "unused"
        PROVE  goals'[h].progress = 0
    BY <1>2, <2>2 DEF GoalInv, RowsInv
  <2>3. QED
    BY <2>1, <2>2 DEF RowsInv
<1>6. RoomInv'
  <2>1. Inserting' \subseteq Inserting
    BY <1>3 DEF Inserting, IdleJob
  <2>2. Unused \subseteq Unused'
    BY <1>1, ReleaseLocks, DroppedRows DEF Unused, CommitsDrop
  <2>3. QED
    BY <2>1, <2>2, RoomKept DEF GoalInv
<1>7. \A x \in Writers : WriterInv(x)'
  <2>1. WriterInv(w)'
    BY <1>1, <1>3, IdleInv, ReleaseLocks DEF CommitsDrop
  <2>2. QED
    BY <1>1, <2>1, CommitDropOthers
<1>8. TasksInv'
  <2>1. NoOrphanTask'
    <3>1. ASSUME NEW t \in Tasks, tasks'[t].goal # None
          PROVE  Existing(tasks'[t].goal) /\ tasks'[t].goal # g
      BY <1>1, <3>1, DroppedRows DEF GoalInv, TasksInv, NoOrphanTask
    <3>2. QED
      BY <1>2, <3>1 DEF NoOrphanTask, Existing
  <2>2. DoneViewIsCompleted'
    <3>1. \A t \in Tasks :
            /\ tasks'[t].state = tasks[t].state
            /\ tasks'[t].status = tasks[t].status
            /\ tasks'[t].completed = tasks[t].completed
      BY <1>1, DroppedRows
    <3>2. QED
      BY <3>1 DEF GoalInv, TasksInv, DoneViewIsCompleted, Stored, list_tasks
  <2>3. QED
    BY <2>1, <2>2 DEF TasksInv
<1>9. DriftOnlyFromOverlap'
  <2>1. ASSUME NEW h \in Goals, Existing(h)', goals'[h].progress # Recount(tasks', h)
        PROVE  h \in overlapped'
    <3>1. h # g /\ goals'[h] = goals[h] /\ Existing(h)
      BY <1>2, <2>1 DEF Existing
    <3>2. \A t \in Tasks : Agrees(tasks[t], tasks'[t], h)
      BY <1>1, <3>1, DroppedRows
    <3>3. Recount(tasks, h) = Recount(tasks', h)
      BY <3>2, RecountAgrees
    <3>4. QED
      BY <1>1, <2>1, <3>1, <3>3
      DEF GoalInv, DriftOnlyFromOverlap, CommitsDrop
  <2>2. ASSUME NEW h PROVE Recount(tasks, h)' = Recount(tasks', h)
    BY DEF Recount, Linked
  <2>3. QED
    BY <2>1, <2>2 DEF DriftOnlyFromOverlap
<1>10. QED
  BY <1>4, <1>5, <1>6, <1>7, <1>8, <1>9 DEF GoalInv

LEMMA CreateGoalStep ==
  ASSUME GoalInv, NEW g \in Goals, CreateGoal(g)
  PROVE  GoalInv'
<1>1. /\ TypeOK /\ goals[g].state = "unused" /\ goals[g].progress = 0
      /\ UNCHANGED <<tasks, taskLock, goalLock, keyShare, job, started, overlapped>>
  BY DEF CreateGoal, GoalInv, RowsInv, locks
<1>2. /\ goals' \in [Goals -> GoalRow]
      /\ goals'[g].state = "live" /\ goals'[g].progress = 0
      /\ \A h \in Goals \ {g} : goals'[h] = goals[h]
  BY <1>1 DEF CreateGoal, TypeOK, GoalRow, RowStates
<1>3. \A h : Existing(h) => Existing(h)'
  BY <1>2 DEF Existing
<1>4. ASSUME NEW h PROVE Recount(tasks, h)' = Recount(tasks, h)
  BY <1>1 DEF Recount, Linked
<1>5. TypeOK' /\ RowsInv' /\ RoomInv'
  BY <1>1, <1>2
  DEF GoalInv, TypeOK, RowsInv, RoomInv, Inserting, Unused
<1>6. ASSUME NEW x \in Writers PROVE WriterInv(x)'
  <2>1. WriterInv(x) /\ StatementInv(x) /\ SameStatement(x) /\ SameLocks(x)
    BY <1>1 DEF GoalInv, WriterInv, StatementInv, SameStatement, SameLocks
  <2>2. SameRows(x)
    BY <1>1, <1>3, <2>1 DEF SameRows, WriterInv, ReadsHold, DropHolds
  <2>3. StatementInv(x)'
    BY <1>1, <2>1, <2>2, OthersKeep
  <2>4. CountsHold(x)'
    <3>1. Counted(x)' = Counted(x) /\ Written(x)' = Written(x)
      BY <1>1 DEF Counted, Written
    <3>2. ASSUME NEW h PROVE Recount(Written(x), h)' = Recount(Written(x), h)
      BY <3>1 DEF Recount, Linked
    <3>3. QED
      BY <1>1, <2>1, <3>1, <3>2 DEF WriterInv, CountsHold
  <2>5. QED
    BY <2>3, <2>4 DEF WriterInv, StatementInv
<1>7. TasksInv'
  <2>1. NoOrphanTask'
    BY <1>1, <1>3 DEF GoalInv, TasksInv, NoOrphanTask
  <2>2. DoneViewIsCompleted'
    BY <1>1 DEF GoalInv, TasksInv, DoneViewIsCompleted, Stored, list_tasks
  <2>3. QED
    BY <2>1, <2>2 DEF TasksInv
<1>8. DriftOnlyFromOverlap'
  <2>1. Recount(tasks, g) = 0
    <3>1. \A t \in Tasks : tasks[t].goal # g
      BY <1>1, NoneAssumption DEF GoalInv, TasksInv, NoOrphanTask, Existing
    <3>2. QED
      BY <3>1, RecountEmpty
  <2>2. QED
    BY <1>1, <1>2, <1>4, <2>1 DEF GoalInv, DriftOnlyFromOverlap, Existing
<1>9. QED
  BY <1>5, <1>6, <1>7, <1>8 DEF GoalInv

-----------------------------------------------------------------------------
(* The invariant, and what follows from it.                                *)

LEMMA GoalInit == Init => GoalInv
<1> SUFFICES ASSUME Init
             PROVE  GoalInv
  OBVIOUS
<1>1. /\ tasks = Plan /\ taskLock = [t \in Tasks |-> None]
      /\ goalLock = [g \in Goals |-> None] /\ keyShare = [g \in Goals |-> {}]
      /\ job = [w \in Writers |-> IdleJob] /\ started = 0 /\ overlapped = {}
  BY DEF Init
<1>2. ASSUME NEW g \in Goals
      PROVE  /\ goals[g] \in GoalRow
             /\ goals[g].state = IF g \in Opened THEN "live" ELSE "unused"
             /\ goals[g].progress = Recount(tasks, g)
  BY <1>1, RecountType DEF Init, GoalRow, RowStates
<1>3. TypeOK
  <2>1. goals \in [Goals -> GoalRow]
    <3>1. goals = [g \in Goals |-> goals[g]]
      BY DEF Init
    <3>2. QED
      BY <1>2, <3>1
  <2>2. 0 \in 0 .. MaxWrites
    BY WritesAssumption
  <2>3. \A w \in Writers : /\ \A t \in Tasks : taskLock[t] # w
                           /\ \A g \in Goals : goalLock[g] # w /\ w \notin keyShare[g]
    BY <1>1, NoneAssumption
  <2>4. QED
    BY <1>1, <2>1, <2>2, <2>3, IdleJobType, PlanAssumption DEF TypeOK
<1>4. RowsInv
  <2>1. ASSUME NEW g \in Goals, g \notin Opened
        PROVE  Recount(tasks, g) = 0
    <3>1. \A t \in Tasks : tasks[t].goal # g
      BY <1>1, <2>1, PlanAssumption, NoneAssumption
    <3>2. QED
      BY <3>1, RecountEmpty
  <2>2. QED
    BY <1>1, <1>2, <2>1, PlanAssumption DEF RowsInv
<1>5. RoomInv
  <2>1. Inserting = {}
    BY <1>1 DEF Inserting, IdleJob
  <2>2. IsFiniteSet(Unused)
    BY FiniteAssumption, FS_Subset DEF Unused
  <2>3. Cardinality(Unused) \in Nat
    BY <2>2, FS_CardinalityType
  <2>4. Cardinality(Inserting) = 0
    BY <2>1, FS_EmptySet
  <2>5. QED
    BY <2>3, <2>4 DEF RoomInv
<1>6. ASSUME NEW w \in Writers PROVE WriterInv(w)
  <2>1. /\ ~Writing(w) /\ ~Checked(w) /\ ~Unlinking(w)
        /\ job[w].pc = "idle" /\ job[w].done = {} /\ job[w].op = "none"
    BY <1>1 DEF Writing, Checked, Unlinking, IdleJob
  <2>2. Counted(w) = {}
    BY <2>1 DEF Counted
  <2>3. QED
    BY <1>1, <2>1, <2>2, NoneAssumption
    DEF WriterInv, Asked, Prepared, HoldsOnly, ReadsHold, DropHolds, CountsHold
<1>7. TasksInv
  <2>1. NoOrphanTask
    BY <1>1, <1>2, PlanAssumption DEF NoOrphanTask, Existing
  <2>2. DoneViewIsCompleted
    BY <1>1, PlanAssumption DEF DoneViewIsCompleted, Stored, list_tasks, TaskRow
  <2>3. QED
    BY <2>1, <2>2 DEF TasksInv
<1>8. DriftOnlyFromOverlap
  BY <1>2 DEF DriftOnlyFromOverlap
<1>9. QED
  BY <1>3, <1>4, <1>5, <1>6, <1>7, <1>8 DEF GoalInv

\* Nothing moves while no step is taken.
LEMMA GoalStutter == GoalInv /\ UNCHANGED vars => GoalInv'
<1> SUFFICES ASSUME GoalInv, UNCHANGED vars
             PROVE  GoalInv'
  OBVIOUS
<1>1. UNCHANGED <<tasks, goals, taskLock, goalLock, keyShare, job, started, overlapped>>
  BY DEF vars
<1>2. \A g \in Goals : Recount(tasks, g)' = Recount(tasks, g)
  BY <1>1 DEF Recount, Linked
<1>3. TypeOK' /\ RowsInv' /\ RoomInv'
  BY <1>1 DEF GoalInv, TypeOK, RowsInv, RoomInv, Inserting, Unused
<1>4. ASSUME NEW x \in Writers PROVE WriterInv(x)'
  <2>1. Quiet(x) /\ WriterInv(x) /\ StatementInv(x) /\ SameStatement(x)
        /\ SameLocks(x) /\ SameRows(x) /\ TypeOK
    BY <1>1 DEF GoalInv, WriterInv, StatementInv, SameStatement, SameLocks,
       SameRows, Quiet, tables, ReadsHold, DropHolds, Existing
  <2>2. StatementInv(x)'
    BY <2>1, OthersKeep
  <2>3. CountsHold(x)'
    <3>1. Counted(x)' = Counted(x) /\ Written(x)' = Written(x)
      BY <1>1 DEF Counted, Written
    <3>2. ASSUME NEW h PROVE Recount(Written(x), h)' = Recount(Written(x), h)
      BY <3>1 DEF Recount, Linked
    <3>3. QED
      BY <1>1, <2>1, <3>1, <3>2 DEF WriterInv, CountsHold
  <2>4. QED
    BY <2>2, <2>3 DEF WriterInv, StatementInv
<1>5. TasksInv'
  BY <1>1 DEF GoalInv, TasksInv, NoOrphanTask, DoneViewIsCompleted, Existing,
              Stored, list_tasks
<1>6. DriftOnlyFromOverlap'
  BY <1>1, <1>2 DEF GoalInv, DriftOnlyFromOverlap, Existing
<1>7. QED
  BY <1>3, <1>4, <1>5, <1>6 DEF GoalInv

LEMMA GoalNext == GoalInv /\ [Next]_vars => GoalInv'
<1> SUFFICES ASSUME GoalInv, [Next]_vars
             PROVE  GoalInv'
  OBVIOUS
<1>1. ASSUME NEW w \in Writers, Request(w)
      PROVE  GoalInv'
  BY <1>1, CreateTaskStep, PatchTaskStep, DeleteTaskStep, DeleteGoalStep DEF Request
<1>2. ASSUME NEW w \in Writers, Run(w)
      PROVE  GoalInv'
  <2>1. ASSUME DeadlockVictim(w) PROVE GoalInv'
    BY <2>1, FailStep DEF DeadlockVictim
  <2>2. QED
    BY <1>2, <2>1, InsertTaskStep, UpdateTaskStep, RemoveTaskStep, CheckGoalStep,
       CountTasksStep, UpdateGoalStep, CommitTaskStep, LockGoalStep,
       LockLinkedStep, CommitDropStep DEF Run
<1>3. ASSUME NEW g \in Goals, CreateGoal(g)
      PROVE  GoalInv'
  BY <1>3, CreateGoalStep
<1>4. CASE Drained \/ UNCHANGED vars
  BY <1>4, GoalStutter DEF Drained
<1>5. QED
  BY <1>1, <1>2, <1>3, <1>4 DEF Next

\* Whatever mix of requests overlaps on the tables of tasks and goals, every
\* statement in flight holds what it needs, what it has read stays true until it
\* commits, and what is committed keeps the promises below.
THEOREM GoalInvHolds == Spec => []GoalInv
BY GoalInit, GoalNext, PTL DEF Spec

\* Rows, locks and statements keep their shape, and a progress is a percentage;
\* an ended statement leaves no lock behind.
THEOREM GoalTypes == Spec => []TypeOK
<1>1. GoalInv => TypeOK
  BY DEF GoalInv
<1>2. QED
  BY <1>1, GoalInvHolds, PTL

\* No stored task names a goal that is gone, whichever way the deletion of the
\* goal and the writes to its tasks interleave, and the view of done tasks is
\* the completed ones.
THEOREM TasksAreSound == Spec => []TasksInv
<1>1. GoalInv => TasksInv
  BY DEF GoalInv
<1>2. QED
  BY <1>1, GoalInvHolds, PTL

\* The progress of a goal is the share of its completed tasks, unless its last
\* recount was overlapped by the commit of another write to its tasks.
THEOREM DriftNeedsOverlap == Spec => []DriftOnlyFromOverlap
<1>1. GoalInv => DriftOnlyFromOverlap
  BY DEF GoalInv
<1>2. QED
  BY <1>1, GoalInvHolds, PTL

\* A task loses its goal only when that goal is deleted, and only if it still
\* names it then.
THEOREM OnlyDeletionsUnlink == Spec => OnlyDeletionUnlinks
<1> DEFINE A == \A t \in Tasks :
             tasks[t].goal # None /\ tasks'[t].goal = None /\ tasks'[t].state = "live"
               => goals'[tasks[t].goal].state = "deleted"
<1>1. ASSUME GoalInv, [Next]_vars
      PROVE  A
  <2>1. ASSUME tasks' = tasks PROVE A
    BY <2>1
  <2>2. ASSUME NEW w \in Writers, CommitTask(w) PROVE A
    <3>1. CommitsTask(w)
      BY <1>1, <2>2, CommitTaskFacts
    <3>2. QED
      BY <3>1 DEF CommitsTask, WriterInv, Prepared
  <2>3. ASSUME NEW w \in Writers, CommitDrop(w) PROVE A
    <3>1. CommitsDrop(w, job[w].goal) /\ TypeOK
      BY <1>1, <2>3, CommitDropFacts DEF GoalInv
    <3>2. goals'[job[w].goal].state = "deleted"
      BY <3>1 DEF CommitsDrop, TypeOK
    <3>3. QED
      BY <3>1, <3>2 DEF CommitsDrop
  <2>4. ASSUME NEW w \in Writers, Request(w) PROVE tasks' = tasks
    BY <2>4 DEF Request, CreateTask, PatchTask, DeleteTask, DeleteGoal, Begin, tables
  <2>5. ASSUME NEW w \in Writers, Run(w), ~CommitTask(w), ~CommitDrop(w)
        PROVE  tasks' = tasks
    <3>1. ASSUME Fail(w) PROVE tasks' = tasks
      BY <3>1 DEF Fail, tables
    <3>2. QED
      BY <2>5, <3>1 DEF Run, InsertTask, UpdateTask, RemoveTask, WriteTask, CheckGoal,
         CountTasks, UpdateGoal, LockGoal, LockLinked, DeadlockVictim, tables
  <2>6. ASSUME NEW g \in Goals, CreateGoal(g) PROVE tasks' = tasks
    BY <2>6 DEF CreateGoal
  <2>7. ASSUME Drained \/ UNCHANGED vars PROVE tasks' = tasks
    BY <2>7 DEF Drained, vars
  <2> HIDE DEF A
  <2>8. QED
    BY <1>1, <2>1, <2>2, <2>3, <2>4, <2>5, <2>6, <2>7 DEF Next
<1>2. QED
  BY <1>1, GoalInvHolds, PTL DEF Spec, OnlyDeletionUnlinks
==============================================================================
