-------------------------------- MODULE Planner -------------------------------
(***************************************************************************)
(* What the handlers of habits, goals, events and notes share: the categories of  *)
(* the user (routes/categories.rs) and a request that runs one autocommit  *)
(* statement after the other.  Every write is preceded by lookups of what  *)
(* it names; between two statements anybody may commit.                    *)
(***************************************************************************)
EXTENDS Streak

CONSTANTS
  Requests,
  Categories, OwnCategories,  \* ids; those of the user, the rest is foreign
  KindOf,                     \* category_kind of each
  Habits, OwnHabits,          \* ids; those of the user
  Bodies,                     \* by operation, the bodies clients send
  MaxRequests                 \* bound: how many requests are started in all

Kinds == {"finance", "habit", "goal", "task", "subscription"}
ASSUME PlannerAssumption ==
  /\ OwnCategories \subseteq Categories /\ None \notin Categories \union Habits
  /\ KindOf \in [Categories -> Kinds] /\ OwnHabits \subseteq Habits
  /\ MaxRequests \in Nat

VARIABLES
  today,       \* the Bogota day
  categories,  \* the state of each
  req,         \* each request: its operation and how far it got
  started

\* What a body can say; None is a field that is not sent.
Body == [start : Nat \union {None}, end : Nat \union {None},
         habit : Habits \union {None}, category : Categories \union {None},
         mask : SUBSET (0 .. 6), date : Days \union {None},
         status : Statuses \union {None}]
NoBody == [start |-> None, end |-> None, habit |-> None, category |-> None,
           mask |-> {}, date |-> None, status |-> None]
Pcs == {"idle", "read", "owner", "link", "category", "write"}
IdleRequest == [pc |-> "idle", op |-> "none", id |-> None, body |-> NoBody,
                snap |-> None]

Start(r, op, id, body, pc) ==
  /\ req[r].pc = "idle" /\ started < MaxRequests
  /\ started' = started + 1
  /\ req' = [req EXCEPT ![r] =
               [pc |-> pc, op |-> op, id |-> id, body |-> body, snap |-> None]]
Goto(r, pc) == req' = [req EXCEPT ![r].pc = pc] /\ UNCHANGED started
\* The answer: done, or refused; or the handler is dropped by API_TIMEOUT.
End(r) == req' = [req EXCEPT ![r] = IdleRequest] /\ UNCHANGED started

\* A PATCH has read the row, and its body fits the dates the row had then.
Dates == [start : Nat \union {None}, end : Nat \union {None}]
DatesOf(row) == [start |-> row.start, end |-> row.end]
Validated(r, pc, dates) ==
  /\ req' = [req EXCEPT ![r].pc = pc, ![r].snap = dates]
  /\ UNCHANGED started

\* The lookups a body asks for, in their order.
AfterLink(body) == IF body.category # None THEN "category" ELSE "write"
FirstLookup(body) == IF body.habit # None THEN "link" ELSE AfterLink(body)

States == {"unused", "live", "deleted"}
LiveCategories == {c \in Categories : categories[c] = "live"}
MyCategories == LiveCategories \intersect OwnCategories

\* Mutant: the kind is not looked at.
AnyKind(r) == req[r].body.category \in MyCategories
\* ensure_habit_category and ensure_goal_category want their kind; events and
\* notes take any.
CategoryFits(r) ==
  LET kind == KindOf[req[r].body.category]
  IN  /\ req[r].body.category \in MyCategories
      /\ req[r].op \in {"create_habit", "patch_habit"} => kind = "habit"
      /\ req[r].op \in {"create_goal", "patch_goal"} => kind = "goal"
CheckCategory(r) ==
  /\ req[r].pc = "category"
  /\ IF CategoryFits(r) THEN Goto(r, "write") ELSE End(r)

\* The start date of a new habit or goal: without one it is the UTC day, which
\* in the evening of Bogota is already tomorrow.
FirstDays(body) == IF body.start = None THEN {today, today + 1} ELSE {body.start}

\* COALESCE(new, old)
Given(new, old) == IF new = None THEN old ELSE new
\* A foreign key is checked when the row is written: 23503 is a 422.
CategoryExists(r) == req[r].body.category \in LiveCategories \union {None}
Unlinked(c, category) == IF category = c THEN None ELSE category
===============================================================================
