-------------------------------- MODULE Agenda --------------------------------
(***************************************************************************)
(* Habits, goals, events, notes and the categories they name, together:    *)
(* the handlers of the modules Habits, GoalDates, Events and Notes side by *)
(* side, and the deletions that reach from one table into the others.      *)
(***************************************************************************)
EXTENDS Events, GoalDates, Notes

CONSTANTS
  Horizon,  \* bound: the last day
  Past      \* what the tables may start with

\* A row is in order when what it names is live and the user's own, given the
\* user's live categories and habits, and only a race broke its range.
OfKind(c, kind, own) == c \in own /\ KindOf[c] = kind
HabitInOrder(row, own) ==
  row.state = "live" =>
    /\ row.category = None \/ OfKind(row.category, "habit", own)
    /\ row.start \in Nat /\ ValidDates(row.start, row.end)
GoalInOrder(row, own) ==
  row.state = "live" =>
    /\ row.category = None \/ OfKind(row.category, "goal", own)
    /\ row.start \in Nat /\ (DueInTime(row.start, row.end) \/ row.raced)
EventInOrder(row, own, mine) ==
  /\ row.category \in own \union {None} /\ row.habit \in mine \union {None}
  /\ row.state = "live" =>
       row.start \in Nat /\ (ValidRange(row.start, row.end) \/ row.raced)
NoteInOrder(row, own) == row.state = "live" => row.category \in own \union {None}

ASSUME PastAssumption ==
  /\ Horizon \in Days
  /\ \A past \in Past :
       LET own == {c \in OwnCategories : past.categories[c] = "live"}
           mine == {h \in OwnHabits : past.habits[h].state = "live"}
       IN  /\ past.habits \in [Habits -> Habit] /\ past.logs \in [Habits -> Logs]
           /\ past.goals \in [Goals -> Goal]
           /\ past.events \in [Events -> Event] /\ past.notes \in [Notes -> Note]
           /\ past.categories \in [Categories -> States]
           /\ past.today \in Days /\ past.started \in 0 .. MaxRequests
           /\ \A h \in OwnHabits : HabitInOrder(past.habits[h], own)
           /\ \A h \in Habits, d \in Days :
                past.logs[h][d] # None => h \in mine /\ d <= past.today
           /\ \A g \in Goals : GoalInOrder(past.goals[g], own)
           /\ \A e \in Events : EventInOrder(past.events[e], own, mine)
           /\ \A n \in Notes : NoteInOrder(past.notes[n], own)

vars == <<today, categories, req, started, habits, logs, goals, events, notes>>
tables == <<habits, logs, goals, events, notes>>
requests == <<req, started>>

Ops == {"none", "create_habit", "patch_habit", "create_goal", "patch_goal",
        "create_event", "patch_event", "create_note", "patch_note"} \union LogOps
Request == [pc : Pcs, op : Ops, id : Habits \union Goals \union Events \union Notes \union {None},
            body : Body, snap : Dates \union {None}]
TypeOK ==
  /\ today \in Days /\ categories \in [Categories -> States]
  /\ HabitsTypeOK /\ GoalsTypeOK /\ EventsTypeOK /\ NotesTypeOK
  /\ req \in [Requests -> Request]
  /\ started \in 0 .. MaxRequests

\* POST /categories
create_category ==
  \E c \in OwnCategories :
    /\ categories[c] = "unused"
    /\ categories' = [categories EXCEPT ![c] = "live"]
    /\ UNCHANGED <<today, requests, tables>>

\* DELETE /categories/:id sets it NULL in every table.
delete_category ==
  \E c \in MyCategories :
    /\ categories' = [categories EXCEPT ![c] = "deleted"]
    /\ habits' = [h \in Habits |-> [habits[h] EXCEPT !.category = Unlinked(c, @)]]
    /\ goals' = [g \in Goals |-> [goals[g] EXCEPT !.category = Unlinked(c, @)]]
    /\ events' = [e \in Events |-> [events[e] EXCEPT !.category = Unlinked(c, @)]]
    /\ notes' = [n \in Notes |-> [notes[n] EXCEPT !.category = Unlinked(c, @)]]
    /\ UNCHANGED <<today, requests, logs>>

\* Deleting a habit sets it NULL in the events.
DeleteHabit ==
  \E h \in Habits :
    /\ delete_habit(h)
    /\ events' = [e \in Events |-> [events[e] EXCEPT !.habit = Unlinked(h, @)]]
    /\ UNCHANGED <<today, categories, requests, goals, notes>>
DeleteGoal ==
  \E g \in Goals :
    delete_goal(g) /\ UNCHANGED <<today, categories, requests, habits, logs, events, notes>>
DeleteEvent ==
  \E e \in Events :
    delete_event(e) /\ UNCHANGED <<today, categories, requests, habits, logs, goals, notes>>
DeleteNote ==
  \E n \in Notes :
    delete_note(n) /\ UNCHANGED <<today, categories, requests, habits, logs, goals, events>>

Midnight == /\ today < Horizon
            /\ today' = today + 1
            /\ UNCHANGED <<categories, requests, tables>>

\* API_TIMEOUT or the client drops the handler between two statements.
Abandon(r) == req[r].pc # "idle" /\ End(r) /\ UNCHANGED <<today, categories, tables>>

Init ==
  /\ \E past \in Past :
       /\ today = past.today /\ categories = past.categories
       /\ started = past.started
       /\ habits = past.habits /\ logs = past.logs
       /\ goals = past.goals /\ events = past.events /\ notes = past.notes
  /\ req = [r \in Requests |-> IdleRequest]

Next ==
  \/ \E r \in Requests :
       \/ /\ HabitStarts(r) \/ HabitSteps(r)
          /\ UNCHANGED <<today, categories, goals, events, notes>>
       \/ /\ GoalStarts(r) \/ GoalSteps(r)
          /\ UNCHANGED <<today, categories, habits, logs, events, notes>>
       \/ /\ EventStarts(r) \/ EventSteps(r)
          /\ UNCHANGED <<today, categories, habits, logs, goals, notes>>
       \/ /\ NoteStarts(r) \/ NoteSteps(r)
          /\ UNCHANGED <<today, categories, habits, logs, goals, events>>
       \/ CheckCategory(r) /\ UNCHANGED <<today, categories, tables>>
       \/ Abandon(r)
  \/ create_category \/ delete_category
  \/ DeleteHabit \/ DeleteGoal \/ DeleteEvent \/ DeleteNote \/ Midnight

Spec == Init /\ [][Next]_vars

-------------------------------------------------------------------------------
(* Properties                                                                *)

\* What a row names exists and is the user's own, and the category of a habit or
\* a goal is of that kind, although what was looked up before the write can be
\* deleted before it: nothing dangles and nobody's row leads to somebody else's.
\* No log outlives its habit.
LinksAreOwned ==
  /\ \A h \in list_habits :
       habits[h].category # None => OfKind(habits[h].category, "habit", MyCategories)
  /\ \A g \in list_goals :
       goals[g].category # None => OfKind(goals[g].category, "goal", MyCategories)
  /\ \A e \in Events :
       /\ events[e].category \in MyCategories \union {None}
       /\ events[e].habit # None => MyHabit(events[e].habit)
  /\ \A n \in list_notes :
       notes[n].category \in MyCategories \union {None}
  /\ parse_logs_range(1, Horizon) =>
       \A log \in list_logs_range(1, Horizon) : MyHabit(log[1])

\* A habit never ends before it starts: the start never changes, so a stale
\* read cannot hurt.  A goal may be due before it starts, and an event may end
\* before it starts and is then missing from the calendar of its own day, but
\* only when a PATCH wrote over dates that changed after it had validated its own
\* against them.
RangeBreaksOnlyFromOverlap ==
  /\ \A h \in list_habits : ValidDates(habits[h].start, habits[h].end)
  /\ \A g \in list_goals : DueInTime(goals[g].start, goals[g].end) \/ goals[g].raced
  /\ \A e \in Events :
       events[e].state = "live" =>
         \/ e \in list_events(events[e].start, events[e].start + 1)
         \/ events[e].raced

\* On every table of logs that comes up, the row numbers of the query count
\* what its comment says when every day is scheduled, and never too much.
StreakIsRun ==
  \A h \in Habits :
    LET mask == habits[h].mask
    IN  /\ get_streak(h) <= StreakAsDocumented(logs[h], mask)
        /\ mask = {} => get_streak(h) = StreakAsDocumented(logs[h], mask)

\* The two numbers on the page of a day agree: a scheduled day that is done is
\* in the streak and one that is missed has ended it, because no log can be of a
\* later day, however long ago the request was checked.
TodayMatchesStreak ==
  \A h \in list_habits :
    LET mask == habits[h].mask
        status == today_status(logs[h], mask, today)
        streak == current_streak(logs[h], mask)
    IN  Scheduled(today, mask) => /\ status = "done" => streak > 0
                                  /\ status \in {"missed", "not_done"} => streak = 0

\* The module comment of habits.rs: masked-out weekdays are ignored.
MaskedOutDaysIgnored ==
  \A h \in Habits :
    get_streak(h) = StreakAsDocumented(logs[h], habits[h].mask)
===============================================================================
