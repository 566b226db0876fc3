------------------------------- MODULE MCAgenda -------------------------------
(* A small user: one habit with logs and one yet to be created, one goal,    *)
(* one event, one note, and somebody else's habit and category.              *)
EXTENDS AgendaInvariant, TLC

CONSTANTS h1, h2, hx,   \* habits; hx is foreign
          ch, cg, cx,   \* categories: for habits, for goals, foreign
          g1, e1, n1, r1, r2

AgendaSymmetry == Permutations({r1, r2})

MCDays == 1 .. 4
MCHabits == {h1, h2, hx}
MCOwnHabits == {h1, h2}
MCCategories == {ch, cg, cx}
MCOwnCategories == {ch, cg}
MCKindOf == [c \in MCCategories |-> IF c = cg THEN "goal" ELSE "habit"]
MCGoals == {g1}
MCEvents == {e1}
MCNotes == {n1}

MCBodies ==
  [create_habit |->
     {[NoBody EXCEPT !.category = ch, !.end = 3],
      [NoBody EXCEPT !.start = 2, !.category = cg, !.mask = {1, 3}]},
   patch_habit |->
     {[NoBody EXCEPT !.end = 2, !.category = ch], [NoBody EXCEPT !.category = cg]},
   log |-> {[NoBody EXCEPT !.date = 3, !.status = "done"],
            [NoBody EXCEPT !.date = 4, !.status = "missed"]},
   create_goal |->
     {[NoBody EXCEPT !.category = cg, !.end = 3],
      [NoBody EXCEPT !.start = 2, !.category = ch]},
   patch_goal |->
     {[NoBody EXCEPT !.start = 4, !.category = cg], [NoBody EXCEPT !.end = 2]},
   create_event |->
     {[NoBody EXCEPT !.start = 2, !.end = 3, !.habit = h1, !.category = cg],
      [NoBody EXCEPT !.start = 2, !.habit = hx]},
   patch_event |->
     {[NoBody EXCEPT !.start = 4], [NoBody EXCEPT !.end = 3],
      [NoBody EXCEPT !.habit = h1, !.category = ch]},
   note |-> {[NoBody EXCEPT !.category = ch], [NoBody EXCEPT !.category = cx]}]

LiveHabit(mask) == [NoHabit EXCEPT !.state = "live", !.mask = mask, !.start = 1]
MyHabits(mask) == [h \in MCHabits |-> IF h = h2 THEN NoHabit ELSE LiveHabit(mask)]
LogsOfMine(table) == [h \in MCHabits |-> IF h = h1 THEN table ELSE NoLogs]
LiveGoal == [NoGoal EXCEPT !.state = "live", !.start = 1, !.end = 4]
LiveEvent == [NoEvent EXCEPT !.state = "live", !.start = 2, !.end = 5]

\* A user who starts out, and one with a goal and an event.
MCBusyPast ==
  {[today |-> 3, started |-> 0, habits |-> MyHabits({}), logs |-> LogsOfMine(NoLogs),
    categories |-> [c \in MCCategories |-> IF c = cg THEN "unused" ELSE "live"],
    goals |-> [g \in MCGoals |-> IF busy THEN LiveGoal ELSE NoGoal],
    events |-> [e \in MCEvents |-> IF busy THEN LiveEvent ELSE NoEvent],
    notes |-> [n \in MCNotes |-> NoNote]] : busy \in BOOLEAN}
\* Every table of logs of four days, every day scheduled or Monday and
\* Wednesday only (days 1 and 3); no request is left.
MCLogPast ==
  {[today |-> 4, started |-> MaxRequests, habits |-> MyHabits(mask), logs |-> LogsOfMine(table),
    categories |-> [c \in MCCategories |-> "live"],
    goals |-> [g \in MCGoals |-> NoGoal], events |-> [e \in MCEvents |-> NoEvent],
    notes |-> [n \in MCNotes |-> NoNote]] : mask \in {{}, {1, 3}}, table \in Logs}
MCPast == MCBusyPast \union MCLogPast

\* A habit of Mondays and Wednesdays, done on both.
MCScheduledPast ==
  {[today |-> 3, started |-> 0, habits |-> MyHabits({1, 3}), logs |-> LogsOfMine(NoLogs),
    categories |-> [c \in MCCategories |-> "live"],
    goals |-> [g \in MCGoals |-> NoGoal], events |-> [e \in MCEvents |-> NoEvent],
    notes |-> [n \in MCNotes |-> NoNote]]}
MCScheduledBodies ==
  [MCBodies EXCEPT !["log"] =
     {[NoBody EXCEPT !.date = d, !.status = "done"] : d \in {1, 3}}]
===============================================================================
