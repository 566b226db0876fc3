-------------------------------- MODULE Events --------------------------------
(***************************************************************************)
(* Calendar events (routes/events.rs).  Of the entities an event can link  *)
(* to, habits stand for goals, tasks and subscriptions as well: the same   *)
(* two lookups, the same foreign key.                                      *)
(***************************************************************************)
EXTENDS Habits

CONSTANT Events

VARIABLE events

\* raced: history, whether a PATCH wrote it over other dates than it had
\* validated its own against.
Event == [state : States, start : Nat \union {None},
          end : Nat \union {None}, habit : Habits \union {None},
          category : Categories \union {None}, raced : BOOLEAN]
NoEvent == [state |-> "unused", start |-> None, end |-> None, habit |-> None,
            category |-> None, raced |-> FALSE]

\* What the handlers let through; only a PATCH can do without a start.
EventBody == {b \in Body : b.mask = {} /\ b.date = None /\ b.status = None}
ASSUME EventBodiesAssumption ==
  /\ Bodies["create_event"] \subseteq {b \in EventBody : b.start # None}
  /\ Bodies["patch_event"] \subseteq EventBody

EventsTypeOK == events \in [Events -> Event]

\* validate_event_range: the end is after the start.
ValidRange(start, end) == end # None => end > start
HabitExists(h) == h = None \/ habits[h].state = "live"

\* POST /events
create_event(r) ==
  \E body \in Bodies["create_event"] :
    /\ ValidRange(body.start, body.end)
    /\ Start(r, "create_event", None, body, FirstLookup(body))
    /\ UNCHANGED events

\* Mutant: only the second lookup, whether the habit exists at all.
ExistingHabit(h) == HabitExists(h)
\* ensure_event_link: 422 for a foreign habit, 404 for none.
Linkable(h) == MyHabit(h)
CheckLink(r) ==
  LET h == req[r].body.habit
  IN  /\ req[r].pc = "link"
      /\ IF Linkable(h)
         THEN Goto(r, AfterLink(req[r].body)) ELSE End(r)
      /\ UNCHANGED events

\* map_event_db_err: what a row names must exist when it is written, or 422.
LinksExist(r) == CategoryExists(r) /\ HabitExists(req[r].body.habit)

InsertEvent(r) ==
  LET body == req[r].body
  IN  /\ req[r].pc = "write" /\ req[r].op = "create_event"
      /\ IF LinksExist(r) /\ \E e \in Events : events[e].state = "unused"
         THEN \E e \in Events :
                /\ events[e].state = "unused"
                /\ events' = [events EXCEPT ![e] =
                     [state |-> "live", start |-> body.start, end |-> body.end,
                      habit |-> body.habit, category |-> body.category,
                      raced |-> FALSE]]
         ELSE UNCHANGED events
      /\ End(r)

\* PATCH /events/:id: the range is checked against the row as it was read.
patch_event(r) ==
  \E body \in Bodies["patch_event"], e \in Events :
    /\ Start(r, "patch_event", e, body, "read")
    /\ UNCHANGED events
\* Mutant: the new end is compared with a new start only.
SentRange(body, row) == body.start # None => ValidRange(body.start, body.end)
MergedRange(body, row) ==
  ValidRange(Given(body.start, row.start), Given(body.end, row.end))
ReadEvent(r) ==
  LET e == req[r].id
      body == req[r].body
  IN  /\ req[r].pc = "read" /\ req[r].op = "patch_event"
      /\ IF events[e].state = "live" /\ MergedRange(body, events[e])
         THEN Validated(r, FirstLookup(body), DatesOf(events[e])) ELSE End(r)
      /\ UNCHANGED events
UpdateEvent(r) ==
  LET e == req[r].id
      body == req[r].body
  IN  /\ req[r].pc = "write" /\ req[r].op = "patch_event"
      /\ events' = IF events[e].state = "live" /\ LinksExist(r)
                   THEN [events EXCEPT
                           ![e].start = Given(body.start, @),
                           ![e].end = Given(body.end, @),
                           ![e].habit = Given(body.habit, @),
                           ![e].category = Given(body.category, @),
                           ![e].raced = @ \/ req[r].snap # DatesOf(events[e])]
                   ELSE events
      /\ End(r)

\* GET /events?from=&to=: what overlaps the window; without an end, for ever.
list_events(from, to) ==
  {e \in Events : /\ events[e].state = "live" /\ events[e].start < to
                  /\ events[e].end # None => events[e].end > from}

\* DELETE /events/:id
delete_event(e) ==
  /\ events[e].state = "live"
  /\ events' = [events EXCEPT ![e] = [NoEvent EXCEPT !.state = "deleted"]]

EventStarts(r) == create_event(r) \/ patch_event(r)
EventSteps(r) == CheckLink(r) \/ InsertEvent(r) \/ ReadEvent(r) \/ UpdateEvent(r)
===============================================================================
