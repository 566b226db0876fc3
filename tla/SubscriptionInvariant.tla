------------------------ MODULE SubscriptionInvariant ------------------------
(***************************************************************************)
(* Why the properties of Subscriptions hold: an inductive invariant.  It   *)
(* says what a pay request has checked, that the rows it holds keep it     *)
(* true while others wait, and how the payments made so far determine the  *)
(* next cycle.                                                             *)
(***************************************************************************)
EXTENDS Subscriptions

\* The request holds its account; it holds its subscription and may pay it.
Booking(r) == req[r].pc \in {"sub", "category", "commit"}
Paying(r)  == req[r].pc \in {"category", "commit"}
Dropping(r) == req[r].pc = "unlink"

Asked(r) ==
  req[r].pc \in {"account", "sub", "category", "commit"} =>
    req[r].account \in Accounts /\ req[r].sub \in Subs /\ req[r].today \in Calendar

\* A request holds the locks it took and no others.
HoldsOnly(r) ==
  /\ \A a \in Accounts : accountLock[a] = r => Booking(r) /\ a = req[r].account
  /\ \A s \in Subs : subLock[s] = r => Dropping(r) \/ (Paying(r) /\ s = req[r].sub)
  /\ categoryLock = r => req[r].pc \in {"commit", "unlink"}

\* What a pay request has checked is still so: it holds the rows it checked.
ChecksHold(r) ==
  /\ Booking(r) =>
       accountLock[req[r].account] = r /\ req[r].account \in open
  /\ Paying(r) =>
       LET row == subs[req[r].sub]
       IN  /\ subLock[req[r].sub] = r
           /\ row.state = "live" /\ Payable(r)
           /\ req[r].row \in SubRows
           /\ req[r].row.price = row.price /\ req[r].row.next = row.next
           /\ req[r].row.moved = row.moved

RequestInv(r) == Asked(r) /\ HoldsOnly(r) /\ ChecksHold(r)

\* Each payment moves the due date on, past the day it is made.
PaymentsInv ==
  /\ \A s \in Subs : \A i \in DOMAIN paid[s] :
       paid[s][i].next > paid[s][i].due /\ paid[s][i].next > paid[s][i].on
  /\ \A s \in Subs : subs[s].state = "unused" => paid[s] = <<>>

\* The inductive invariant of Subscriptions.
SubscriptionInv ==
  /\ TypeOK /\ PaymentsInv
  /\ \A r \in Requests : RequestInv(r)
  /\ OncePerCycle /\ CycleMatchesPayments

\* No due date lies further back than the calendar or the rows at the start.
FirstDates == Calendar \union {plan[s].next : plan \in Plans, s \in Subs}
DatesInv ==
  \A s \in Subs : subs[s].next # None =>
    \E d \in FirstDates \ {None} : MonthOf(d) <= MonthOf(subs[s].next)
\* No subscription is dormant for longer than the catch-up looks ahead.
WithinCatchUp ==
  \A d \in FirstDates \ {None}, day \in Calendar :
    MonthOf(day) < MonthOf(d) + MAX_CATCH_UP_MONTHS
==============================================================================
