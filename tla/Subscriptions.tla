---------------------------- MODULE Subscriptions ----------------------------
(***************************************************************************)
(* Subscriptions and their Pay action (routes/subscriptions.rs).  A pay    *)
(* request reads the clock, opens a transaction, locks an account, then    *)
(* the subscription, checks it, makes sure the category of payments is     *)
(* there, and in one commit inserts the movement, debits the account and   *)
(* moves the subscription to its next cycle.  PATCH and DELETE are single  *)
(* statements that wait for the row; deleting the category                 *)
(* (routes/categories.rs) locks it, then every subscription that names it. *)
(***************************************************************************)
EXTENDS BillingDates, Sums, Sequences, SequencesExt

CONSTANTS
  Accounts, Subs, Requests,
  Currency,     \* Accounts \union Subs -> the currency of the row
  Calendar,     \* the days on which something happens
  Prices,       \* the prices a client sends; 0 is a free tier
  Plans,        \* the subscriptions tables the model may start with
  MaxRequests   \* bound: how many requests are started in all

\* validate_price: not negative; 0 is a free tier.
IsPrice(p) == p \in Nat
ASSUME SubscriptionsAssumption ==
  /\ IsFiniteSet(Calendar) /\ Calendar # {} /\ \A d \in Calendar : IsDate(d)
  /\ \A p \in Prices : IsPrice(p)
  /\ MaxRequests \in Nat
  /\ IsFiniteSet(Subs)
  /\ None \notin Accounts \union Subs \union Requests

VARIABLES
  today,        \* the date in Bogota
  open,         \* the accounts that are stored
  balance,      \* accounts.balance
  subs,         \* the subscriptions table
  seeded,       \* whether the category "Suscripciones" is stored
  paid,         \* per subscription, the movements that pay it, in order
  accountLock, subLock, categoryLock,  \* the request holding the row, or None
  req,          \* each request: how far it got
  started

vars == <<today, open, balance, subs, seeded, paid,
          accountLock, subLock, categoryLock, req, started>>
money == <<open, balance, paid>>
locks == <<accountLock, subLock, categoryLock>>

Dates == {d \in Nat : IsDate(d)}
MaybeDates == Dates \union {None}

\* moved: history, whether a PATCH set next_billing_on since the last payment.
\* first: history, the due date at the last PATCH (or at the start).
SubRow(state, price, active, next, last, inCategory) ==
  [state |-> state, price |-> price, active |-> active, next |-> next,
   last |-> last, inCategory |-> inCategory, moved |-> FALSE, first |-> next]

SubRows ==
  [state : {"unused", "live", "deleted"}, price : Prices, active : BOOLEAN,
   next : MaybeDates, last : MaybeDates, inCategory : BOOLEAN,
   moved : BOOLEAN, first : MaybeDates]
ASSUME PlansAssumption == \A plan \in Plans : plan \in [Subs -> SubRows]

IdleRequest ==
  [pc |-> "idle", account |-> None, sub |-> None, today |-> None, row |-> None]

Stored(s) == subs[s].state = "live"

\* The bodies POST and PATCH accept: the category may be left out of a POST, a
\* PATCH here sends one field.
CreateBody == [price : Prices, next : Calendar, inCategory : BOOLEAN]
PatchBody == [price : Prices] \union [active : BOOLEAN] \union [next : Calendar]

-----------------------------------------------------------------------------
(* POST, PATCH and DELETE of a subscription: one statement each.           *)

CountRequest == started < MaxRequests /\ started' = started + 1

CreateSub(s) ==
  /\ CountRequest
  /\ subs[s].state = "unused"
  /\ \E body \in CreateBody :
       /\ body.inCategory => seeded
       /\ subs' = [subs EXCEPT ![s] = SubRow("live", body.price, TRUE, body.next,
                                             None, body.inCategory)]
  /\ UNCHANGED <<today, money, seeded, locks, req>>

\* PATCH_SUB_SQL: COALESCE keeps what is left out.
Updated(row, body) ==
  [f \in DOMAIN row |->
     CASE f \in DOMAIN body -> body[f]
       [] f = "moved" -> row.moved \/ "next" \in DOMAIN body
       [] f = "first" /\ "next" \in DOMAIN body -> body.next
       [] OTHER -> row[f]]
PatchSub(s) ==
  /\ CountRequest
  /\ Stored(s) /\ subLock[s] = None
  /\ \E body \in PatchBody : subs' = [subs EXCEPT ![s] = Updated(@, body)]
  /\ UNCHANGED <<today, money, seeded, locks, req>>

\* The payments stay: movements.subscription_id ON DELETE SET NULL.
DeleteSub(s) ==
  /\ CountRequest
  /\ Stored(s) /\ subLock[s] = None
  /\ subs' = [subs EXCEPT ![s].state = "deleted"]
  /\ UNCHANGED <<today, money, seeded, locks, req>>

\* An account goes only while no movement is booked on it (see Ledger).
DeleteAccount(a) ==
  /\ a \in open /\ accountLock[a] = None
  /\ \A s \in Subs : \A i \in DOMAIN paid[s] : paid[s][i].account # a
  /\ open' = open \ {a}
  /\ UNCHANGED <<today, balance, paid, subs, seeded, locks, req, started>>

-----------------------------------------------------------------------------
(* POST /subscriptions/{id}/pay.                                           *)

Begin(r, request) ==
  /\ CountRequest
  /\ req[r].pc = "idle"
  /\ req' = [req EXCEPT ![r] = request]
  /\ UNCHANGED <<today, money, subs, seeded, locks>>

\* The clock is read before the transaction waits for anything.
Pay(r) ==
  \E a \in Accounts, s \in Subs :
    Begin(r, [IdleRequest EXCEPT !.pc = "account", !.account = a, !.sub = s,
                                 !.today = today])

Release(r) ==
  /\ accountLock' = [a \in Accounts |-> IF accountLock[a] = r THEN None
                                        ELSE accountLock[a]]
  /\ subLock' = [s \in Subs |-> IF subLock[s] = r THEN None ELSE subLock[s]]
  /\ categoryLock' = IF categoryLock = r THEN None ELSE categoryLock

\* An early return, a dropped handler, a cancelled statement: rolled back.
Abort(r) ==
  /\ Release(r)
  /\ req' = [req EXCEPT ![r] = IdleRequest]
  /\ UNCHANGED <<today, money, subs, seeded, started>>

LockAccount(r) ==
  /\ req[r].pc = "account"
  /\ accountLock[req[r].account] = None
  /\ IF req[r].account \in open
     THEN /\ accountLock' = [accountLock EXCEPT ![req[r].account] = r]
          /\ req' = [req EXCEPT ![r].pc = "sub"]
          /\ UNCHANGED <<today, money, subs, seeded, subLock, categoryLock, started>>
     ELSE Abort(r)

\* Mutant: the subscription is read without FOR UPDATE.
ReadSub(r, s) == UNCHANGED subLock
\* SELECT ... FOR UPDATE.
TakeSub(r, s) == subLock[s] = None /\ subLock' = [subLock EXCEPT ![s] = r]

IsPaidThisCycle(row, day) ==
  row.last # None /\ row.next # None /\ row.next > day

Payable(r) ==
  LET row == subs[req[r].sub]
  IN  /\ Currency[req[r].account] = Currency[req[r].sub]
      /\ row.active
      /\ row.price > 0
      /\ ~IsPaidThisCycle(row, req[r].today)

LockSub(r) ==
  /\ req[r].pc = "sub"
  /\ LET s == req[r].sub
     IN  IF Stored(s) /\ Payable(r)
         THEN /\ TakeSub(r, s)
              /\ req' = [req EXCEPT ![r].pc = "category", ![r].row = subs[s]]
              /\ UNCHANGED <<today, money, subs, seeded, accountLock, categoryLock,
                             started>>
         ELSE subLock[s] = None /\ Abort(r)

\* INSERT ... ON CONFLICT DO UPDATE: creates the category, or locks it.
SeedCategory(r) ==
  /\ req[r].pc = "category"
  /\ categoryLock = None
  /\ categoryLock' = r
  /\ req' = [req EXCEPT ![r].pc = "commit"]
  /\ UNCHANGED <<today, money, subs, seeded, accountLock, subLock, started>>

\* Mutant: the date of the payment is not recorded.
NextRowUnstamped(row, day) ==
  [row EXCEPT !.next = AdvanceNextBilling(row.next, day), !.moved = FALSE]
\* PAY_UPDATE_SUB_SQL.
NextRow(row, day) ==
  [row EXCEPT !.next = AdvanceNextBilling(row.next, day), !.last = day,
              !.moved = FALSE]

Payment(r) ==
  [account |-> req[r].account, amount |-> req[r].row.price, on |-> req[r].today,
   due |-> IF req[r].row.next = None THEN req[r].today ELSE req[r].row.next,
   next |-> AdvanceNextBilling(req[r].row.next, req[r].today),
   moved |-> req[r].row.moved]

\* Movement, debit and next cycle become visible together.
CommitPay(r) ==
  /\ req[r].pc = "commit"
  /\ LET s == req[r].sub
     IN  /\ paid' = [paid EXCEPT ![s] = Append(@, Payment(r))]
         /\ balance' = [balance EXCEPT ![req[r].account] = @ - req[r].row.price]
         /\ subs' = [subs EXCEPT ![s] = NextRow(@, req[r].today)]
  /\ seeded' = TRUE
  /\ Release(r)
  /\ req' = [req EXCEPT ![r] = IdleRequest]
  /\ UNCHANGED <<today, open, started>>

\* The time limit of the router drops the handler before its commit is sent.
Timeout(r) == req[r].pc \in {"account", "sub", "category", "commit"} /\ Abort(r)

-----------------------------------------------------------------------------
(* DELETE /categories/{id} of the payments' category.                      *)

DeleteCategory(r) == Begin(r, [IdleRequest EXCEPT !.pc = "drop"])
LockCategory(r) ==
  /\ req[r].pc = "drop" /\ categoryLock = None
  /\ IF seeded
     THEN /\ categoryLock' = r
          /\ req' = [req EXCEPT ![r].pc = "unlink"]
          /\ UNCHANGED <<today, money, subs, seeded, accountLock, subLock, started>>
     ELSE Abort(r)
ToUnlink(r) == {s \in Subs : Stored(s) /\ subs[s].inCategory /\ subLock[s] # r}
\* subscriptions.category_id ON DELETE SET NULL.
LockLinked(r) ==
  /\ req[r].pc = "unlink"
  /\ \E s \in ToUnlink(r) :
       subLock[s] = None /\ subLock' = [subLock EXCEPT ![s] = r]
  /\ UNCHANGED <<today, money, subs, seeded, accountLock, categoryLock, req, started>>
CommitDrop(r) ==
  /\ req[r].pc = "unlink" /\ ToUnlink(r) = {}
  /\ seeded' = FALSE
  /\ subs' = [s \in Subs |-> [subs[s] EXCEPT !.inCategory = FALSE]]
  /\ Release(r)
  /\ req' = [req EXCEPT ![r] = IdleRequest]
  /\ UNCHANGED <<today, money, started>>

Waiting(r) ==
  CASE req[r].pc = "account"  -> {accountLock[req[r].account]}
    [] req[r].pc = "sub"      -> {subLock[req[r].sub]}
    [] req[r].pc = "category" -> {categoryLock}
    [] req[r].pc = "drop"     -> {categoryLock}
    [] req[r].pc = "unlink"   -> {subLock[s] : s \in ToUnlink(r)}
    [] OTHER -> {}
\* A payer holds the subscription and waits for the category, whose deletion
\* waits for the subscription: the database cancels one of them.
DeadlockVictim(r) ==
  /\ \E q \in Requests : q \in Waiting(r) /\ r \in Waiting(q)
  /\ Abort(r)

-----------------------------------------------------------------------------
(* The clock, and the system as a whole.                                   *)
Tick ==
  /\ \E d \in Calendar :
       /\ d > today /\ \A e \in Calendar : e > today => d <= e
       /\ today' = d
  /\ UNCHANGED <<money, subs, seeded, locks, req, started>>

Init ==
  /\ today = CHOOSE d \in Calendar : \A e \in Calendar : d <= e
  /\ open = Accounts
  /\ balance = [a \in Accounts |-> 0]
  /\ subs \in Plans
  /\ seeded = (\E s \in Subs : subs[s].inCategory)
  /\ paid = [s \in Subs |-> <<>>]
  /\ accountLock = [a \in Accounts |-> None]
  /\ subLock = [s \in Subs |-> None]
  /\ categoryLock = None
  /\ req = [r \in Requests |-> IdleRequest]
  /\ started = 0

Drained ==
  /\ started = MaxRequests /\ \A r \in Requests : req[r].pc = "idle"
  /\ UNCHANGED vars

Handler(r) ==
  \/ Pay(r) \/ LockAccount(r) \/ LockSub(r) \/ SeedCategory(r) \/ CommitPay(r)
  \/ Timeout(r)
  \/ DeleteCategory(r) \/ LockCategory(r) \/ LockLinked(r) \/ CommitDrop(r)
  \/ DeadlockVictim(r)
Next ==
  \/ \E r \in Requests : Handler(r)
  \/ \E s \in Subs : CreateSub(s) \/ PatchSub(s) \/ DeleteSub(s)
  \/ \E a \in Accounts : DeleteAccount(a)
  \/ Tick
  \/ Drained
Spec == Init /\ [][Next]_vars

-----------------------------------------------------------------------------
(* Properties.                                                             *)

Payments ==
  [account : Accounts, amount : Prices, on : Dates, due : Dates, next : Dates,
   moved : BOOLEAN]
PayRequests ==
  [pc : {"idle", "account", "sub", "category", "commit", "drop", "unlink"},
   account : Accounts \union {None}, sub : Subs \union {None},
   today : Calendar \union {None}, row : SubRows \union {None}]

\* What was paid from account a for subscription s, and for all of them.
PaidFrom(a, s) ==
  SumTo([i \in DOMAIN paid[s] |->
           IF paid[s][i].account = a THEN paid[s][i].amount ELSE 0],
        Len(paid[s]))
PaidInAll(a) == SumOver([s \in Subs |-> PaidFrom(a, s)], Subs)

\* Every stored date is a date of the calendar, whatever months it was
\* advanced by; rows, locks and requests keep their shape.
TypeOK ==
  /\ today \in Calendar
  /\ open \subseteq Accounts /\ balance \in [Accounts -> Int] /\ seeded \in BOOLEAN
  /\ subs \in [Subs -> SubRows]
  /\ paid \in [Subs -> Seq(Payments)]
  /\ accountLock \in [Accounts -> Requests \union {None}]
  /\ subLock \in [Subs -> Requests \union {None}]
  /\ categoryLock \in Requests \union {None}
  /\ req \in [Requests -> PayRequests]
  /\ started \in 0 .. MaxRequests

\* Pay requests that race, from one account or from two, that read the clock
\* before midnight and lock after it, or that are sent again after an answer
\* that never came, pay no due date twice: the next payment is for a later due
\* date and is made once that date has come, unless the user sets the date
\* (pay_subscription_handler: locks, is_paid_this_cycle, advance_next_billing).
OncePerCycle ==
  \A s \in Subs : \A i \in 1 .. Len(paid[s]) - 1 :
    LET p == paid[s][i]
        q == paid[s][i + 1]
    IN  q.moved \/ (q.due > p.due /\ q.on >= p.next)

\* The subscription, the movements and the balance tell the same story after
\* any mix of payments, edits, deletions and rolled-back attempts.
CycleMatchesPayments ==
  /\ \A s \in Subs : paid[s] # <<>> =>
       /\ subs[s].last = Last(paid[s]).on
       /\ subs[s].moved \/ subs[s].next = Last(paid[s]).next
  /\ \A a \in Accounts : balance[a] = - PaidInAll(a)

\* What a payment commits is true when it commits: the subscription exists, is
\* active and costs what is charged, the account exists and has its currency.
\* A PATCH that cancels or reprices it meanwhile has no payment slip through.
PaidAsStored ==
  [][\A s \in Subs : paid'[s] # paid[s] =>
       LET p == Last(paid'[s])
       IN  /\ subs[s].state = "live" /\ subs[s].active
           /\ p.amount = subs[s].price /\ p.amount > 0
           /\ p.account \in open /\ Currency[p.account] = Currency[s]]_vars

\* The catch-up loop finds the occurrence the calendar defines, for every due
\* date and day of payment that come up (dates.rs, advance_next_billing).
NextBillingIsExact ==
  \A s \in Subs : subs[s].next # None =>
    IsNextBilling(AdvanceNextBilling(subs[s].next, today), subs[s].next, today)

\* What the design says of month ends: the day of the month a subscription is
\* due on survives a shorter month.
DueDaySurvives ==
  \A s \in Subs : subs[s].first # None => OnDueDay(subs[s].next, subs[s].first)
==============================================================================
