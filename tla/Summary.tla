------------------------------- MODULE Summary --------------------------------
(***************************************************************************)
(* GET /movements/summary and GET /movements (routes/movements.rs).  One   *)
(* summary is six autocommit statements: the user's currency, the totals,  *)
(* the split by account and by category, the calendar buckets and the      *)
(* newest rows.  Between two of them other handlers commit.  How those     *)
(* lock and retry is module Ledger's; here each is the change it commits.  *)
(***************************************************************************)
EXTENDS Calendar, Sums

CONSTANTS
  Movements, Accounts, Categories,  \* ids
  Currencies, CurrencyOf,  \* an account never changes its currency
  DefaultCurrency,         \* of a user without a row of preferences
  Amounts, Dates,
  Windows,      \* the from and to clients send
  RecentLimit,  \* how many rows "recent" holds
  MaxWrites     \* bound: commits of other handlers during one summary

Directions == {"expense", "income", "transfer"}
\* parse_money_amount: zero is refused.
IsAmount(n) == n \in Nat \ {0}
ASSUME SummaryAssumption ==
  /\ CurrencyOf \in [Accounts -> Currencies] /\ DefaultCurrency \in Currencies
  /\ \A n \in Amounts : IsAmount(n)
  /\ \A d \in Dates : IsDate(d)
  /\ IsFiniteSet(Movements) /\ IsFiniteSet(Accounts) /\ IsFiniteSet(Categories)
  /\ None \notin Categories \union Accounts \union Currencies \union Amounts
  \* NaiveDate parses both bounds.  The calendar here starts with year 0: a
  \* window has at least that January before it.
  /\ \A w \in Windows, i \in {1, 2} :
       w[i] # None => IsDate(w[i]) /\ MonthOf(w[i]) > 0
  /\ RecentLimit \in Nat \ {0} /\ MaxWrites \in Nat

VARIABLES
  movements,   \* the rows, None where there is none
  archived,    \* accounts.is_archived
  preferred,   \* user_preferences.currency_code, None without a row
  report,      \* the summary being computed
  writes

vars == <<movements, archived, preferred, report, writes>>
db == <<movements, archived, preferred>>

\* POST /movements requires a category; a transfer has none; deleting the
\* category sets it NULL.
Movement == [account : Accounts, category : Categories \union {None},
             direction : Directions, amount : Amounts, on : Dates]
Drafts == {m \in Movement : (m.direction = "transfer") <=> (m.category = None)}

Pcs == {"idle", "currency", "totals", "by_account", "by_category", "buckets",
        "recent", "done"}
NoReport == [pc |-> "idle", from |-> None, to |-> None, group |-> None,
             currency |-> None, totals |-> None, by_account |-> None,
             by_category |-> None, buckets |-> None, recent |-> None,
             torn |-> FALSE]
Sums == [expense : Nat, income : Nat]
Totals == [expense : Nat, income : Nat, count : Nat, recent_total : Nat]

TypeOK ==
  /\ movements \in [Movements -> Movement \union {None}]
  /\ archived \subseteq Accounts /\ preferred \in Currencies \union {None}
  /\ report = [field \in DOMAIN NoReport |-> report[field]]
  /\ report.pc \in Pcs /\ report.torn \in BOOLEAN
  /\ report.currency \in Currencies \union {None}
  /\ report.totals \in Totals \union {None}
  /\ report.by_account = None \/ report.by_account \in [Accounts -> Sums]
  /\ report.by_category = None \/ report.by_category \in [Categories -> Sums]
  /\ report.recent = None \/ report.recent \subseteq Movements
  /\ report.buckets = None \/ \A b \in DOMAIN report.buckets : report.buckets[b] \in Sums
  /\ writes \in 0 .. MaxWrites

-------------------------------------------------------------------------------
(* What the statements compute                                               *)

Rows == {m \in Movements : movements[m] # None}
Within(m, from, to) == movements[m].on >= from /\ movements[m].on <= to
\* list_movements_handler: everything, or the inclusive window.
list_movements(from, to) ==
  IF from = None THEN Rows ELSE {m \in Rows : Within(m, from, to)}

\* The account is active and in the user's currency.
Counted(m) ==
  /\ CurrencyOf[movements[m].account] = report.currency
  /\ movements[m].account \notin archived
InWindow == list_movements(report.from, report.to)

\* SUM(CASE WHEN direction = ... THEN amount END).
Sum(ms, direction) ==
  SumOver([m \in Movements |-> IF m \in ms /\ movements[m].direction = direction
                               THEN movements[m].amount ELSE 0], Movements)
SumsOf(ms) == [expense |-> Sum(ms, "expense"), income |-> Sum(ms, "income")]

SUMMARY_TOTALS ==
  LET counted == {m \in InWindow : Counted(m)}
  IN  [expense |-> Sum(counted, "expense"), income |-> Sum(counted, "income"),
       count |-> Cardinality(counted), recent_total |-> Cardinality(InWindow)]

\* An account without a row is left out of the answer: it counts as zero.
SUMMARY_BY_ACCOUNT ==
  [x \in Accounts |-> SumsOf({m \in InWindow : Counted(m) /\ movements[m].account = x})]

SUMMARY_BY_CATEGORY ==
  [c \in Categories |-> SumsOf({m \in InWindow : Counted(m) /\ movements[m].category = c})]

\* The rows of the grouped statement fill the buckets that start where they do;
\* a row without a bucket would be dropped.
Buckets ==
  [b \in summary_bucket_windows(report.group, report.from, report.to) |->
     SumsOf({m \in InWindow : /\ Counted(m)
                              /\ date_trunc(report.group, movements[m].on) = b.from})]

\* LIMIT 5 of the newest; among rows of one day it is the order of creation.
IsRecent(ms) ==
  /\ ms \subseteq InWindow
  /\ Cardinality(ms) = (IF Cardinality(InWindow) < RecentLimit
                        THEN Cardinality(InWindow) ELSE RecentLimit)
  /\ \A m \in ms, n \in InWindow \ ms : movements[m].on >= movements[n].on

-------------------------------------------------------------------------------
(* The handler                                                               *)

\* parse_summary_window and parse_summary_group: both bounds, in order.
ValidWindow(from, to) == from # None /\ to # None /\ from <= to
movement_summary ==
  /\ report.pc = "idle"
  /\ \E w \in Windows, g \in SummaryGroups :
       /\ ValidWindow(w[1], w[2])
       /\ report' = [NoReport EXCEPT !.pc = "currency", !.from = w[1], !.to = w[2],
                                     !.group = g]
  /\ UNCHANGED <<db, writes>>

Read(pc, next, field, value) ==
  /\ report.pc = pc
  /\ report' = [report EXCEPT !.pc = next, ![field] = value]
  /\ UNCHANGED <<db, writes>>

\* The currency that GET /me shows, and that the summary counts in.
me == IF preferred = None THEN DefaultCurrency ELSE preferred
ReadCurrency == Read("currency", "totals", "currency", me)
ReadTotals == Read("totals", "by_account", "totals", SUMMARY_TOTALS)
ReadByAccount == Read("by_account", "by_category", "by_account", SUMMARY_BY_ACCOUNT)
ReadByCategory == Read("by_category", "buckets", "by_category", SUMMARY_BY_CATEGORY)
ReadBuckets == Read("buckets", "recent", "buckets", Buckets)
ReadRecent ==
  \E ms \in SUBSET Movements : IsRecent(ms) /\ Read("recent", "done", "recent", ms)

\* The answer is on its way; the next summary starts afresh.
Answer == /\ report.pc = "done"
          /\ report' = NoReport
          /\ UNCHANGED <<db, writes>>

-------------------------------------------------------------------------------
(* What other handlers commit meanwhile                                      *)

\* torn: history, whether something the statements read has changed since the
\* first of them that reads movements.
Reading == report.pc \in {"by_account", "by_category", "buckets", "recent"}
Commit ==
  /\ writes < MaxWrites
  /\ writes' = writes + 1
  /\ report' = [report EXCEPT !.torn = @ \/ Reading]

create_movement ==
  /\ Commit
  /\ \E m \in Movements \ Rows, d \in Drafts :
       /\ d.account \notin archived
       /\ movements' = [movements EXCEPT ![m] = d]
  /\ UNCHANGED <<archived, preferred>>

\* A transfer has no PATCH; an account is only exchanged for an open one.
patch_movement ==
  /\ Commit
  /\ \E m \in Rows, d \in Drafts :
       /\ movements[m].direction # "transfer" /\ d.direction # "transfer"
       /\ d.account = movements[m].account \/ d.account \notin archived
       /\ movements' = [movements EXCEPT ![m] = d]
  /\ UNCHANGED <<archived, preferred>>

delete_movement ==
  /\ Commit
  /\ \E m \in Rows : movements' = [movements EXCEPT ![m] = None]
  /\ UNCHANGED <<archived, preferred>>

\* PATCH of an account archives it or brings it back.
patch_account ==
  /\ Commit
  /\ \E x \in Accounts :
       archived' = IF x \in archived THEN archived \ {x} ELSE archived \union {x}
  /\ UNCHANGED <<movements, preferred>>

\* ON DELETE SET NULL; the id stands for the next category that is created.
delete_category ==
  /\ Commit
  /\ \E c \in Categories :
       movements' = [m \in Movements |->
                       IF m \in Rows /\ movements[m].category = c
                       THEN [movements[m] EXCEPT !.category = None]
                       ELSE movements[m]]
  /\ UNCHANGED <<archived, preferred>>

\* A PATCH of the preferences sends a currency or only other fields.
PreferenceBodies == Currencies \union {None}
\* A row with the defaults is made if there is none, then what was sent is set.
\* The currency is read once, before everything else: nothing is torn.
patch_preferences ==
  /\ writes < MaxWrites /\ writes' = writes + 1
  /\ \E c \in PreferenceBodies : preferred' = IF c = None THEN me ELSE c
  /\ UNCHANGED <<movements, archived, report>>

\* --create-user inserts the user and then, as a statement of its own whose
\* failure nobody looks at, the row of preferences with its defaults.
create_user == {DefaultCurrency, None}

Init ==
  /\ movements \in [Movements -> Drafts \union {None}]
  /\ archived = {}
  /\ preferred \in create_user
  /\ report = NoReport
  /\ writes = 0

Next ==
  \/ movement_summary \/ ReadCurrency \/ ReadTotals \/ ReadByAccount
  \/ ReadByCategory \/ ReadBuckets \/ ReadRecent \/ Answer
  \/ create_movement \/ patch_movement \/ delete_movement
  \/ patch_account \/ delete_category \/ patch_preferences

Spec == Init /\ [][Next]_vars

-------------------------------------------------------------------------------
(* Properties                                                                *)

SumOfParts(part, field) == SumOver([k \in DOMAIN part |-> part[k][field]], DOMAIN part)

\* The parts of one answer tell one story, unless a commit came between them:
\* accounts and buckets add up to the totals, categories to no more, and there
\* are as many recent rows as the count of the window allows.
PartsAgree ==
  report.pc = "done" /\ ~report.torn =>
    /\ \A field \in {"expense", "income"} :
         /\ SumOfParts(report.by_account, field) = report.totals[field]
         /\ SumOfParts(report.buckets, field) = report.totals[field]
         /\ SumOfParts(report.by_category, field) <= report.totals[field]
    /\ report.totals.count <= report.totals.recent_total
    /\ \/ Cardinality(report.recent) = report.totals.recent_total
       \/ Cardinality(report.recent) = RecentLimit

\* The buckets of a chart follow each other without gap or overlap: every day
\* of the window is in exactly one, and each holds a day of the window.
BucketsTile ==
  report.buckets # None =>
    LET window == {d \in report.from .. report.to : IsDate(d)}
        In(d, b) == b.from <= d /\ d <= b.to
    IN  /\ \A d \in window : Cardinality({b \in DOMAIN report.buckets : In(d, b)}) = 1
        /\ \A b \in DOMAIN report.buckets : \E d \in window : In(d, b)
===============================================================================
