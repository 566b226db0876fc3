# Specifications of the personal dashboard

TLA+ models of the backend's handlers that must stay correct while they run
concurrently, TLC configurations that check them on small instances, and
theorems, checked by TLAPS, that hold for every value of the constants.

- `tlc -config LedgerEditing.cfg MCLedger.tla` checks one run (the table of runs
  names module and configuration of each);
- `tlapm LedgerProofs.tla` checks the proofs of one module.

`PROJECT.json` maps every definition to the lines it is translated from and lists
the runs, the hazards, the findings and, for each checked property, a plausible bug
that breaks it.

## 1. The system

A Rust backend (axum, sqlx, tokio) on PostgreSQL, an MCP server in TypeScript that
calls the backend's HTTP API for language-model clients, a Next.js frontend, and
Docker files. The backend keeps no state of its own except the rate limiter: all
else is in tables, and handlers interact only through the database (row locks,
foreign keys, triggers), the pool of five connections and the 15 s `TimeoutLayer`
that drops a handler at whatever `await` it has reached. Isolation is PostgreSQL's
default, READ COMMITTED: each statement sees what was committed before it began,
except that an UPDATE, DELETE or FOR UPDATE that waited for a row sees its newest
version.

| Component | State | Operations | What is hard | What must hold | Modelled in |
|---|---|---|---|---|---|
| Movement ledger `routes/movements.rs` | `movements`, `accounts.balance` | create, transfer, patch, delete | snapshots taken before locks, several account locks at once, retries, dropped handlers | balance = sum of movements; no delta lost or applied twice; no deadlock; truthful answers | `Ledger` |
| Movement summary, list | none | six statements of one GET | no transaction around them; buckets cut twice, in Rust and in SQL | the parts of one answer agree | `Summary`, `Calendar` |
| Accounts `routes/accounts.rs` | `accounts` | create, patch (balance, archived), delete | count-then-delete; correcting a balance under writers | no movement without its account; archived accounts take nothing new | `Ledger` |
| Goals and tasks `routes/goals.rs`, `tasks.rs`, triggers of 0004 and 0007 | `goals`, `tasks` | CRUD; triggers stamp and recount | trigger snapshot older than its lock; lock orders that collide; merged ranges | progress = share of completed tasks; no orphan task | `GoalProgress`, `GoalDates` |
| Subscriptions `routes/subscriptions.rs`, `finance/dates.rs` | `subscriptions`, payment movements | CRUD, pay | two pays of one cycle, midnight between clock and lock, month ends | no cycle paid twice; the books agree | `Subscriptions`, `BillingDates` |
| Assets `routes/assets.rs` | `assets`, `asset_valuations` | create, patch, archive, value; net worth | valuations out of order; a second pool connection inside a transaction | net worth = newest valuations; every request ends | `Assets`, `Pool` |
| Login, rate limiter `routes/login.rs`, `auth/rate_limit.rs` | in-process buckets | check, verify, record; evict | check, then a long hash, then record; a full table; proxies | budget; a Retry-After that is true to less than a second; the right client is charged | `RateLimiter`, `Access` |
| Sessions `routes/sessions.rs`, `logout.rs`, `auth/` | `sessions` | issue, check, revoke | revocation against requests in flight | what was logged out never authenticates again | `Access` |
| API tokens `routes/tokens.rs` | `api_tokens`, mint budget | reserve, insert, commit or release | handler dropped after the insert; restart | the budget counts the tokens that exist | `Access` |
| Habits and logs `routes/habits.rs` | `habits`, `habit_logs` | CRUD; streak, page of the day | lookups before writes; midnight; row-number arithmetic | the streak is the run of days | `Habits`, `Streak` |
| Events `routes/events.rs` | `events` | CRUD, range | lookups before writes; a range merged with a row read earlier | links are owned, end after start | `Events` |
| Notes `routes/notes.rs` | `notes` | CRUD | a category deleted after its lookup | links are owned | `Notes` |
| Categories `routes/categories.rs` | `categories` | create, delete, seeding by pay | ON DELETE SET NULL into every table; lock order against pay | nothing dangles | `Agenda`, `Subscriptions`, `Summary` |
| Connection pool `db.rs` | 5 connections | acquire, release, time out | handlers that need two | a stall dissolves | `Pool` |
| Profile `routes/me.rs`, `--create-user` | `user_preferences` | read, upsert | the row may be missing | the summary counts in one currency | `Summary`, partly |
| HTTP assembly `main.rs` | - | routing, time limit, start | a handler dropped at any await | - | in every module with handlers, partly |
| MCP server `src/mcp-dashboard` | session map | open, idle expiry, close | two initialisations and one free slot | the limit is kept | not modelled |
| Frontend, deployment | - | views, images | - | - | not modelled |

Section 7 says what is left out and why.

## 2. The modules

| Module | What it is |
|---|---|
| `LedgerTypes` | rows of the two tables; `SignedDelta`, what a movement does to one account; `LedgerTotal`, what a table of movements does to an account |
| `Ledger` | the handlers of movements and accounts, one action per statement that can block or be observed |
| `LedgerSpec` | the abstract ledger: each request is one atomic step on status, book and corrections, and a balance is *defined* as their sum |
| `LedgerInvariant` | the inductive invariant `LedgerInv`, in named parts |
| `Sums`, `NumberLemmas` | sums of sequences and over finite sets; the lemmas about them that balances, payments, the pool, net worth and the summary need |
| `LedgerProofs` | its theorems: type correctness; locks, book and balances; answers, deadlock, gates and the refinement |
| `GoalProgress` | writes of tasks, creation and deletion of goals, the foreign keys and the triggers |
| `GoalInvariant`, `GoalProgressProofs` | the inductive invariant `GoalInv`; its theorems |
| `BillingDates` | `finance/dates.rs`: dates, clamped months, the next billing date |
| `Subscriptions` | create, patch, delete, pay; deletion of the payments' category; the calendar |
| `SubscriptionInvariant`, `SubscriptionsProofs` | the inductive invariant `SubscriptionInv`; its theorems and those of the date arithmetic |
| `RateLimiter` | the tables of the limiter: prune, evict, push, pop, waiting time |
| `Access` | login, logout, sessions, API tokens and their mint budget on `RateLimiter` |
| `AccessInvariant`, `AccessProofs` | the inductive invariant `AccessInv`; its theorems |
| `Pool` | the database connections handlers share |
| `Assets` | assets and valuations on `Pool` |
| `AssetInvariant`, `AssetsProofs` | the inductive invariant `AssetInv`; its theorems |
| `Calendar`, `Summary` | the units and buckets of the summary; its six statements among other handlers' commits |
| `SummaryInvariant`, `SummaryProofs` | the inductive invariant `SummaryInv`; its theorems and those of the units and buckets |
| `Streak` | the streak query and the page of the day |
| `Planner` | what habits, goals, events and notes share: categories, a request that looks up and then writes |
| `Habits`, `GoalDates`, `Events`, `Notes` | the handlers of one table each |
| `Agenda` | those four side by side, with the deletions that reach from table to table |
| `AgendaInvariant`, `AgendaProofs` | the inductive invariant `AgendaInv`; its theorems, the streak's among them |
| `MC...` | instances for TLC |

### Ledger

A request is a record `req[r]`: the place its handler has reached (`pc`), what the
client sent, the snapshot it read (`snap`), the row it re-read under its lock
(`row`), the accounts it still has to lock (`todo`), the attempt it is in, the answer
given, and, as history, whether it has committed.

```
Begin          unlocked reads, BEGIN                       create/transfer/patch/delete
LockAccount    SELECT .. FROM accounts .. FOR UPDATE,      once per account, ascending id
LockMovement   the movement row: FOR UPDATE, or DELETE     patch, delete
MovedUnderUs   rolled back, unlocked                       the row left the locked accounts
RefreshSnapshot  a new snapshot, a new attempt, or 500     at most RetryAttempts attempts
Gate*          archived flag, currency, category           early return 422
Commit*        row and balances, published at once
Rollback, Respond, Timeout
```

What a transaction writes is invisible and locked until it commits, so writes are
taken in the commit step; any failure before it leaves nothing, as in the code, where
dropping the transaction rolls it back. (So a commit is one step, and that an error between
two of its statements leaves nothing is PostgreSQL's promise, which the runs take for granted;
the same holds of `Subscriptions`.) An early return answers first and frees its
locks later (`Abort`, then `Rollback`), as sqlx does. `Timeout` drops the future:
the statement in flight is not cancelled, so a request that waits for a lock keeps
waiting and only then rolls back; a DELETE that commits by itself, or a COMMIT
that was already sent, takes effect although the client is told 504.

PATCH of an account is one statement and hence one action. DELETE of an account is
three: ownership, count of movements, then the DELETE, which waits for the row and is
caught by the foreign key (`CommitClose`), after waiting for referencing rows that are
locked.

Abstractions: the reads at the start of a handler are one step (each is checked again
under the lock, or refuses at once); whether a category belongs to the caller is a free
choice; amounts are small integers and the NUMERIC limits are left out; one user owns
all rows (a foreign row is a missing row in every query).

`LedgerSpec` has no requests and no locks: `Post`, `Move`, `Edit`, `Remove`, `Open`,
`Assert`, `Close` are atomic. `ImplementsAtomicLedger` maps `status` to the state and
archived flag of each account, `book` to `movements` and `asserted` to `adjusted`.
It says more than the invariants: the commit of a handler that read its gates several
statements ago is a step whose guard is true *at the commit*.

### GoalProgress

Tasks and goals are written by single autocommit statements, but a statement is not
atomic for others: `InsertTask`/`UpdateTask`/`RemoveTask` lock the task row,
`CheckGoal` is the foreign-key check (FOR KEY SHARE on the goal), `CountTasks` is the
trigger's UPDATE taking its snapshot and counting, `UpdateGoal` its wait for the goal row
and its write, `CommitTask` publishes. Deleting a goal (`LockGoal`,
`LockLinked`, `CommitDrop`) locks the goal and then, through ON DELETE SET NULL, its
tasks. `LinkBlockers`, `UpdateBlockers` and `DeleteBlockers` are PostgreSQL's lock
conflicts as far as these statements meet: KEY SHARE is compatible with the trigger's
NO KEY UPDATE and not with the deletion's FOR UPDATE. `DeadlockVictim` is the error
40P01, raised only for a cycle of waits; the handler answers 500.
`completed` says whether `completed_at` is set, which `set_task_completed_at` stamps
and clears before the row is written. `overlapped` is history: the goals that two writes
counted at the same time. Due date, order, title and category of a task are left out.

### Subscriptions and BillingDates

Pay reads the clock (`Pay`), locks the account, then the subscription with its guards
(404, 422, 409), makes sure of the category (`SeedCategory`, an upsert that locks its
row) and commits movement, debit and next cycle together (`CommitPay`). PATCH and DELETE
are one statement each and wait for the row. Deleting the category locks it and then
every subscription that names it: the opposite order of Pay, hence `DeadlockVictim`.
`Tick` moves the clock between any two steps. A timeout aborts; one that comes while
the COMMIT is under way is the commit. A date is the number `31 * month + day - 1`:
months are contiguous, order is the calendar's, and `IsDate` tells the numbers that are
dates. `moved`, `first` and the fields `due` and `next` of a payment are history. The
price cap and the category's foreign key on the payment are left out.

### RateLimiter and Access

A bucket is the set of instants a key has to answer for; a table is a map of buckets,
pruned, bounded and pushed to under the one mutex, so each limiter call is part of one
action. `check_login` is the waits of the address and of the account, as far as their
buckets are full; a refused login (`Refuse`) announces the larger of them in whole
seconds, cut off, at least one (`retry_after`), as does a refused mint; a second is
`Second` ticks of the clock. A login is four steps: `Login` (validation, client address, gate), `Verify`
(user row and password), then `RecordFailure`, or `InsertSession` and `LoggedIn`
(which forgets the failures). Minting is `BeginMint`, `Reserve`, `InsertToken`,
`Minted`; `Timeout` drops the handler at any of them and gives the slot back, as the
guard's `Drop` does. Logout revokes, and if no row was revoked counts, in two
statements. A request looks its credential up once (`SessionValid`, `TokenValid`) and
acts later. `Deactivate` is the operator's and there is no way back: no code makes a user
active again. (Were one reactivated between the UPDATE of a logout, `logout.rs:15`, and its
COUNT, `logout.rs:28`, the answer would be 204 and the session live; `LogoutIsFinal` rests on
that not happening.) `Restart` empties the limiter and kills
every handler, the rows stay. `rate_limit_key` walks X-Forwarded-For from the right
past addresses in trusted blocks; addresses have `Width` bits so that blocks are real
prefixes (read from the right, as the delta of 2026-10-04 asks; it supersedes the "first
parseable element" of `openspec/specs/session-auth/spec.md`). `lost` and `minted` of a token and `loggedOut` are history.

### Pool and Assets

`held[r]` counts the connections of a request. An autocommit statement (`Statement`) needs
one and returns it in the same step, a transaction keeps its own. PATCH probes, begins,
locks the row, looks up the account it was given on a *second* connection
(`SecondConnection`), refuses a new currency once there are valuations, and commits.
A valuation locks the row, compares with the newest date and commits the insert with its
trigger. `AcquireTimeout` is the pool's, `Abandon` the HTTP layer's. Deleting
an account unlinks its assets and waits for their rows. Names, texts and categories are
left out.

### Calendar and Summary

`report` is the summary being computed; each Read action is one statement. What the others
commit meanwhile is one action each (their locks are `Ledger`'s); `torn` is history, set
when a commit falls between the first and the last of the statements that read movements.
`summary_bucket_windows` is the Rust loop, `date_trunc` PostgreSQL's, and the buckets
of the answer are matched as the handler matches them, so a disagreement would drop a
sum. A user may have no row of preferences (`create_user` ignores the failure of its
second statement); then COP counts.

### Streak, Planner, Habits, GoalDates, Events, Notes, Agenda

A request runs one autocommit statement after the other: `Start`, for a PATCH the read,
the lookups of the habit and the category it names, the write. Anybody may commit in
between, `Midnight` may strike, `Abandon` may drop the handler. A write checks its foreign keys again.
`current_streak` is the query with its row numbers, `StreakAsDocumented` what its
comment says. A start date that is not sent is the UTC day, which is today or tomorrow in
Bogota. `raced` is history: a PATCH wrote over other dates than those it had validated
against. An event's links to goals, tasks and subscriptions go through the same code as
those to habits, which stand for all. Names (and their 409), texts, targets, the
archived flag of habits and the search of notes are left out.

## 3. Hazards and properties

`PROJECT.json` lists every hazard at its line. The properties that answer them:

- **Ledger.** `LedgerInv`: what every handler knows and holds at each step, the
  invariant the proofs use (`GoalInv`, `SubscriptionInv`, `AssetInv`, `AccessInv`,
  `SummaryInv` and `AgendaInv` are its like and contain each module's `TypeOK`).
  `BalanceMatchesLedger`: a balance is what the user asserted plus what the stored
  movements did to it. `LockedReadsStayTrue`: what a handler read under its locks is
  true until its commit. `NoDanglingMovement`, `ArchivedAccountsStayClosed`,
  `AmountsKeepTheirCurrency`: three kinds of check-then-act in `movements.rs` and
  `accounts.rs` (Pay, in `Subscriptions`, books on an account without asking whether it is
  archived). `OmittedFieldsKept`: two
  edits of different fields are both kept. `NoWaitCycle`: no set of requests waits for
  one another. `AnswerTellsOutcome`: 4xx and 500 wrote nothing in any attempt, 2xx
  wrote. `LocksBelongToTransactions`: nothing is left locked between attempts or after
  an answer. `EveryRequestEnds`: the retry loop and the locks let every request finish.
- **GoalProgress.** `TasksInv`: no task names a goal that is gone, and the view of done
  tasks and the status agree. `OnlyDeletionUnlinks`: a link is lost only when its
  goal is. `DriftOnlyFromOverlap`: progress is exact for a goal whose writes never
  overlapped. `EveryWriteEnds`.
- **Subscriptions.** `OncePerCycle`, `CycleMatchesPayments` (subscription, movements and
  balance agree), `PaidAsStored` (what is charged is true at the commit),
  `NextBillingIsExact` (the catch-up loop against a definition by the calendar).
- **Access.** `OverrunBoundedByOverlap`: a budget is exceeded by fewer than the attempts
  that can be in flight together. `RetryAfterIsTrue`: who comes back
  after Retry-After, or up to the second later that was cut off, finds that each bucket that
  refused it has lost an entry, so that one that was just full has room and one that
  concurrent attempts pushed over its budget has come closer to it; and nobody is sent away
  for longer than the window or, the least second aside, than some bucket stays as it is.
  `BlockedUntilItsWindowEnds`: a blocked address or account is let in early only when its
  table is full of blocked keys or after a restart, an account also by its own success
  (the specification wants more: section 5).
  `ChargesTheClient`: whatever a client writes into the header, it is charged itself.
  `MintBudgetIsExact`: slots are the tokens created and the creates in flight.
  `LogoutIsFinal`: what was answered 204 never authenticates again. `AccessInv`: no table
  outgrows its ceiling or holds an entry of the future, no two creates return the same token,
  and what a handler knows between two statements is so.
- **Assets.** `NetWorthIsNewest`, `DenominationKept` (no step re-labels recorded values),
  `StallNeedsAccountPatch` (only a PATCH that names an account can stall the pool),
  `EveryRequestEnds` (the acquire timeout undoes every stall).
- **Summary.** `SummaryInv`: what has been read is what its statement would read again, and
  totals, accounts, buckets, categories and recent rows agree, unless a commit tore them. `BucketsTile`: every day of the window is in one bucket.
- **Agenda.** `AgendaInv`: nothing dangles, categories are of the right kind, no row leads
  to another user's. `StreakIsRun`: the query counts what its comment says when every day
  is scheduled, and never too much. `TodayMatchesStreak`: the two numbers on the page of the day
  agree. `RangeBreaksOnlyFromOverlap`: a range is wrong only if it raced.

## 4. The runs

| Run | Instance | Question |
|---|---|---|
| `LedgerAccounts` | 2 accounts, an expense stored; all operations on movements and accounts, 2 requests in flight, 3 in all, fair | is the proved invariant true and each commit an atomic step, does every request end? |
| `LedgerEditing` | 3 accounts, 2 currencies, an expense and a transfer stored; patch, delete, archiving and manual corrections, 2 requests in flight, 3 in all | do balances survive edits, re-points, retries and deletes that race? |
| `GoalProgress` | 2 tasks, 2 goals, 2 writers, 3 writes, fair | are links sound, is progress exact without overlap, does every write end? |
| `GoalProgressDrift` | 2 tasks of one goal, 2 writers | *violation*: progress goes wrong |
| `SubscriptionCycle` | 2 accounts, 2 subscriptions, 4 days, 2 requests at once, 3 in all | is a cycle ever paid twice? |
| `SubscriptionDrift` | due on 31 January, paid twice | *violation*: the day drifts |
| `Access` | a user and two strangers, 2 clients, a trusted block, 2 requests at once, 3 in all, restarts | do budgets, Retry-After and revocation hold? |
| `EvictionResets` | the same, one session and one token | *violation*: a blocked account loses its block to an eviction |
| `Assets` | one asset, one account, 2 currencies, 2 requests for ever, 2 connections, fair | is net worth right, does the pool recover? |
| `Summary` | 2 movements, 3 accounts, 2 currencies, one commit during a summary; new year and a leap day, four units | do the parts of an answer agree? |
| `Agenda` | one habit and one to come, a goal, an event, a note, 2 requests; every table of logs of four days | are links and ranges sound, is the streak the run of days? |
| `HabitStreak` | a habit of Mondays and Wednesdays | *violation*: done on both, the streak is one |

A passing run takes between one and three minutes. Why the bounds are
enough: two requests meet in every pair of handlers, and a third gives one of them a
second conflict (a retry that is beaten again; a delete between two edits). Three
accounts allow a re-point within a currency and one across. `RetryAttempts` is 2 where
the code has 5: the loop's first, middle and last turns differ only in the test for the
last, and the proofs hold for any number. Three of the four days of `MonthEnds` are the
last of a month or the day before, one is a leap February, and the gap to July makes the
catch-up loop run several times. In `Access` the budgets and the ceiling of keys are
2, so that two attempts in flight go over a budget and a third key must evict; half of the
initial states have a full table with one blocked key.
A second is two ticks, so that a wait is cut off in the middle of one, a window four (a
Retry-After of one or two seconds) or, for mints, three, and the clock reaches the end of a
window that began before the run. In `Assets` requests start over
without bound, and two connections for two requests are what five are for five PATCHes:
each transaction holds one and asks for another. In `Summary` one commit can fall
between any two statements; more only tear the answer again. The windows lie across a new
year in the middle of an ISO week (29 December to 1 January; four days, because TLC
enumerates orders of the set it sums over) and across 29 February. Four days of logs hold every
order of a done, a missed, a skipped and an absent day.

`MaxRequests` and `MaxWrites` bound what is started. Deadlock is checked everywhere except in
`Agenda` and `HabitStreak`, whose requests are used up in the end; where an instance
ends, `Drained` (or `Restart`, in `Access`) is a step. Requests that are interchangeable,
and the movements of `Summary`, are symmetric in runs without liveness only.

**Fairness.** `Ledger`: WF on the steps of a handler, since tokio polls a ready task and
PostgreSQL finishes a statement that is not blocked; SF on the lock acquisitions (`Locking`),
because waiters for a row lock queue and are granted in turn. `GoalProgress`: SF on the
run of each writer for the same reason; its deadlock victim is part of that run because
PostgreSQL looks for cycles after `deadlock_timeout`. `Assets`: SF on the steps that wait for
a connection or a row, which sqlx and PostgreSQL hand over in order; WF on the rest and
on the acquire timeout, which is a timer. The 15 s timeout is *not* fair:
requests end without it. No client is assumed to send anything.

## 5. What the runs found

1. **Progress can be lost** (`GoalProgressDrift`). Two tasks of one goal change status
   at the same time. The second trigger has counted in the snapshot it took before it
   waited for the goal row, and overwrites the first one's count with one that lacks it.
   The spec (`openspec/specs/goal-tracking/spec.md:18`) promises that progress is updated
   whenever linked tasks are modified. It stays wrong until the next write of a
   task of that goal; `DriftOnlyFromOverlap` shows there is no other way to it.
2. **The due day drifts** (`SubscriptionDrift`). `design.md:72` of the change that
   introduced the cycle says the anchor day survives the February clamp. It does within one
   catch-up, but Pay stores the clamped date and the next Pay starts from it: 31
   January, 28 February, 28 March. (The later `finance-subscriptions/spec.md:274` steps
   from the stored value, as the code does.)
3. **Days off break the streak** (`HabitStreak`). `habits.rs:40` and
   `openspec/specs/habits-management/spec.md:43` say that masked-out weekdays are ignored.
   The query leaves their logs out but still wants the others on consecutive calendar
   days, so a habit of Mondays and Wednesdays never has a streak above one.
   `StreakIsRun` shows the query right when every day is scheduled. (Both anchor the run at
   the newest scheduled log, however old: the comment leaves that open, the tests at
   `habits.rs:2327` and `:2368`, which log fixed days of the past, rely on it.)
4. **Eviction can end a block** (`EvictionResets`). The session-auth delta of 2026-10-04
   (`specs/session-auth/spec.md:96`; also `openspec/specs/session-auth/spec.md:74`) says
   "Eviction MUST NOT silently reset a currently blocked key in either map"; decision DD5 of the
   change of 2026-09-23 (`design.md:21`) would rather exceed the cap for a time. When every key of a full table is blocked, `bound_keys`
   evicts the least recently active one. The comment above it (`rate_limit.rs:410`) and the
   test `saturated_maps_stay_at_the_cap_and_admit_a_legit_login` want this, because the table
   would outgrow its cap otherwise: of such a table the cap and the rule cannot both hold.
   `BlockedUntilItsWindowEnds` states what does: besides an account's own success and a restart
   nothing else ends a block early.

Behaviour the models show and the documents allow: a stalled pool when as many PATCHes
that name an account run as there are connections (it ends with 500s after the acquire
timeout); a summary torn by a commit; a range that ends before it starts after two
overlapping PATCHes; a mint slot given back for a token that was created when its handler
is dropped right after the INSERT.

## 6. What is proved

Every invariant and every action property that a passing run checks is proved as well,
for any number of rows and of requests in flight, any amounts, currencies and days; the
liveness properties are not. The theorems that state a checked property:

| Module | Theorem | States |
|---|---|---|
| `LedgerProofs` | `LedgerInvariantHolds` | `[]LedgerInv` |
| | `ReadsStayTrue` | `[]LockedReadsStayTrue` |
| | `BalancesMatch` | `[]BalanceMatchesLedger` |
| | `NothingDangles` | `[]NoDanglingMovement` |
| | `AnswersAreTrue` | `[]AnswerTellsOutcome` |
| | `LocksHaveOwners` | `[]LocksBelongToTransactions` |
| | `NoDeadlock` | `[]NoWaitCycle` |
| | `HandlersRefine` | `ImplementsAtomicLedger` (the refinement) |
| | `ClosedStaysClosed` | `ArchivedAccountsStayClosed` (action property) |
| | `CurrencyStays` | `AmountsKeepTheirCurrency` (action property) |
| | `OmittedStays` | `OmittedFieldsKept` (action property) |
| `GoalProgressProofs` | `GoalInvHolds` | `[]GoalInv` |
| | `TasksAreSound` | `[]TasksInv` |
| | `DriftNeedsOverlap` | `[]DriftOnlyFromOverlap` |
| | `OnlyDeletionsUnlink` | `OnlyDeletionUnlinks` (action property) |
| `SubscriptionsProofs` | `SubscriptionInvHolds` | `[]SubscriptionInv` |
| | `PaidOncePerCycle` | `[]OncePerCycle` |
| | `BooksAgree` | `[]CycleMatchesPayments` |
| | `PaymentsAreTrue` | `PaidAsStored` (action property) |
| | `BillingIsExact` | `WithinCatchUp` implies `[]NextBillingIsExact` |
| `AssetsProofs` | `AssetInvHolds` | `[]AssetInv` |
| | `NetWorthIsTrue` | `[]NetWorthIsNewest` |
| | `StallsNeedAccountPatch` | `[]StallNeedsAccountPatch` |
| | `DenominationHolds` | `DenominationKept` (action property) |
| `AccessProofs` | `AccessInvHolds` | `[]AccessInv` |
| | `OverrunBounded` | `[]OverrunBoundedByOverlap` |
| | `RetryAfterTrue` | `RetryAfterIsTrue` (action property) |
| | `ClientIsCharged` | `[]ChargesTheClient` |
| | `MintBudgetHolds` | `MintersFit` implies `[]MintBudgetIsExact` |
| | `LogoutFinal` | `[]LogoutIsFinal` |
| | `BlockHolds` | `BlockedUntilItsWindowEnds` (action property) |
| `SummaryProofs` | `SummaryInvHolds` | `[]SummaryInv` |
| | `AnswersTile` | `[]BucketsTile` |
| `AgendaProofs` | `AgendaInvHolds` | `[]AgendaInv` |
| | `RangesBreakOnlyFromRaces` | `[]RangeBreaksOnlyFromOverlap` |
| | `StreakCountsTheRun` | `[]StreakIsRun` |
| | `PageOfTheDayAgrees` | `[]TodayMatchesStreak` |

Besides them `TypeCorrect`, `GoalTypes` and `SubscriptionTypes` state `[]TypeOK`,
`LedgerCoreHolds` the first half of `LedgerInv`, and four theorems are about the
arithmetic of dates alone. `BillingMovesOn`: the next billing date is a date, after the
payment and after the due date it replaces. `NextBillingFound`: within the loop's reach
it is the date the calendar defines. `TruncationsAgree`: the first day of a unit that
Rust computes is the one PostgreSQL's `date_trunc` groups by. `WindowsTile`: the buckets
of any window follow one another without gap or overlap.

**Assumptions.** Those the modules declare, which TLC evaluates on every instance:
amounts are positive, prices and values not negative; ids and the NULL value differ;
the rows and tables the models start with are well-formed (`StoredAssumption`,
`PlansAssumption`, `PastAssumption`) and tasks dated as the migrations leave them
(`PlanAssumption`); "completed" is a status (`StatusesAssumption`); sets that are counted
or summed are finite; budgets and windows are positive and no client's address lies
in a trusted block; the days of the planner have no gaps. Three are about size:

- `BillingIsExact` has the hypothesis `WithinCatchUp`: no day of the calendar is
  `MAX_CATCH_UP_MONTHS` (1200, a hundred years) or more after another or after a due
  date stored at the start. Beyond that the code's loop gives up and falls back to a month
  after the payment, whatever the due day; `MCSubscriptions` assumes it as well, so that
  TLC sees it true of the instances.
- `MintBudgetHolds` has the hypothesis `MintersFit`: there are no more users than a
  table of the limiter holds keys (`MAX_KEYS`, 4096; an installation has a few users).
  Without it the property is false: when a stranger's mint evicts a user from a full table,
  that user's budget starts afresh. `MCAccess` assumes it for TLC. The rest of `AccessInv` is
  proved without it.
- A window of the summary begins after the first month of the model's calendar, which
  starts with the year 0, so that the unit it begins in does (`SummaryAssumption`).

**The argument.** None of the properties is inductive. That a commit writes
the right thing follows from what its handler read earlier, and that this is still so
follows from what it has locked, or from what can no longer change. Each invariant
therefore says the same three things of every request: what it has been asked and has
read by the step it is at (`Shaped`, `Asked`, `Prepared`, `Knows`), which locks it holds
*and that it holds no others* (`OwnerInv`, `HoldsOnly`), and that what it read is
still what is stored (`Secured`, `ReadsHold`, `ChecksHold`, `StillSo`). A step keeps this
for its own request because it locks before it reads; it keeps it for the others because
it writes only rows that it holds or that nobody holds. Per component:

- *Ledger.* `LedgerCore` is types, `LockInv`, the shape of rows
  (`LegsMatchDirection`, `UnopenedUntouched`), references and balances. A commit changes
  one row of the book and balances by the difference, and `LedgerTotalUpdate`
  (from `SumToUpdate` of `NumberLemmas`, by partial sums) says that the total of an account changes by the same.
  `AnswerInv` gives the answers. `OrderInv` says that an open transaction
  locks ascending ids and a movement row last, so along a chain of waits ids ascend
  and the owner of a movement row never waits: hence no cycle. `GateInv` says that what
  the gates found (archived flag, currencies) stays true up to the commit; with it each
  commit is *the* step of `LedgerSpec` with its guard true, and every other action
  stutters, action by action.
- *Tasks and goals.* `CountsHold`: what the trigger counted is right or the writer
  knows (`stale`) what made it wrong. `DropHolds`: the deletion of a goal knows every
  task that names it, because a write that links to it needs a KEY SHARE which the
  deletion's lock excludes.
- *Subscriptions.* `PaymentsInv`: each payment moves the due date past itself, which is
  `BillingMovesOn`; so due dates of one cycle chain never repeat. `DatesInv`, proved beside it,
  says that no due date lies further back than the first ones, which gives
  `NextBillingFound` its hypothesis. That theorem rests on the least number of months that
  passes the payment date, which exists because a month has at most 31 days, and on
  clamping never leaving its month.
- *Assets.* `StepsOf` and `HoldsOnly` tie connections and locks to the step a handler
  is at: whoever has a connection without a lock waits for a row, whoever holds a row can
  go on unless it asks for its second connection. `ValuesInv` relates each row to its
  newest valuation.
- *Access.* Handlers hold no locks here; what a handler knows survives because sessions
  and tokens only go from valid to revoked (`RowsInv`, `LoggedOutInv`) and because no two
  creates return the same token (`MintedApart`). For the budget of attempts, the
  entries of a bucket and the attempts between check and record are counted together: the
  check admits one only while the bucket is below the budget, recording moves one from the
  attempts to the entries, so the sum stays below the budget plus what can be in flight. For the mint budget `SlotsInv` says which entries there
  are: those of each instant are numbered without a gap, as many as there are tokens
  created then and creates in flight. Giving a slot back removes the highest number, whoever
  took it, and the numbering stays; this is why the budget is exact although the code
  removes *an* equal instant and not the request's own. For Retry-After, `NoneAhead` (no entry is of the future) bounds the wait of a full bucket
  by its window and makes it positive after pruning; its oldest entry then leaves at the end of
  the wait, less than a second after the announced one, and none before. For the forwarding header the proof
  takes the last address from the right that is in no trusted block; everything right of it
  was appended by proxies, so it is the client's.
- *Summary.* `StillSo` is what `torn` leaves: every part already read is what its
  statement would read now, so at the last step all describe one table. That the parts add up
  is then `SumByParts`: a sum over rows is the sum over the parts of the sums of the rows in
  each, for account and bucket because every counted row is in exactly one of them
  (`TruncationsAgree`, `WindowsTile`), for categories with what has none left over. The loop
  that cuts the windows is followed by its first days: they ascend, each is the first of its
  unit, and the next one is the first after it, so no unit is passed over and the bound
  of the loop suffices.
- *Agenda.* What a lookup found may be deleted before the write, so `Knows` keeps only
  what a deletion cannot change: an id found belongs to the user and is of the right kind
  even after its row is gone, and a start date that was read is that of the row unless the
  write sets `raced`. That the rows named still exist comes from the foreign keys, which are
  checked at the write. For the streak, the row numbers
  of the rows that are not skipped, newest first, are a bijection onto 1..n, and a row's
  date matches its number exactly if every day from it to the newest log is logged; so the
  first number that is cut is one more than the done days of the run.

**Only model-checked.**

- The liveness properties (`EveryRequestEnds` of ledger and assets, `EveryWriteEnds`):
  fairness needs ENABLED, which the prover does not have.
- The four disagreements of section 5: a counterexample is an instance.
- Induction over data is out of the prover's reach. Definitions are written so that
  proofs do not need it: sums are partial sums over an order of the set (`SumOver`), the
  loops of billing dates and buckets are functions or sets over the number of turns, and their
  lemmas take the least number at which they would fail, or a finite set one element at
  a time (`OneByOne`).

## 7. Not modelled

- **MCP server**: a second process and a client of the HTTP API like any other. Its
  session registry (slots, idle expiry) shares nothing with the backend's state.
- **Frontend, deployment**: views, caching, images, migrations at start.
- **Routing, CORS, headers, parsing, texts**: layout. Amounts are small integers;
  that a balance can outgrow NUMERIC(18,2) is listed as a hazard without a property.
- **Order of tasks** (`sort_order`, ties broken by creation), **profile fields** other than
  the currency, **password hashing** beyond fits or not.
- Several users: one user owns the rows; what is foreign is there where a handler treats it
  differently from what is missing (`Agenda`), and is missing elsewhere.

## 8. Plan

1. `McpSessions`: the slot limit, initialisation, idle expiry.
2. Amounts with the width of NUMERIC(18,2): a statement whose balance outgrows it fails
   and rolls back.
3. Bounds on how far a progress can drift, and after which writes it is exact again.
