------------------------------- MODULE Ledger --------------------------------
(***************************************************************************)
(* The handlers that write accounts and movements (routes/movements.rs,    *)
(* routes/accounts.rs), as concurrent requests that issue statements to a  *)
(* READ COMMITTED database with row locks.                                 *)
(*                                                                         *)
(* A request takes one step per statement another request can observe or   *)
(* block: an unlocked read, the acquisition of a row lock, a read under    *)
(* the lock, the commit.  What a transaction writes is invisible, and      *)
(* locked, until it commits, so its writes happen in the commit step.      *)
(***************************************************************************)
EXTENDS LedgerTypes, FiniteSets

CONSTANTS
  Requests,      \* the requests that may be in flight together
  Free,          \* the owner of a row lock nobody holds
  RetryAttempts, \* MOVEMENT_LOCK_RETRY_ATTEMPTS
  Operations,    \* bound: the kinds of request clients send
  PatchBodies,   \* bound: the bodies of PATCH /movements clients send
  MaxRequests    \* bound: how many requests are started in all

ASSUME FreeAssumption  == Free \notin Requests
ASSUME RetryAssumption == RetryAttempts \in Nat \ {0}
ASSUME BoundAssumption ==
  /\ MaxRequests \in Nat
  /\ Operations \subseteq {"create", "transfer", "patch", "delete", "close",
                           "open", "assert"}
ASSUME BodiesAssumption ==
  PatchBodies \subseteq [acct : Accounts \union {None},
                        dir : Signed \union {"keep"}, amt : Amounts \union {0}]

VARIABLES
  accounts,  \* the accounts table
  movements, \* the movements table
  adjusted,  \* history: the sum of the manual corrections to each balance
  accLock,   \* the request holding each account row FOR UPDATE, or Free
  movLock,   \* the request holding each movement row, or Free
  req,       \* each request: where its handler is and what it has read
  started    \* how many requests were started

vars == <<accounts, movements, adjusted, accLock, movLock, req, started>>

Ops     == {"none", "create", "transfer", "patch", "delete", "close"}
Replies == {"none", "ok", "404", "409", "422", "500", "504"}
Pcs     == {"idle", "locking", "locked", "rowLocked", "gated", "refreshing",
            "counting", "closing", "closingLocked", "replying", "aborting"}

\* Where a request has a transaction open, and may own row locks.
InTransaction ==
  {"locking", "locked", "rowLocked", "gated", "closingLocked", "aborting"}

Request ==
  [pc : Pcs, op : Ops,
   mov : Movements \union {None},      \* the movement in the URL
   acct : Accounts \union {None},      \* account_id / from_account_id / URL
   to : Accounts \union {None},        \* to_account_id
   dir : Directions \union {"keep"},   \* direction sent
   amt : Nat,                          \* amount sent, 0 if not sent
   snap : MovementRow,                 \* the snapshot of the movement
   row : MovementRow,                  \* the row re-read under its lock
   todo : SUBSET Accounts,             \* account rows still to lock
   attempt : Nat,                      \* attempts begun
   reply : Replies,
   wrote : BOOLEAN]                    \* history: has this request committed

IdleRequest ==
  [pc |-> "idle", op |-> "none", mov |-> None, acct |-> None, to |-> None,
   dir |-> "keep", amt |-> 0, snap |-> NoMovement, row |-> NoMovement,
   todo |-> {}, attempt |-> 0, reply |-> "none", wrote |-> FALSE]

Live(a)    == a \in Accounts /\ accounts[a].state = "live"
LiveAccounts == {a \in Accounts : Live(a)}
\* GET /accounts.
list_accounts == {a \in LiveAccounts : ~accounts[a].archived}
Least(S)   == CHOOSE a \in S : \A b \in S : a <= b
\* The account a PATCH wants the movement on: the one sent, else the snapshot's.
Target(q)  == IF q.acct = None THEN q.snap.account ELSE q.acct
\* The account rows an attempt locks.
LockSet(q) ==
  CASE q.op = "transfer" -> {q.acct, q.to}
    [] q.op = "patch"    -> {q.snap.account, Target(q)}
    [] q.op = "delete"   -> Legs(q.snap)
    [] OTHER             -> {q.acct}
\* Mutant: origin first, whatever the ids.
NextToLockOriginFirst(q) == IF q.acct \in q.todo THEN q.acct ELSE Least(q.todo)
\* The locks of an attempt are taken in ascending order of account id.
NextToLock(q) == Least(q.todo)
\* Mutant: the foreign key of the destination leg is forgotten.
ReferencesOrigin(m, a) ==
  movements[m].state = "live" /\ a = movements[m].account
References(m, a) == movements[m].state = "live" /\ a \in Legs(movements[m])

-----------------------------------------------------------------------------
(* Steps every handler takes.                                              *)

Release(r) ==
  /\ accLock' = [a \in Accounts |-> IF accLock[a] = r THEN Free ELSE accLock[a]]
  /\ movLock' = [m \in Movements |-> IF movLock[m] = r THEN Free ELSE movLock[m]]

Tables == <<accounts, movements, adjusted>>
Locks  == <<accLock, movLock>>

Goto(r, pc) == req' = [req EXCEPT ![r].pc = pc]

\* The handler is done with its input; a timeout already answered stands.
Finish(r, pc, reply, wrote) ==
  req' = [req EXCEPT ![r] =
    [IdleRequest EXCEPT !.pc = pc, !.wrote = wrote,
       !.reply = IF req[r].reply = "none" THEN reply ELSE req[r].reply]]

\* An early return drops the transaction: the answer leaves at once, the
\* rollback that frees the locks runs when the connection is recycled.
Abort(r, reply) == Finish(r, "aborting", reply, FALSE) /\ UNCHANGED Locks

Rollback(r) ==
  /\ req[r].pc = "aborting"
  /\ Release(r)
  /\ req' = [req EXCEPT ![r] = IdleRequest]
  /\ UNCHANGED <<Tables, started>>

Respond(r) ==
  /\ req[r].pc = "replying"
  /\ req' = [req EXCEPT ![r] = IdleRequest]
  /\ UNCHANGED <<Tables, Locks, started>>

\* A statement in flight that may be waiting for a row lock.
AwaitsRow(q) ==
  \/ q.pc \in {"locking", "closing", "closingLocked"}
  \/ q.pc = "locked" /\ q.op \in {"patch", "delete"}

\* TimeoutLayer drops the handler's future and answers 504.  The statement in
\* flight is not cancelled: it goes on waiting for its row, an autocommit
\* DELETE or a COMMIT takes effect, and only then is an open transaction
\* rolled back.
Timeout(r) ==
  /\ req[r].pc \notin {"idle", "aborting"}
  /\ req[r].reply # "504"
  /\ \/ /\ req[r].pc = "replying" \/ AwaitsRow(req[r])
        /\ req' = [req EXCEPT ![r].reply = "504"]
     \/ /\ req[r].pc \in {"locked", "rowLocked", "gated"}
        /\ ~AwaitsRow(req[r])
        /\ Finish(r, "aborting", "504", FALSE)
     \/ /\ req[r].pc \in {"refreshing", "counting"}
        /\ Finish(r, "replying", "504", FALSE)
  /\ UNCHANGED <<Tables, Locks, started>>

\* A request enters its handler.  The reads on the pool may already refuse
\* it; otherwise it opens its transaction (or, to close, goes on reading).
Begin(r, q, refusal) ==
  /\ q.op \in Operations
  /\ req[r].pc = "idle"
  /\ started < MaxRequests
  /\ started' = started + 1
  /\ IF refusal # "none" THEN Finish(r, "replying", refusal, FALSE)
     ELSE req' = [req EXCEPT ![r] = [q EXCEPT !.todo = LockSet(q), !.attempt = 1]]
  /\ UNCHANGED <<Tables, Locks>>

\* Mutant: the account is read without FOR UPDATE.
ReadAccount(r, a) == UNCHANGED accLock
TakeAccount(r, a) == accLock' = [accLock EXCEPT ![a] = r]

\* SELECT ... FOR UPDATE on the least account id not yet locked.  A missing
\* row is 422; the transfer reads the archived flag in the same statement.  A
\* handler that was dropped while it waited rolls back.
LockAccount(r) ==
  /\ req[r].pc = "locking"
  /\ LET q == req[r]
         a == NextToLock(q)
     IN  /\ accLock[a] = Free
         /\ \/ (~Live(a) \/ q.reply # "none") /\ Abort(r, "422")
            \/ /\ Live(a) /\ q.reply = "none"
               /\ TakeAccount(r, a)
               /\ IF q.op = "transfer" /\ accounts[a].archived
                  THEN Finish(r, "aborting", "422", FALSE)
                  ELSE req' = [req EXCEPT ![r].todo = @ \ {a},
                         ![r].pc = IF q.todo = {a} THEN "locked" ELSE "locking"]
               /\ UNCHANGED movLock
  /\ UNCHANGED <<Tables, started>>

\* The PATCH re-read FOR UPDATE, or the DELETE itself, waits for the row.
LockMovement(r) ==
  /\ req[r].pc = "locked"
  /\ req[r].op \in {"patch", "delete"}
  /\ LET m == req[r].mov
     IN  /\ movLock[m] = Free
         /\ \/ /\ movements[m].state # "live" \/ req[r].reply # "none"
               /\ Abort(r, "404")
            \/ /\ movements[m].state = "live" /\ req[r].reply = "none"
               /\ req' = [req EXCEPT ![r].pc = "rowLocked", ![r].row = movements[m]]
               /\ movLock' = [movLock EXCEPT ![m] = r]
               /\ UNCHANGED accLock
  /\ UNCHANGED <<Tables, started>>

\* Did the movement leave the accounts this attempt locked?  (PATCH looks for
\* a transfer first.)
Moved(q) ==
  IF q.op = "patch" THEN q.row.dir # "transfer" /\ q.row.account # q.snap.account
  ELSE Legs(q.row) # LockSet(q)

\* Mutant: the attempt is abandoned but its transaction stays open.
MovedUnderUsNoRollback(r) ==
  /\ req[r].pc = "rowLocked" /\ Moved(req[r])
  /\ req' = [req EXCEPT ![r].pc = "refreshing", ![r].row = NoMovement]
  /\ UNCHANGED <<Tables, Locks, started>>

\* ... then roll back untouched and take a new snapshot.
MovedUnderUs(r) ==
  /\ req[r].pc = "rowLocked"
  /\ Moved(req[r])
  /\ Release(r)
  /\ req' = [req EXCEPT ![r].pc = "refreshing", ![r].row = NoMovement]
  /\ UNCHANGED <<Tables, started>>

\* Mutant: the exhausted loop falls through to the success of the handler.
GiveUpAsDone(r) == Finish(r, "replying", "ok", FALSE)
\* Every attempt lost the race: nothing was written, the answer is 500.
GiveUp(r) == Finish(r, "replying", "500", FALSE)

RefreshSnapshot(r) ==
  /\ req[r].pc = "refreshing"
  /\ LET row  == movements[req[r].mov]
         next == [req[r] EXCEPT !.snap = row]
     IN  \/ row.state # "live" /\ Finish(r, "replying", "404", FALSE)
         \/ /\ row.state = "live"
            /\ IF next.attempt >= RetryAttempts
               THEN GiveUp(r)
               ELSE req' = [req EXCEPT ![r] =
                      [next EXCEPT !.pc = "locking", !.todo = LockSet(next),
                                   !.attempt = @ + 1]]
  /\ UNCHANGED <<Tables, Locks, started>>

\* COMMIT publishes the writes, frees the locks and leaves the answer to send.
Commit(r, newAccounts, newMovements) ==
  /\ accounts' = newAccounts
  /\ movements' = newMovements
  /\ Release(r)
  /\ Finish(r, "replying", "ok", TRUE)
  /\ UNCHANGED adjusted

\* A write the database refuses (a foreign key) or that finds no row.
Refused(r, reply) == Abort(r, reply) /\ UNCHANGED Tables

\* UPDATE accounts SET balance = balance + d WHERE id = a: no row, no effect.
Credit(table, a, d) ==
  IF table[a].state = "live" THEN [table EXCEPT ![a].balance = @ + d] ELSE table

Unused == {m \in Movements : movements[m].state = "unused"}
\* Bound: a request that may insert starts only while ids are left for it.
RoomToInsert ==
  Cardinality({r \in Requests : req[r].op \in {"create", "transfer"}})
    < Cardinality(Unused)

-----------------------------------------------------------------------------
(* POST /movements                                                         *)

CreateMovement(r) ==
  \E a \in Accounts, d \in Signed, n \in Amounts :
    /\ RoomToInsert
    /\ Begin(r, [IdleRequest EXCEPT !.pc = "locking", !.op = "create",
                                    !.acct = a, !.dir = d, !.amt = n],
             IF Live(a) THEN "none" ELSE "422")

\* Under the lock: the archived flag, then the category, which is not part of
\* this module and may turn out not to be the caller's.
GateCreate(r) ==
  /\ req[r].pc = "locked" /\ req[r].op = "create"
  /\ \E categoryOwned \in BOOLEAN :
       IF accounts[req[r].acct].archived \/ ~categoryOwned THEN Abort(r, "422")
       ELSE Goto(r, "gated") /\ UNCHANGED Locks
  /\ UNCHANGED <<Tables, started>>

CommitCreate(r) ==
  /\ req[r].pc = "gated" /\ req[r].op = "create"
  /\ LET q == req[r]
     IN  IF ~Live(q.acct) THEN Refused(r, "422")
         ELSE /\ Unused # {}
              /\ Commit(r, Credit(accounts, q.acct, SignedDelta(q.dir, q.amt)),
                   [movements EXCEPT ![Least(Unused)] =
                      NewMovement(q.acct, None, q.dir, q.amt)])
  /\ UNCHANGED started

-----------------------------------------------------------------------------
(* POST /movements/transfer                                                *)

CreateTransfer(r) ==
  \E a \in Accounts, b \in Accounts, n \in Amounts :
    /\ RoomToInsert
    /\ Begin(r, [IdleRequest EXCEPT !.pc = "locking", !.op = "transfer",
                    !.acct = a, !.to = b, !.dir = "transfer", !.amt = n],
             IF Live(a) /\ Live(b) /\ a # b THEN "none" ELSE "422")

\* Both rows are locked and neither was archived; compare their currencies.
GateTransfer(r) ==
  /\ req[r].pc = "locked" /\ req[r].op = "transfer"
  /\ IF SameCurrency(req[r].acct, req[r].to)
     THEN Goto(r, "gated") /\ UNCHANGED Locks
     ELSE Abort(r, "422")
  /\ UNCHANGED <<Tables, started>>

\* One row, two legs: debit the origin, credit the destination.
CommitTransfer(r) ==
  /\ req[r].pc = "gated" /\ req[r].op = "transfer"
  /\ LET q == req[r]
     IN  IF ~Live(q.acct) \/ ~Live(q.to) THEN Refused(r, "422")
         ELSE /\ Unused # {}
              /\ Commit(r, Credit(Credit(accounts, q.acct, -q.amt), q.to, q.amt),
                   [movements EXCEPT ![Least(Unused)] =
                      NewMovement(q.acct, q.to, "transfer", q.amt)])
  /\ UNCHANGED started

-----------------------------------------------------------------------------
(* PATCH /movements/{id}                                                   *)

\* The snapshot gives the fast 404, the transfer rejection and the lock set.
PatchMovement(r) ==
  \E m \in Movements, body \in PatchBodies :
    LET snap == movements[m]
    IN  Begin(r, [IdleRequest EXCEPT !.pc = "locking", !.op = "patch", !.mov = m,
                    !.acct = body.acct, !.dir = body.dir, !.amt = body.amt,
                    !.snap = snap],
              IF snap.state # "live" THEN "404"
              ELSE IF snap.dir = "transfer" \/ body.acct \notin LiveAccounts \union {None}
              THEN "422" ELSE "none")

Repoints(q) == Target(q) # q.row.account
\* Mutants: one of the two gates of a re-point is missing.
RepointAnyCurrency(q) == Repoints(q) /\ accounts[Target(q)].archived
RepointToArchived(q)  == Repoints(q) /\ ~SameCurrency(q.row.account, Target(q))
\* A re-point needs a target that is not archived and has the currency of the
\* account it leaves.
RepointRefused(q) ==
  /\ Repoints(q)
  /\ accounts[Target(q)].archived \/ ~SameCurrency(q.row.account, Target(q))

\* On the locked row: still no transfer, the re-point, then the category.
GatePatch(r) ==
  /\ req[r].pc = "rowLocked" /\ req[r].op = "patch"
  /\ ~Moved(req[r])
  /\ \E categoryOwned \in BOOLEAN :
       IF req[r].row.dir = "transfer" \/ RepointRefused(req[r]) \/ ~categoryOwned
       THEN Abort(r, "422")
       ELSE Goto(r, "gated") /\ UNCHANGED Locks
  /\ UNCHANGED <<Tables, started>>

\* Mutants: what was not sent comes from the snapshot, or is stored as it is.
MergedFromSnapshot(q) ==
  NewMovement(Target(q), q.row.dest,
              IF q.dir = "keep" THEN q.snap.dir ELSE q.dir,
              IF q.amt = 0 THEN q.snap.amount ELSE q.amt)
MergedRaw(q) == NewMovement(Target(q), q.row.dest, q.dir, q.amt)
\* What the UPDATE stores: each field sent, or the locked row's.
Merged(q) ==
  NewMovement(Target(q), q.row.dest,
              IF q.dir = "keep" THEN q.row.dir ELSE q.dir,
              IF q.amt = 0 THEN q.row.amount ELSE q.amt)

\* Mutant: the delta undone is the one the handler read before its locks.
ReversedSnapshot(q) ==
  Credit(accounts, q.snap.account, -SignedDelta(q.snap.dir, q.snap.amount))
\* The balances with the stored delta of the locked row undone.
Reversed(q) ==
  Credit(accounts, q.row.account, -SignedDelta(q.row.dir, q.row.amount))

\* Undo the stored delta on its account, apply the new one on the target.
CommitPatch(r) ==
  /\ req[r].pc = "gated" /\ req[r].op = "patch"
  /\ LET q   == req[r]
         new == Merged(q)
     IN  CASE movements[q.mov].state # "live" -> Refused(r, "500")
           [] ~Live(new.account)              -> Refused(r, "422")
           [] OTHER -> Commit(r, Credit(Reversed(q), new.account,
                                        SignedDelta(new.dir, new.amount)),
                              [movements EXCEPT ![q.mov] = new])
  /\ UNCHANGED started

-----------------------------------------------------------------------------
(* DELETE /movements/{id}                                                  *)

DeleteMovement(r) ==
  \E m \in Movements :
    Begin(r, [IdleRequest EXCEPT !.pc = "locking", !.op = "delete", !.mov = m,
                                 !.snap = movements[m]],
          IF movements[m].state = "live" THEN "none" ELSE "404")

\* Undo the terms DELETE returned: one leg, or both legs of a transfer.
CommitDelete(r) ==
  /\ req[r].pc = "rowLocked" /\ req[r].op = "delete"
  /\ ~Moved(req[r])
  /\ LET q == req[r]
     IN  Commit(r, IF q.row.dir = "transfer"
                   THEN Credit(Reversed(q), q.row.dest, -q.row.amount)
                   ELSE Reversed(q),
                [movements EXCEPT ![q.mov] = DeletedMovement])
  /\ UNCHANGED started

-----------------------------------------------------------------------------
(* /accounts: POST, PATCH (one statement each) and DELETE (three).         *)

CreateAccount(a) ==
  /\ "open" \in Operations
  /\ accounts[a].state = "unused"
  /\ accounts' = [accounts EXCEPT ![a] = OpenAccount]
  /\ UNCHANGED <<movements, adjusted, Locks, req, started>>

\* One UPDATE, which waits for the row lock and then overwrites the balance,
\* the archived flag or both.
PatchAccount(a) ==
  /\ "assert" \in Operations
  /\ accLock[a] = Free
  /\ Live(a)
  /\ \E b \in ManualBalances \union {accounts[a].balance}, f \in BOOLEAN :
       /\ <<b, f>> # <<accounts[a].balance, accounts[a].archived>>
       /\ accounts' = [accounts EXCEPT ![a].balance = b, ![a].archived = f]
       /\ adjusted' = [adjusted EXCEPT ![a] = @ + (b - accounts[a].balance)]
  /\ UNCHANGED <<movements, Locks, req, started>>

DeleteAccount(r) ==
  \E a \in Accounts :
    Begin(r, [IdleRequest EXCEPT !.pc = "counting", !.op = "close", !.acct = a],
          IF Live(a) THEN "none" ELSE "404")

CountMovements(r) ==
  /\ req[r].pc = "counting"
  /\ IF \E m \in Movements : References(m, req[r].acct)
     THEN Finish(r, "replying", "409", FALSE)
     ELSE Goto(r, "closing")
  /\ UNCHANGED <<Tables, Locks, started>>

\* The DELETE statement waits for the account row ...
LockClosing(r) ==
  /\ req[r].pc = "closing"
  /\ LET a == req[r].acct
     IN  /\ accLock[a] = Free
         /\ IF Live(a)
            THEN /\ accLock' = [accLock EXCEPT ![a] = r]
                 /\ Goto(r, "closingLocked")
            ELSE Finish(r, "replying", "404", FALSE) /\ UNCHANGED accLock
  /\ UNCHANGED <<Tables, movLock, started>>

\* ... then ON DELETE RESTRICT looks for a referencing row that is not locked.
CommitClose(r) ==
  /\ req[r].pc = "closingLocked"
  /\ LET a    == req[r].acct
         refs == {m \in Movements : References(m, a)}
     IN  \/ /\ \E m \in refs : movLock[m] = Free
            /\ Release(r)
            /\ Finish(r, "replying", "409", FALSE)
            /\ UNCHANGED Tables
         \/ /\ refs = {}
            /\ Commit(r, [accounts EXCEPT ![a] = DeletedAccount], movements)
  /\ UNCHANGED started

-----------------------------------------------------------------------------
Init ==
  /\ accounts = [a \in Accounts |->
       IF a \in Opened
       THEN [OpenAccount EXCEPT !.balance = LedgerTotal(Stored, a)]
       ELSE NoAccountRow]
  /\ movements = Stored
  /\ adjusted = [a \in Accounts |-> 0]
  /\ accLock = [a \in Accounts |-> Free]
  /\ movLock = [m \in Movements |-> Free]
  /\ req = [r \in Requests |-> IdleRequest]
  /\ started = 0

\* A client sends a request.
Start(r) ==
  \/ CreateMovement(r) \/ CreateTransfer(r) \/ PatchMovement(r)
  \/ DeleteMovement(r) \/ DeleteAccount(r)

\* The handler of a request, or the database on its behalf, goes on.
Step(r) ==
  \/ LockAccount(r) \/ LockMovement(r) \/ MovedUnderUs(r) \/ RefreshSnapshot(r)
  \/ GateCreate(r) \/ CommitCreate(r) \/ GateTransfer(r) \/ CommitTransfer(r)
  \/ GatePatch(r) \/ CommitPatch(r) \/ CommitDelete(r)
  \/ CountMovements(r) \/ LockClosing(r) \/ CommitClose(r)
  \/ Rollback(r) \/ Respond(r)

\* Bound: every request the model starts was answered.
Drained ==
  /\ started = MaxRequests
  /\ \A r \in Requests : req[r].pc = "idle"
  /\ UNCHANGED vars

Next ==
  \/ \E r \in Requests : Start(r) \/ Step(r) \/ Timeout(r)
  \/ \E a \in Accounts : CreateAccount(a) \/ PatchAccount(a)
  \/ Drained

Spec == Init /\ [][Next]_vars

\* A handler runs while it can; a row lock is granted to waiters in turn, so
\* one whose lock is free again and again gets it.
Locking(r) == LockAccount(r) \/ LockMovement(r) \/ LockClosing(r)
Fairness == \A r \in Requests : WF_vars(Step(r)) /\ SF_vars(Locking(r))

FairSpec == Spec /\ Fairness

-----------------------------------------------------------------------------
(***************************************************************************)
(* Properties                                                              *)
(***************************************************************************)

(* Every variable keeps its type: ids, row states and program counters stay *)
(* in range and every lock has an owner or is free.                         *)
TypeOK ==
  /\ accounts \in [Accounts -> AccountRow]
  /\ movements \in [Movements -> MovementRow]
  /\ adjusted \in [Accounts -> Int]
  /\ accLock \in [Accounts -> Requests \union {Free}]
  /\ movLock \in [Movements -> Requests \union {Free}]
  /\ req \in [Requests -> Request]
  /\ started \in Nat

(* The balance of an account is what the user asserted plus what its stored *)
(* movements did to it, whatever creates, transfers, edits and deletes      *)
(* interleave: no delta is lost, applied twice or left on another account   *)
(* (movements.rs: "a concurrent PATCH ... cannot be reversed twice").       *)
BalanceMatchesLedger ==
  \A a \in Accounts : Live(a) =>
    accounts[a].balance = adjusted[a] + LedgerTotal(movements, a)

(* Every leg of a stored movement is an account that still exists, although *)
(* DELETE /accounts checks ownership and counts movements in statements of  *)
(* their own and a movement may be committed between any two of them.       *)
NoDanglingMovement ==
  \A m \in Movements : movements[m].state = "live" =>
    \A a \in Legs(movements[m]) : Live(a)

(* No set of requests waits for each other: account rows are locked in      *)
(* ascending id order and the movement row after them, whatever account a   *)
(* stale snapshot sent the handler to ("can never deadlock").               *)
WaitsFor(r) ==
  CASE req[r].pc = "locking" -> {accLock[NextToLock(req[r])]} \ {Free}
    [] req[r].pc = "locked" /\ req[r].op \in {"patch", "delete"} ->
         {movLock[req[r].mov]} \ {Free}
    [] req[r].pc = "closing" -> {accLock[req[r].acct]} \ {Free}
    [] req[r].pc = "closingLocked" ->
         {movLock[m] : m \in {n \in Movements : References(n, req[r].acct)}} \ {Free}
    [] OTHER -> {}
NoWaitCycle ==
  \A S \in SUBSET Requests :
    S # {} => \E r \in S : WaitsFor(r) \intersect S = {}

(* An answer tells the truth: a request answered 4xx or 500 wrote nothing   *)
(* in any of its attempts, one answered 2xx wrote; only 504 says neither.   *)
AnswerTellsOutcome ==
  \A r \in Requests : req[r].pc \in {"replying", "aborting"} =>
    /\ req[r].reply # "none"
    /\ req[r].reply = "ok" => req[r].wrote
    /\ req[r].wrote => req[r].reply \in {"ok", "504"}

(* What a handler read under its locks is still true when it uses it: every *)
(* account it locked exists and stays its own, and the movement row it      *)
(* re-read is the stored one, on an account it holds, up to the commit.     *)
Holds(r, S) == \A a \in S : Live(a) /\ accLock[a] = r
LockedReadsStayTrue ==
  \A r \in Requests :
    LET q == req[r]
    IN  /\ q.pc \in {"locking", "locked", "rowLocked", "gated"} =>
             Holds(r, LockSet(q) \ q.todo)
        /\ q.pc \in {"rowLocked", "gated"} /\ q.op \in {"patch", "delete"} =>
             /\ movLock[q.mov] = r
             /\ q.row = movements[q.mov] /\ q.row.state = "live"
        /\ q.pc = "gated" /\ q.op = "patch" => Holds(r, {q.row.account, Target(q)})

(* A lock never outlives the transaction that took it: a request that has   *)
(* given its answer, is between two attempts or was never in a transaction  *)
(* blocks nobody.                                                           *)
LocksBelongToTransactions ==
  /\ \A a \in Accounts : accLock[a] # Free => req[accLock[a]].pc \in InTransaction
  /\ \A m \in Movements : movLock[m] # Free =>
       req[movLock[m]].pc \in InTransaction

(* No movement is created on, transferred to or from, or re-pointed to an   *)
(* account that is not listed at the moment of the commit, being archived   *)
(* or gone, although the flag was read some statements earlier ("an archive *)
(* racing this write can never slip a transfer through").                   *)
LandsOn(m) ==
  IF movements[m].state = "live" THEN Legs(movements'[m]) \ Legs(movements[m])
  ELSE Legs(movements'[m])
ArchivedAccountsStayClosed ==
  [][\A m \in Movements : movements'[m].state = "live" =>
       LandsOn(m) \subseteq list_accounts]_vars

(* A stored amount is never re-denominated: an edit leaves it in accounts   *)
(* of one currency and a transfer joins two accounts of one currency.       *)
AmountsKeepTheirCurrency ==
  [][\A m \in Movements : movements'[m].state = "live" =>
       \A a, b \in Legs(movements'[m]) \union
                   (IF movements[m].state = "live" THEN Legs(movements[m]) ELSE {}) :
         SameCurrency(a, b)]_vars

(* A PATCH changes the fields it sends and no other: what it leaves out     *)
(* stays as it is at the commit, not as it was in the handler's snapshot,   *)
(* so two edits of different fields are both kept.                          *)
OmittedFieldsKept ==
  [][\A r \in Requests :
       req[r].op = "patch" /\ ~req[r].wrote /\ req'[r].wrote =>
         LET old == movements[req[r].mov]
             new == movements'[req[r].mov]
         IN  /\ req[r].acct = None => new.account = old.account
             /\ req[r].dir = "keep" => new.dir = old.dir
             /\ req[r].amt = 0 => new.amount = old.amount]_vars

(* Every request is answered and leaves no transaction open, without the    *)
(* help of the 15 s timeout: the lock order admits no deadlock and the      *)
(* retry loop of a movement that keeps moving is bounded.                   *)
EveryRequestEnds ==
  \A r \in Requests : req[r].pc # "idle" ~> req[r].pc = "idle"

(* The handlers implement the atomic ledger: whatever their statements      *)
(* interleave, each commit is one step of LedgerSpec on the tables as they  *)
(* are at that commit, and every other statement changes nothing.           *)
Promise == INSTANCE LedgerSpec WITH
  status   <- [a \in Accounts |-> [state |-> accounts[a].state,
                                   archived |-> accounts[a].archived]],
  book     <- movements,
  asserted <- adjusted
ImplementsAtomicLedger == Promise!AtomicLedger
==============================================================================
