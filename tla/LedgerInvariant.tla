-------------------------- MODULE LedgerInvariant ---------------------------
(***************************************************************************)
(* The inductive invariant behind the safety properties of Ledger.  Each   *)
(* of them holds because of what every handler holds and knows at every    *)
(* one of its steps; that is stated here, checked by TLC and proved, for   *)
(* every instance, in LedgerProofs.                                        *)
(***************************************************************************)
EXTENDS Ledger

\* The books whose stored rows all name the account they are on: what makes
\* the types inductive, because a snapshot decides which accounts to lock.
Books == {b \in [Movements -> MovementRow] :
            \A m \in Movements : b[m].state = "live" => b[m].account \in Accounts}
\* What a handler knows of its own input at each of its steps.
Shaped == {q \in Request :
  /\ q.op \in {"patch", "delete"} => q.mov \in Movements
  /\ q.op = "create" => q.acct \in Accounts /\ q.dir \in Signed
  /\ q.op = "transfer" => q.acct \in Accounts /\ q.to \in Accounts \ {q.acct}
  /\ q.op = "patch" => q.dir \in Signed \union {"keep"}
  /\ q.op = "close" => q.acct \in Accounts
  /\ q.pc \in {"locking", "locked"} =>
       q.op \in {"create", "transfer", "patch", "delete"}
  /\ q.pc = "gated" => q.op \in {"create", "transfer", "patch"}
  /\ q.pc \in {"rowLocked", "refreshing"} => q.op \in {"patch", "delete"}
  /\ q.pc \in {"counting", "closing", "closingLocked"} => q.op = "close"
  /\ q.pc \in {"locked", "rowLocked", "gated"} => q.todo = {}}

TypeInv == TypeOK /\ movements \in Books /\ req \in [Requests -> Shaped]

\* What a request has secured by its locks: every account it locked exists and
\* is its own; the movement row it read is the stored one; and a PATCH past its
\* gates is on an expense or income whose account it locked.
Secured(r) ==
  LET q == req[r]
  IN  /\ q.pc \in {"locking", "locked", "rowLocked", "gated"} =>
           \A a \in LockSet(q) \ q.todo : Live(a) /\ accLock[a] = r
      /\ q.pc = "rowLocked" \/ (q.pc = "gated" /\ q.op = "patch") =>
           /\ movLock[q.mov] = r
           /\ q.row = movements[q.mov] /\ q.row.state = "live"
      /\ q.pc = "gated" /\ q.op = "patch" =>
           q.row.dir # "transfer" /\ q.row.account = q.snap.account
      /\ q.pc = "closingLocked" => Live(q.acct) /\ accLock[q.acct] = r
LockInv == \A r \in Requests : Secured(r)

\* A stored row has a destination exactly when it is a transfer, to another
\* account.
LegsMatchDirection ==
  \A m \in Movements : movements[m].state = "live" =>
    /\ movements[m].dir = "transfer" <=> movements[m].dest # None
    /\ movements[m].account # movements[m].dest

\* Nobody has asserted the balance of an account that was never opened.
UnopenedUntouched ==
  \A a \in Accounts : accounts[a].state = "unused" => adjusted[a] = 0

\* The types, what the locks secure, and the book and the balances they protect:
\* inductive by themselves.
LedgerCore ==
  /\ TypeInv
  /\ LockInv
  /\ LegsMatchDirection
  /\ NoDanglingMovement
  /\ UnopenedUntouched
  /\ BalanceMatchesLedger

\* The amounts clients send; what a request has written and answered.
Answered == {q \in Request :
  /\ q.op \in {"create", "transfer"} => q.amt \in Amounts
  /\ q.op = "patch" => q.amt \in Amounts \union {0}
  /\ q.reply = "ok" => q.wrote
  /\ q.wrote => q.pc = "replying" /\ q.reply \in {"ok", "504"}
  /\ IF q.pc \in {"replying", "aborting"} THEN q.reply # "none"
     ELSE q.reply \in {"none", "504"}}
AnswerInv == req \in [Requests -> Answered]

\* Only an open transaction owns rows, a movement row only once every account it
\* needs is locked; and it owns no account above one it has still to lock.
OwnerInv ==
  /\ \A a \in Accounts : accLock[a] # Free => req[accLock[a]].pc \in InTransaction
  /\ \A m \in Movements : movLock[m] # Free =>
       req[movLock[m]].pc \in {"rowLocked", "gated", "aborting"}
Ascending(r) ==
  req[r].pc = "locking" =>
    /\ req[r].todo # {}
    /\ \A a \in Accounts, b \in req[r].todo : accLock[a] = r => a < b
OrderInv == OwnerInv /\ \A r \in Requests : Ascending(r)

\* What the gates of a request have found is still true: the accounts it writes
\* a new leg on are not archived, and the currencies agree.
Cleared(r) ==
  LET q == req[r]
  IN  /\ q.op = "transfer" /\ q.pc \in {"locking", "locked", "gated"} =>
           \A a \in LockSet(q) \ q.todo : ~accounts[a].archived
      /\ q.pc = "gated" /\ q.op = "transfer" => SameCurrency(q.acct, q.to)
      /\ q.pc = "gated" /\ q.op = "create" => ~accounts[q.acct].archived
      /\ q.pc = "gated" /\ q.op = "patch" => ~RepointRefused(q)
\* The legs of a stored row are in one currency.
LegsShareCurrency ==
  \A m \in Movements : movements[m].state = "live" =>
    \A a, b \in Legs(movements[m]) : SameCurrency(a, b)
\* Nobody has archived an account that was never opened.
UnopenedListed ==
  \A a \in Accounts : accounts[a].state = "unused" => ~accounts[a].archived
GateInv ==
  /\ \A r \in Requests : Cleared(r)
  /\ LegsShareCurrency
  /\ UnopenedListed

(* The inductive invariant of the ledger: its core, what requests answer,   *)
(* who owns which locks, and what the gates found.                          *)
LedgerInv == LedgerCore /\ AnswerInv /\ OrderInv /\ GateInv
==============================================================================
