----------------------------- MODULE LedgerTypes -----------------------------
(***************************************************************************)
(* The rows of the finance ledger and the arithmetic on them, shared by    *)
(* the handlers (Ledger) and by what they promise (LedgerSpec).            *)
(*                                                                         *)
(* Account ids are numbers because the handlers sort them: a UUID is only  *)
(* ever compared with another one.  0 is SQL NULL, or "field not sent".    *)
(***************************************************************************)
EXTENDS Sums

CONSTANTS
  NAccounts,      \* account ids are 1..NAccounts
  NMovements,     \* movement ids are 1..NMovements; a UUID is used once
  Amounts,        \* the amounts clients send, all positive
  ManualBalances, \* the balances clients assert with PATCH /accounts
  Currency,       \* the currency of each account, fixed at creation
  Opened,         \* the accounts that exist when the model starts
  Stored          \* the movements stored when the model starts

Accounts  == 1 .. NAccounts
Movements == 1 .. NMovements
None      == 0

ASSUME CountsAssumption   == NAccounts \in Nat /\ NMovements \in Nat
ASSUME AmountsAssumption  == Amounts \subseteq (Nat \ {0})
ASSUME BalancesAssumption == ManualBalances \subseteq Int
ASSUME CurrencyAssumption == DOMAIN Currency = Accounts
ASSUME OpenedAssumption   == Opened \subseteq Accounts

\* Directions a client may send; a transfer is only written by its handler.
Signed     == {"expense", "income"}
Directions == Signed \union {"transfer"}
RowStates  == {"unused", "live", "deleted"}

AccountRow  == [state : RowStates, balance : Int, archived : BOOLEAN]
MovementRow == [state : RowStates, account : Accounts \union {None},
                dest : Accounts \union {None}, dir : Directions, amount : Nat]

NoAccountRow == [state |-> "unused", balance |-> 0, archived |-> FALSE]
OpenAccount  == [state |-> "live", balance |-> 0, archived |-> FALSE]
NoMovement   == [state |-> "unused", account |-> None, dest |-> None,
                 dir |-> "expense", amount |-> 0]

DeletedAccount  == [NoAccountRow EXCEPT !.state = "deleted"]
DeletedMovement == [NoMovement EXCEPT !.state = "deleted"]

NewMovement(a, b, d, n) ==
  [state |-> "live", account |-> a, dest |-> b, dir |-> d, amount |-> n]

\* The delta a movement applies to its own account.
SignedDelta(dir, amount) == IF dir = "income" THEN amount ELSE -amount

\* The accounts a movement row names: its origin and, for a transfer, its
\* destination.
Legs(row) == {row.account, row.dest} \ {None}

\* What a stored movement has done to the balance of account a.
Effect(row, a) ==
  IF row.state # "live" THEN 0
  ELSE (IF row.account = a THEN SignedDelta(row.dir, row.amount) ELSE 0)
       + (IF row.dir = "transfer" /\ row.dest = a THEN row.amount ELSE 0)

\* What all the stored movements have done to the balance of account a.
LedgerTotal(book, a) ==
  SumTo([m \in Movements |-> Effect(book[m], a)], NMovements)

SameCurrency(a, b) == Currency[a] = Currency[b]

\* The initial book is one the handlers can have written.
ASSUME StoredAssumption ==
  /\ Stored \in [Movements -> MovementRow]
  /\ \A m \in Movements : Stored[m].state = "live" =>
       /\ Stored[m].account \in Opened
       /\ Legs(Stored[m]) \subseteq Opened
       /\ \A a, b \in Legs(Stored[m]) : SameCurrency(a, b)
       /\ Stored[m].dir = "transfer" <=> Stored[m].dest # None
       /\ Stored[m].account # Stored[m].dest
==============================================================================
