----------------------------- MODULE LedgerSpec ------------------------------
(***************************************************************************)
(* What the ledger handlers promise together: every request that writes    *)
(* does so in one step, on the state it finds at that step.  There are no  *)
(* requests, no locks, no snapshots and no stored balance: a balance is    *)
(* what the user asserted plus the movements.                              *)
(***************************************************************************)
EXTENDS LedgerTypes

VARIABLES
  status,    \* each account: its row state and whether it is archived
  book,      \* the stored movements
  asserted   \* the sum of the manual corrections to each balance

specVars == <<status, book, asserted>>

IsLive(a)   == status[a].state = "live"
TakesNew(a) == IsLive(a) /\ ~status[a].archived
Balance(a)  == asserted[a] + LedgerTotal(book, a)

Record(m, row) ==
  /\ book' = [book EXCEPT ![m] = row]
  /\ UNCHANGED <<status, asserted>>

\* A new expense or income, on an account that takes new movements.
Post(m) ==
  \E a \in Accounts, d \in Signed, n \in Amounts :
    /\ book[m].state = "unused"
    /\ TakesNew(a)
    /\ Record(m, NewMovement(a, None, d, n))

\* A transfer between two of them, of one currency.
Move(m) ==
  \E a, b \in Accounts, n \in Amounts :
    /\ book[m].state = "unused"
    /\ a # b /\ SameCurrency(a, b)
    /\ TakesNew(a) /\ TakesNew(b)
    /\ Record(m, NewMovement(a, b, "transfer", n))

\* An expense or income is edited in place, or moved to an account of its
\* currency that takes new movements.
Edit(m) ==
  \E a \in Accounts, d \in Signed, n \in Amounts \union {book[m].amount} :
    /\ book[m].state = "live"
    /\ book[m].dir # "transfer"
    /\ a # book[m].account => TakesNew(a) /\ SameCurrency(a, book[m].account)
    /\ Record(m, NewMovement(a, None, d, n))

Remove(m) == book[m].state = "live" /\ Record(m, DeletedMovement)

Open(a) ==
  /\ status[a].state = "unused"
  /\ status' = [status EXCEPT ![a].state = "live"]
  /\ UNCHANGED <<book, asserted>>

\* The user asserts a balance, archives or restores an account.
Assert(a) ==
  /\ IsLive(a)
  /\ \E b \in ManualBalances \union {Balance(a)}, f \in BOOLEAN :
       /\ status' = [status EXCEPT ![a].archived = f]
       /\ asserted' = [asserted EXCEPT ![a] = @ + (b - Balance(a))]
  /\ UNCHANGED book

\* An account no movement names is removed.
Close(a) ==
  /\ IsLive(a)
  /\ \A m \in Movements : book[m].state = "live" => a \notin Legs(book[m])
  /\ status' = [status EXCEPT ![a] = [state |-> "deleted", archived |-> FALSE]]
  /\ UNCHANGED <<book, asserted>>

SpecInit ==
  /\ status = [a \in Accounts |->
       [state |-> IF a \in Opened THEN "live" ELSE "unused", archived |-> FALSE]]
  /\ book = Stored
  /\ asserted = [a \in Accounts |-> 0]

SpecNext ==
  \/ \E m \in Movements : Post(m) \/ Move(m) \/ Edit(m) \/ Remove(m)
  \/ \E a \in Accounts : Open(a) \/ Assert(a) \/ Close(a)

AtomicLedger == SpecInit /\ [][SpecNext]_specVars
==============================================================================
