--------------------------------- MODULE Pool ---------------------------------
(***************************************************************************)
(* The database connections the handlers of one process share (db.rs).  An *)
(* autocommit statement borrows a connection for as long as it runs; a     *)
(* transaction keeps its own from BEGIN to COMMIT or ROLLBACK.             *)
(***************************************************************************)
EXTENDS Sums

CONSTANTS
  Requests,   \* the handlers that run at once
  PoolSize    \* max_connections

ASSUME PoolAssumption == IsFiniteSet(Requests) /\ PoolSize \in Nat \ {0}

VARIABLE held  \* how many connections each request holds

InUse == SumOver(held, Requests)
\* A connection can be had at once.
Available == InUse < PoolSize
Acquire(r) == Available /\ held' = [held EXCEPT ![r] = @ + 1]
\* Mutant: an early return forgets its transaction.
KeepIt(r) == UNCHANGED held
\* Dropping the handler drops its transaction: everything goes back.
GiveBack(r) == held' = [held EXCEPT ![r] = 0]
===============================================================================
