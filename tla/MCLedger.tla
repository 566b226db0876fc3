------------------------------ MODULE MCLedger -------------------------------
(* Small instances of the ledger handlers for TLC.                         *)
EXTENDS LedgerInvariant, TLC

\* Accounts 1 and 2 share a currency, account 3 has another one.
MCCurrency == [a \in 1 .. NAccounts |-> IF a <= 2 THEN "COP" ELSE "USD"]

\* The initial books: an expense on account 1, or besides it a transfer from
\* account 1 to account 2.
MCOneRow ==
  [m \in 1 .. NMovements |->
     IF m = 1 THEN NewMovement(1, None, "expense", 1) ELSE NoMovement]
MCTwoRows ==
  [m \in 1 .. NMovements |->
     CASE m = 1 -> NewMovement(1, None, "expense", 1)
       [] m = 2 -> NewMovement(1, 2, "transfer", 1)
       [] OTHER -> NoMovement]

\* Bodies of PATCH: re-point, re-point to another currency with a new direction,
\* and an amount that is an edit in place or goes with a re-point.
Body(a, d, n) == [acct |-> a, dir |-> d, amt |-> n]
MCRepoints == {Body(1, "keep", 0), Body(2, "keep", 0)}
MCBodies   == {Body(1, "keep", 2), Body(2, "keep", 0), Body(NAccounts, "income", 0)}

\* Requests are interchangeable.
RequestSymmetry == Permutations(Requests)
==============================================================================
