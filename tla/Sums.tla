-------------------------------- MODULE Sums ---------------------------------
(* Sums of integers, for what balances, net worth and the connections in   *)
(* use are compared with.                                                  *)
EXTENDS Integers, FiniteSets

\* The sum f[1] + ... + f[n].
SumTo(f, n) ==
  LET partial[i \in 0 .. n] == IF i = 0 THEN 0 ELSE partial[i - 1] + f[i]
  IN  partial[n]

\* The elements of a finite set in some order.
OrderOf(S) ==
  CHOOSE order \in [1 .. Cardinality(S) -> S] :
    \A i, j \in 1 .. Cardinality(S) : order[i] = order[j] => i = j
\* The sum of f[x] over the x in a finite set.
SumOver(f, S) ==
  SumTo([i \in 1 .. Cardinality(S) |-> f[OrderOf(S)[i]]], Cardinality(S))
==============================================================================
