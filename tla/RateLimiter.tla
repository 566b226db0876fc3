----------------------------- MODULE RateLimiter ------------------------------
(***************************************************************************)
(* The tables of the in-process rate limiter (auth/rate_limit.rs).  A      *)
(* table gives every key a bucket: the instants of what it has to answer   *)
(* for.  Instants in a bucket are interchangeable, so a bucket is a set of *)
(* pairs <<instant, n>>, n telling equal instants apart; a key is in the   *)
(* map of the code exactly when its bucket is not empty.                   *)
(***************************************************************************)
EXTENDS Integers, FiniteSets

\* Entries outside the window go, and with its last one the key.
prune(table, window, now) ==
  [k \in DOMAIN table |-> {e \in table[k] : now - e[1] < window}]

Full(bucket, limit) == Cardinality(bucket) >= limit
\* The keys the map holds.
Kept(table) == {k \in DOMAIN table : table[k] # {}}

Oldest(bucket) ==
  CHOOSE t \in {e[1] : e \in bucket} : \A e \in bucket : t <= e[1]
Latest(bucket) ==
  CHOOSE t \in {e[1] : e \in bucket} : \A e \in bucket : t >= e[1]

\* How long until the oldest entry is out of the window.
WaitOf(bucket, window, now) ==
  LET rest == Oldest(bucket) + window - now IN IF rest > 0 THEN rest ELSE 0
\* Nothing while the bucket has room, else the one wait it announces.
blocked_for(bucket, limit, window, now) ==
  IF Full(bucket, limit) THEN {WaitOf(bucket, window, now)} ELSE {}

\* Mutant: the least recently active key goes, blocked or not.
AnyVictim(table, limit) ==
  {k \in Kept(table) :
     \A j \in Kept(table) : Latest(table[k]) <= Latest(table[j])}
\* Whom a table at its ceiling may evict: the least recently active of the keys
\* that are not blocked or, when all of them are, of all keys.  Two keys may
\* have been active at the same instant: the map has no order.
Victims(table, limit) ==
  LET room == {k \in Kept(table) : ~Full(table[k], limit)}
      pool == IF room # {} THEN room ELSE Kept(table)
  IN  {k \in pool : \A j \in pool : Latest(table[k]) <= Latest(table[j])}

Without(table, key) == [k \in DOMAIN table |-> IF k = key THEN {} ELSE table[k]]
\* Mutant: the ceiling is noticed one key late.
BoundedLate(table, key, limit, maxKeys) ==
  IF table[key] # {} \/ Cardinality(Kept(table)) <= maxKeys THEN {table}
  ELSE {Without(table, v) : v \in Victims(table, limit)}
\* bound_keys: the tables in which there is room for key.
bound_keys(table, key, limit, maxKeys) ==
  IF table[key] # {} \/ Cardinality(Kept(table)) < maxKeys THEN {table}
  ELSE {Without(table, v) : v \in Victims(table, limit)}

At(bucket, t) == {e \in bucket : e[1] = t}
\* entry(key).or_default().push(now)
Push(table, key, now) ==
  [table EXCEPT ![key] = @ \union {<<now, Cardinality(At(@, now)) + 1>>}]
\* One entry of an instant less; nothing when it is gone already.
Pop(table, key, t) ==
  [table EXCEPT ![key] = @ \ {<<t, Cardinality(At(@, t))>>}]
==============================================================================
