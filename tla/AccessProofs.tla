----------------------------- MODULE AccessProofs ----------------------------
(***************************************************************************)
(* Proofs about Access: the tables of the login limiter stay within their  *)
(* ceiling, an address is charged for its own attempts and a bucket        *)
(* overruns its budget only by attempts that overlapped, a blocked key is  *)
(* evicted only when every key is blocked, Retry-After is true to less     *)
(* than a second, the mint budget is exact, and a logout is final.         *)
(***************************************************************************)
EXTENDS AccessInvariant, NumberLemmas

-----------------------------------------------------------------------------
(* Tables of the limiter.                                                  *)

\* The numbers the limiter is built with.
LEMMA BudgetsAreNumbers ==
  /\ MaxFailures \in Nat \ {0} /\ MaxAccountFailures \in Nat \ {0}
  /\ MaxKeys \in Nat \ {0} /\ MaxTokenMints \in Nat \ {0}
  /\ Window \in Nat \ {0} /\ TokenMintWindow \in Nat \ {0}
  /\ Second \in Nat \ {0} /\ Second <= Window /\ Second <= TokenMintWindow
  /\ Horizon \in Nat /\ Instants \subseteq Nat
<1>1. Horizon \in Nat
  BY AccessAssumption
<1>2. Instants \subseteq Nat
  BY <1>1 DEF Instants
<1>3. QED
  BY <1>1, <1>2, AccessAssumption

\* A table whose buckets only lose entries stays within the ceiling.
LEMMA FewerEntries ==
  ASSUME NEW K, NEW table \in [K -> SUBSET Entries], WithinCeiling(table),
         NEW less \in [K -> SUBSET Entries], \A k \in K : less[k] \subseteq table[k]
  PROVE  /\ WithinCeiling(less)
         /\ Kept(less) \subseteq Kept(table)
         /\ \A k \in K : Cardinality(less[k]) <= Cardinality(table[k])
<1>1. \A k \in K : IsFiniteSet(table[k])
  BY DEF WithinCeiling
<1>2. ASSUME NEW k \in K
      PROVE  IsFiniteSet(less[k]) /\ Cardinality(less[k]) <= Cardinality(table[k])
  <2>1. IsFiniteSet(table[k]) /\ less[k] \in SUBSET table[k]
    BY <1>1
  <2>2. QED
    BY <2>1, FS_Subset
<1>3. Kept(less) \subseteq Kept(table)
  BY DEF Kept
<1>4. /\ IsFiniteSet(Kept(table)) /\ Cardinality(Kept(table)) <= MaxKeys
  BY DEF WithinCeiling
<1>5. /\ IsFiniteSet(Kept(less)) /\ Cardinality(Kept(less)) <= Cardinality(Kept(table))
  BY <1>3, <1>4, FS_Subset
<1>6. Cardinality(Kept(less)) \in Nat /\ Cardinality(Kept(table)) \in Nat
  BY <1>4, <1>5, FS_CardinalityType
<1>7. Cardinality(Kept(less)) <= MaxKeys
  BY <1>4, <1>5, <1>6, BudgetsAreNumbers
<1>8. QED
  BY <1>2, <1>3, <1>5, <1>7 DEF WithinCeiling

\* prune gives a table of the same keys, with nothing but what it had.
LEMMA PruneKeeps ==
  ASSUME NEW K, NEW table \in [K -> SUBSET Entries], WithinCeiling(table),
         NEW window, NEW t
  PROVE  LET left == prune(table, window, t)
         IN  /\ left \in [K -> SUBSET Entries] /\ WithinCeiling(left)
             /\ \A k \in K : /\ left[k] = {e \in table[k] : t - e[1] < window}
                             /\ left[k] \subseteq table[k]
                             /\ Cardinality(left[k]) <= Cardinality(table[k])
<1> DEFINE left == prune(table, window, t)
<1>1. \A k \in K : left[k] = {e \in table[k] : t - e[1] < window}
  BY DEF prune
<1>2. \A k \in K : left[k] \subseteq table[k] /\ left[k] \subseteq Entries
  BY <1>1
<1>3. left \in [K -> SUBSET Entries]
  <2>1. left = [k \in K |-> left[k]]
    BY DEF prune
  <2> HIDE DEF left
  <2>2. QED
    BY <1>2, <2>1
<1> HIDE DEF left
<1>4. /\ WithinCeiling(left)
      /\ \A k \in K : Cardinality(left[k]) <= Cardinality(table[k])
  BY <1>2, <1>3, FewerEntries
<1>5. QED
  BY <1>1, <1>2, <1>3, <1>4 DEF left

\* The victims are keys of the table.
LEMMA VictimsAreKept ==
  ASSUME NEW table, NEW limit, NEW v \in Victims(table, limit)
  PROVE  v \in Kept(table)
BY DEF Victims

\* bound_keys makes room for the key, and takes nothing from it.
LEMMA BoundKeysMakesRoom ==
  ASSUME NEW K, NEW table \in [K -> SUBSET Entries], WithinCeiling(table),
         NEW key \in K, NEW limit, NEW t \in bound_keys(table, key, limit, MaxKeys)
  PROVE  /\ t \in [K -> SUBSET Entries] /\ WithinCeiling(t)
         /\ \A k \in K : t[k] \subseteq table[k]
         /\ t[key] = table[key]
         /\ IsFiniteSet(Kept(t) \union {key})
         /\ Cardinality(Kept(t) \union {key}) <= MaxKeys
<1>1. /\ IsFiniteSet(Kept(table)) /\ Cardinality(Kept(table)) <= MaxKeys
      /\ Cardinality(Kept(table)) \in Nat
  BY FS_CardinalityType DEF WithinCeiling
<1>2. CASE table[key] # {}
  <2>1. t = table /\ key \in Kept(table)
    BY <1>2 DEF bound_keys, Kept
  <2>2. Kept(t) \union {key} = Kept(t)
    BY <2>1
  <2>3. QED
    BY <1>1, <2>1, <2>2
<1>3. CASE table[key] = {} /\ Cardinality(Kept(table)) < MaxKeys
  <2>1. t = table
    BY <1>3 DEF bound_keys
  <2>2. /\ IsFiniteSet(Kept(table) \union {key})
        /\ Cardinality(Kept(table) \union {key}) <= Cardinality(Kept(table)) + 1
    BY <1>1, AddOne
  <2>3. Cardinality(Kept(table) \union {key}) \in Nat
    BY <2>2, FS_CardinalityType
  <2>4. Cardinality(Kept(table) \union {key}) <= MaxKeys
    BY <1>1, <1>3, <2>2, <2>3, BudgetsAreNumbers
  <2>5. QED
    BY <2>1, <2>2, <2>4
<1>4. CASE table[key] = {} /\ ~(Cardinality(Kept(table)) < MaxKeys)
  <2>1. PICK v \in Victims(table, limit) : t = Without(table, v)
    BY <1>4 DEF bound_keys
  <2>2. v \in Kept(table) /\ v # key
    BY <1>4, VictimsAreKept DEF Kept
  <2>3. /\ t \in [K -> SUBSET Entries]
        /\ \A k \in K : t[k] \subseteq table[k]
        /\ t[key] = table[key] /\ t[v] = {}
    BY <1>4, <2>1, <2>2 DEF Without, Kept
  <2>4. WithinCeiling(t) /\ Kept(t) \subseteq Kept(table)
    BY <2>3, FewerEntries
  <2>5. Kept(t) \union {key} \subseteq (Kept(table) \ {v}) \union {key}
    BY <2>3, <2>4 DEF Kept
  <2>6. /\ IsFiniteSet(Kept(table) \ {v})
        /\ Cardinality(Kept(table) \ {v}) = Cardinality(Kept(table)) - 1
    BY <1>1, <2>2, TakeOne
  <2>7. /\ IsFiniteSet((Kept(table) \ {v}) \union {key})
        /\ Cardinality((Kept(table) \ {v}) \union {key}) <= Cardinality(Kept(table))
    <3>1. /\ IsFiniteSet((Kept(table) \ {v}) \union {key})
          /\ Cardinality((Kept(table) \ {v}) \union {key})
               <= Cardinality(Kept(table) \ {v}) + 1
          /\ Cardinality((Kept(table) \ {v}) \union {key}) \in Nat
      BY <2>6, AddOne
    <3>2. QED
      BY <1>1, <2>6, <3>1
  <2>8. /\ IsFiniteSet(Kept(t) \union {key})
        /\ Cardinality(Kept(t) \union {key}) <= Cardinality((Kept(table) \ {v}) \union {key})
    BY <2>5, <2>7, FS_Subset
  <2>9. /\ Cardinality(Kept(t) \union {key}) \in Nat
        /\ Cardinality((Kept(table) \ {v}) \union {key}) \in Nat
    BY <2>7, <2>8, FS_CardinalityType
  <2>10. Cardinality(Kept(t) \union {key}) <= MaxKeys
    BY <1>1, <2>7, <2>8, <2>9, BudgetsAreNumbers
  <2>11. QED
    BY <2>3, <2>4, <2>8, <2>10
<1>5. QED
  BY <1>2, <1>3, <1>4

\* At most one entry is added, to the bucket of the key.
LEMMA PushAdds ==
  ASSUME NEW K, NEW t \in [K -> SUBSET Entries], WithinCeiling(t),
         NEW key \in K, NEW instant \in Instants,
         IsFiniteSet(Kept(t) \union {key}),
         Cardinality(Kept(t) \union {key}) <= MaxKeys
  PROVE  LET pushed == Push(t, key, instant)
         IN  /\ pushed \in [K -> SUBSET Entries] /\ WithinCeiling(pushed)
             /\ pushed[key] = t[key] \union {<<instant, Cardinality(At(t[key], instant)) + 1>>}
             /\ pushed[key] # {}
             /\ Cardinality(pushed[key]) <= Cardinality(t[key]) + 1
             /\ \A k \in K \ {key} : pushed[k] = t[k]
<1> DEFINE pushed == Push(t, key, instant)
           e == <<instant, Cardinality(At(t[key], instant)) + 1>>
<1>1. \A k \in K : IsFiniteSet(t[k])
  BY DEF WithinCeiling
<1>2. At(t[key], instant) \subseteq t[key]
  BY DEF At
<1>3. IsFiniteSet(At(t[key], instant))
  BY <1>1, <1>2, FS_Subset
<1>4. Cardinality(At(t[key], instant)) \in Nat
  BY <1>3, FS_CardinalityType
<1>5. e \in Entries
  BY <1>4 DEF Entries
<1>6. pushed = [t EXCEPT ![key] = t[key] \union {e}]
  BY DEF Push
<1> HIDE DEF e
<1>7. /\ pushed \in [K -> SUBSET Entries]
      /\ pushed[key] = t[key] \union {e}
      /\ \A k \in K \ {key} : pushed[k] = t[k]
  BY <1>5, <1>6
<1> HIDE DEF pushed
<1>8. /\ IsFiniteSet(pushed[key]) /\ Cardinality(t[key]) \in Nat
      /\ Cardinality(pushed[key]) <= Cardinality(t[key]) + 1
  BY <1>1, <1>7, AddOne
<1>9. \A k \in K : IsFiniteSet(pushed[k])
  BY <1>1, <1>7, <1>8
<1>10. Kept(pushed) \subseteq Kept(t) \union {key}
  BY <1>7 DEF Kept
<1>11. /\ IsFiniteSet(Kept(pushed))
       /\ Cardinality(Kept(pushed)) <= Cardinality(Kept(t) \union {key})
  BY <1>10, FS_Subset
<1>12. /\ Cardinality(Kept(pushed)) \in Nat
       /\ Cardinality(Kept(t) \union {key}) \in Nat
  BY <1>11, FS_CardinalityType
<1>13. Cardinality(Kept(pushed)) <= MaxKeys
  BY <1>11, <1>12, BudgetsAreNumbers
<1>14. WithinCeiling(pushed)
  BY <1>7, <1>9, <1>11, <1>13 DEF WithinCeiling
<1>15. QED
  BY <1>7, <1>8, <1>14 DEF pushed, e

\* Pop takes at most one entry, from the bucket of the key.
LEMMA PopTakes ==
  ASSUME NEW K, NEW t \in [K -> SUBSET Entries], WithinCeiling(t),
         NEW key \in K, NEW instant
  PROVE  LET popped == Pop(t, key, instant)
         IN  /\ popped \in [K -> SUBSET Entries] /\ WithinCeiling(popped)
             /\ popped[key] = t[key] \ {<<instant, Cardinality(At(t[key], instant))>>}
             /\ \A k \in K \ {key} : popped[k] = t[k]
<1> DEFINE popped == Pop(t, key, instant)
           e == <<instant, Cardinality(At(t[key], instant))>>
<1>1. popped = [t EXCEPT ![key] = t[key] \ {e}]
  BY DEF Pop
<1> HIDE DEF e
<1>2. /\ popped \in [K -> SUBSET Entries]
      /\ popped[key] = t[key] \ {e}
      /\ \A k \in K \ {key} : popped[k] = t[k]
  BY <1>1
<1> HIDE DEF popped
<1>3. \A k \in K : popped[k] \subseteq t[k]
  BY <1>2
<1>4. WithinCeiling(popped)
  BY <1>2, <1>3, FewerEntries
<1>5. QED
  BY <1>2, <1>4 DEF popped, e

\* A table without entries is within every ceiling.
LEMMA EmptyTable ==
  ASSUME NEW K
  PROVE  /\ [k \in K |-> {}] \in [K -> SUBSET Entries]
         /\ WithinCeiling([k \in K |-> {}])
<1> DEFINE table == [k \in K |-> {}]
<1>1. Kept(table) = {} /\ \A k \in DOMAIN table : table[k] = {}
  BY DEF Kept
<1>2. IsFiniteSet({}) /\ Cardinality({}) = 0
  BY FS_EmptySet
<1>3. QED
  BY <1>1, <1>2, BudgetsAreNumbers DEF WithinCeiling

-----------------------------------------------------------------------------
(* The address an attempt is charged to.                                   *)

\* Addresses are numbers, None is not.
LEMMA AddressesAreNumbers ==
  /\ Trusted \subseteq Nat /\ Ips \subseteq Nat
  /\ None \notin Ips /\ None \notin Accounts
  /\ None \notin Sessions /\ None \notin Tokens /\ None \notin Instants
<1>1. Trusted \subseteq Nat
  BY DEF Trusted
<1>2. Ips \subseteq Nat
  BY <1>1, AddressAssumption DEF Ips
<1>3. None \notin Accounts \union Sessions \union Tokens \union Nat
  BY AccessAssumption
<1>4. QED
  BY <1>1, <1>2, <1>3, BudgetsAreNumbers

\* The right-most foreign element decides.
LEMMA RightmostForeign ==
  ASSUME NEW peer \in Trusted, NEW header \in Seq(Nat), header # <<>>,
         header[Len(header)] \in Ips, NEW n \in Foreign(header),
         \A j \in Foreign(header) : n >= j
  PROVE  rate_limit_key(peer, header) = header[n]
<1>1. Foreign(header) \subseteq Nat
  BY DEF Foreign
<1> DEFINE m == CHOOSE i \in Foreign(header) : \A j \in Foreign(header) : i >= j
<1>2. m \in Foreign(header) /\ \A j \in Foreign(header) : m >= j
  OBVIOUS
<1>3. m = n
  BY <1>1, <1>2
<1>4. peer # None /\ peer \in Trusted
  BY AddressesAreNumbers DEF Ips
<1>5. rate_limit_key(peer, header) = header[m]
  BY <1>4 DEF rate_limit_key
<1>6. QED
  BY <1>3, <1>5

\* Whichever way its request takes, the client itself is charged.
LEMMA ChargedIsClient ==
  ASSUME NEW from \in Clients \union {Local}, NEW ip \in ChargedAs[from]
  PROVE  ip = from
<1>1. PICK arrival \in Arrivals(from) : ip = rate_limit_key(arrival[1], arrival[2])
  BY DEF ChargedAs
<1>2. CASE from = Local
  <2>1. arrival = <<None, <<>>>>
    BY <1>1, <1>2 DEF Arrivals
  <2>2. QED
    BY <1>1, <1>2, <2>1 DEF rate_limit_key
<1>3. CASE from # Local
  <2>1. /\ from \in Nat /\ from \in Clients /\ from \notin Trusted
        /\ from # None /\ from \in Ips \ Trusted
    BY <1>3, AddressAssumption, AddressesAreNumbers DEF Ips
  <2>2. CASE \E prefix \in Prefixes : arrival = <<from, prefix>>
    BY <1>1, <2>1, <2>2 DEF rate_limit_key
  <2>3. CASE \E p \in Trusted, prefix \in Prefixes :
               arrival = <<p, Append(prefix, from)>>
    <3>1. PICK p \in Trusted, prefix \in Prefixes : arrival = <<p, Append(prefix, from)>>
      BY <2>3
    <3> DEFINE header == Append(prefix, from)
    <3>2. prefix \in Seq(Nat)
      BY AddressAssumption
    <3>3. /\ header \in Seq(Nat) /\ header # <<>>
          /\ Len(header) \in Nat /\ 1 <= Len(header) /\ header[Len(header)] = from
      BY <2>1, <3>2
    <3> HIDE DEF header
    <3>4. Len(header) \in Foreign(header) /\ \A j \in Foreign(header) : Len(header) >= j
      BY <2>1, <3>3 DEF Foreign
    <3>5. rate_limit_key(p, header) = from
      BY <2>1, <3>3, <3>4, RightmostForeign
    <3>6. QED
      BY <1>1, <3>1, <3>5 DEF header
  <2>4. CASE \E p \in Trusted, q \in Trusted, prefix \in Prefixes :
               arrival = <<p, Append(Append(prefix, from), q)>>
    <3>1. PICK p \in Trusted, q \in Trusted, prefix \in Prefixes :
                 arrival = <<p, Append(Append(prefix, from), q)>>
      BY <2>4
    <3> DEFINE inner == Append(prefix, from)
               header == Append(inner, q)
    <3>2. prefix \in Seq(Nat) /\ q \in Nat /\ q \in Ips
      BY AddressAssumption, AddressesAreNumbers DEF Ips
    <3>3. /\ inner \in Seq(Nat) /\ Len(inner) \in Nat /\ 1 <= Len(inner)
          /\ inner[Len(inner)] = from
      BY <2>1, <3>2
    <3> HIDE DEF inner
    <3>4. /\ header \in Seq(Nat) /\ header # <<>> /\ Len(header) = Len(inner) + 1
          /\ header[Len(header)] = q /\ header[Len(inner)] = from
      BY <3>2, <3>3
    <3> HIDE DEF header
    <3>5. Foreign(header) \subseteq 1 .. Len(inner)
      BY <3>2, <3>3, <3>4 DEF Foreign
    <3>6. Len(inner) \in Foreign(header) /\ \A j \in Foreign(header) : Len(inner) >= j
      BY <2>1, <3>3, <3>4, <3>5 DEF Foreign
    <3>7. rate_limit_key(p, header) = header[Len(inner)]
      BY <3>2, <3>4, <3>6, RightmostForeign
    <3>8. QED
      BY <1>1, <3>1, <3>4, <3>7 DEF header, inner
  <2>5. QED
    BY <1>3, <2>2, <2>3, <2>4 DEF Arrivals
<1>4. QED
  BY <1>2, <1>3

-----------------------------------------------------------------------------
(* How a request goes on.                                                  *)

LEMMA IdleIsRequest ==
  /\ IdleRequest \in Request /\ IdleRequest.pc = "idle" /\ IdleRequest.op = "none"
BY DEF IdleRequest, Request, Pcs

LEMMA Started ==
  ASSUME TypeOK, NEW r \in Requests, NEW q \in Request, Start(r, q)
  PROVE  /\ req' \in [Requests -> Request] /\ started' \in 0 .. MaxRequests
         /\ req[r].pc = "idle" /\ req'[r] = q
         /\ \A o \in Requests \ {r} : req'[o] = req[o]
<1>1. /\ req \in [Requests -> Request] /\ started \in 0 .. MaxRequests
      /\ MaxRequests \in Nat
  BY AccessAssumption DEF TypeOK
<1>2. /\ req[r].pc = "idle" /\ started < MaxRequests
      /\ started' = started + 1 /\ req' = [req EXCEPT ![r] = q]
  BY DEF Start
<1>3. QED
  BY <1>1, <1>2

LEMMA Answered ==
  ASSUME TypeOK, NEW r \in Requests, Answer(r)
  PROVE  /\ req' \in [Requests -> Request] /\ started' \in 0 .. MaxRequests
         /\ req'[r] = IdleRequest
         /\ \A o \in Requests \ {r} : req'[o] = req[o]
<1>1. req \in [Requests -> Request] /\ started \in 0 .. MaxRequests
  BY DEF TypeOK
<1>2. req' = [req EXCEPT ![r] = IdleRequest] /\ started' = started
  BY DEF Answer
<1>3. QED
  BY <1>1, <1>2, IdleIsRequest

\* The handler goes on with the state q.
LEMMA GoesOn ==
  ASSUME TypeOK, NEW r \in Requests, NEW q \in Request,
         req' = [req EXCEPT ![r] = q], started' = started
  PROVE  /\ req' \in [Requests -> Request] /\ started' \in 0 .. MaxRequests
         /\ req'[r] = q
         /\ \A o \in Requests \ {r} : req'[o] = req[o]
<1>1. req \in [Requests -> Request] /\ started \in 0 .. MaxRequests
  BY DEF TypeOK
<1>2. QED
  BY <1>1

LEMMA Continued ==
  ASSUME TypeOK, NEW r \in Requests, NEW pc \in Pcs, Continue(r, pc)
  PROVE  /\ req' \in [Requests -> Request] /\ started' \in 0 .. MaxRequests
         /\ req'[r].pc = pc /\ req'[r].op = req[r].op /\ req'[r].ip = req[r].ip
         /\ req'[r].account = req[r].account /\ req'[r].cred = req[r].cred
         /\ req'[r].new = req[r].new /\ req'[r].from = req[r].from
         /\ req'[r].at = req[r].at
         /\ \A o \in Requests \ {r} : req'[o] = req[o]
<1> DEFINE q == [req[r] EXCEPT !.pc = pc]
<1>1. req \in [Requests -> Request] /\ started \in 0 .. MaxRequests
  BY DEF TypeOK
<1>2. req[r] \in Request
  BY <1>1
<1>3. q \in Request
  BY <1>2 DEF Request
<1>4. /\ q.pc = pc /\ q.op = req[r].op /\ q.ip = req[r].ip
      /\ q.account = req[r].account /\ q.cred = req[r].cred /\ q.new = req[r].new
      /\ q.from = req[r].from /\ q.at = req[r].at
  BY <1>2 DEF Request
<1>5. req' = [req EXCEPT ![r] = q] /\ started' = started
  BY <1>1 DEF Continue
<1> HIDE DEF q
<1>6. /\ req' \in [Requests -> Request] /\ started' \in 0 .. MaxRequests
      /\ req'[r] = q /\ \A o \in Requests \ {r} : req'[o] = req[o]
  BY <1>3, <1>5, GoesOn
<1>7. QED
  BY <1>4, <1>6

-----------------------------------------------------------------------------
(* What no step of a handler undoes.                                       *)

\* The invariant but for the budget of mints.
BaseInv ==
  /\ TypeOK /\ RowsInv
  /\ \A r \in Requests : Knows(r)
  /\ LoggedOutInv /\ MintedApart

\* Sessions stay stored, and invalid once they are.
SessionsFollow ==
  \A s \in Sessions : sessions[s].state # "unused" =>
    /\ sessions'[s].state # "unused"
    /\ ~SessionValid(s) => ~SessionValid(s)'
\* Tokens stay stored, with their user and their slot, but for the token of a
\* create of r that is dropped.
TokensFollow(r) ==
  \A k \in Tokens : tokens[k].state # "unused" =>
    /\ tokens'[k].state # "unused"
    /\ tokens'[k].user = tokens[k].user /\ tokens'[k].minted = tokens[k].minted
    /\ tokens[k].lost => tokens'[k].lost
    /\ tokens'[k].lost => tokens[k].lost \/ (req[r].pc = "minted" /\ req[r].new = k)

LEMMA OthersKnow ==
  ASSUME BaseInv, NEW r \in Requests, NEW q \in Requests \ {r}, req'[q] = req[q],
         SessionsFollow, TokensFollow(r)
  PROVE  Knows(q)'
<1>1. Knows(q) /\ MintedApart
  BY DEF BaseInv
<1>2. req[q].pc \in {"leaving", "counting"} =>
        req[q].cred \in Sessions /\ sessions'[req[q].cred].state # "unused"
  BY <1>1 DEF Knows, SessionsFollow
<1>3. req[q].pc = "counting" => ~SessionValid(req[q].cred)'
  <2>1. ASSUME NEW s \in Sessions, sessions[s].state # "unused", ~SessionValid(s)
        PROVE  ~SessionValid(s)'
    BY <2>1 DEF SessionsFollow
  <2>2. ASSUME req[q].pc = "counting"
        PROVE  ~(SessionValid(req[q].cred)')
    <3>1. PICK s \in Sessions : s = req[q].cred
      BY <1>1, <2>2 DEF Knows
    <3>2. sessions[s].state # "unused" /\ ~SessionValid(s)
      BY <1>1, <2>2, <3>1 DEF Knows
    <3>3. ~SessionValid(s)'
      BY <2>1, <3>2
    <3>4. req'[q].cred = s
      BY <3>1
    <3>5. QED
      BY <3>3, <3>4 DEF SessionValid
  <2>3. QED
    BY <2>2
<1>4. req[q].pc = "touching" =>
        req[q].cred \in Tokens /\ tokens'[req[q].cred].state # "unused"
  BY <1>1 DEF Knows, TokensFollow
<1>5. req[q].pc \in {"touching", "acting"} /\ req[q].op = "revoke" =>
        req[q].new \in Tokens /\ tokens'[req[q].new].state # "unused"
  BY <1>1 DEF Knows, TokensFollow
<1>6. req[q].pc = "minted" => Inserted(q)'
  <2>1. SUFFICES ASSUME req[q].pc = "minted" PROVE Inserted(q)'
    OBVIOUS
  <2>2. Inserted(q)
    BY <1>1, <2>1 DEF Knows
  <2>3. ~(req[r].pc = "minted" /\ req[r].new = req[q].new)
    BY <1>1, <2>1 DEF MintedApart
  <2>4. QED
    BY <2>2, <2>3 DEF Inserted, TokensFollow
<1>7. QED
  BY <1>1, <1>2, <1>3, <1>4, <1>5, <1>6 DEF Knows, Trying, Inserted

\* What is left to show of a step of r.
LEMMA StepKeeps ==
  ASSUME BaseInv, TypeOK', RowsInv', NEW r \in Requests,
         \A q \in Requests \ {r} : req'[q] = req[q],
         SessionsFollow, TokensFollow(r), Knows(r)',
         \A s \in loggedOut' \ loggedOut :
           sessions'[s].state # "unused" /\ ~SessionValid(s)',
         req'[r].pc = "minted" =>
           \A q \in Requests \ {r} : req[q].pc = "minted" => req[q].new # req'[r].new
  PROVE  BaseInv'
<1>1. \A q \in Requests : Knows(q)'
  BY OthersKnow
<1>2. LoggedOutInv'
  <2>1. ASSUME NEW s \in loggedOut'
        PROVE  sessions'[s].state # "unused" /\ ~SessionValid(s)'
    <3>1. CASE s \in loggedOut
      <4>1. s \in Sessions /\ sessions[s].state # "unused" /\ ~SessionValid(s)
        BY <3>1 DEF BaseInv, LoggedOutInv, TypeOK
      <4>2. QED
        BY <4>1 DEF SessionsFollow
    <3>2. CASE s \notin loggedOut
      BY <3>2
    <3>3. QED
      BY <3>1, <3>2
  <2>2. QED
    BY <2>1 DEF LoggedOutInv
<1>3. MintedApart'
  BY DEF BaseInv, MintedApart
<1>4. QED
  BY <1>1, <1>2, <1>3 DEF BaseInv

\* A step that leaves the rows alone.
LEMMA SameRows ==
  ASSUME BaseInv, NEW r \in Requests, now' = now, UNCHANGED rows
  PROVE  RowsInv' /\ SessionsFollow /\ TokensFollow(r) /\ loggedOut' = loggedOut
<1>1. /\ active' = active /\ sessions' = sessions /\ tokens' = tokens
      /\ loggedOut' = loggedOut
  BY DEF rows
<1>2. RowsInv'
  BY <1>1 DEF BaseInv, RowsInv
<1>3. SessionsFollow
  <2>1. ASSUME NEW s \in Sessions
        PROVE  SessionValid(s)' = SessionValid(s)
    BY <1>1 DEF SessionValid
  <2>2. QED
    BY <1>1, <2>1 DEF SessionsFollow
<1>4. TokensFollow(r)
  BY <1>1 DEF TokensFollow
<1>5. QED
  BY <1>1, <1>2, <1>3, <1>4

\* The types but for those of the requests.
LEMMA SameRowTypes ==
  ASSUME TypeOK, now' = now, UNCHANGED rows,
         byIp' \in [Ips -> SUBSET Entries], WithinCeiling(byIp'),
         byAccount' \in [Accounts -> SUBSET Entries], WithinCeiling(byAccount'),
         byMinter' \in [Users -> SUBSET Entries], WithinCeiling(byMinter'),
         req' \in [Requests -> Request], started' \in 0 .. MaxRequests
  PROVE  TypeOK'
BY DEF TypeOK, rows, WithinCeiling, Kept

\* The tables as a step that leaves the limiter alone keeps them.
LEMMA SameTables ==
  ASSUME TypeOK, UNCHANGED limiter
  PROVE  /\ byIp' \in [Ips -> SUBSET Entries] /\ WithinCeiling(byIp')
         /\ byAccount' \in [Accounts -> SUBSET Entries] /\ WithinCeiling(byAccount')
         /\ byMinter' \in [Users -> SUBSET Entries] /\ WithinCeiling(byMinter')
<1>1. byIp' = byIp /\ byAccount' = byAccount /\ byMinter' = byMinter
  BY DEF limiter
<1>2. QED
  BY <1>1 DEF TypeOK

\* A step of a handler that changes no row, with the tables in order.
LEMMA QuietStep ==
  ASSUME BaseInv, NEW r \in Requests, now' = now, UNCHANGED rows,
         byIp' \in [Ips -> SUBSET Entries], WithinCeiling(byIp'),
         byAccount' \in [Accounts -> SUBSET Entries], WithinCeiling(byAccount'),
         byMinter' \in [Users -> SUBSET Entries], WithinCeiling(byMinter'),
         req' \in [Requests -> Request], started' \in 0 .. MaxRequests,
         \A q \in Requests \ {r} : req'[q] = req[q],
         req'[r].pc # "minted", Knows(r)'
  PROVE  BaseInv'
<1>1. TypeOK'
  BY SameRowTypes DEF BaseInv
<1>2. RowsInv' /\ SessionsFollow /\ TokensFollow(r) /\ loggedOut' = loggedOut
  BY SameRows
<1>3. QED
  BY <1>1, <1>2, StepKeeps

\* An idle handler knows nothing, and need not.
LEMMA IdleKnows ==
  ASSUME NEW r \in Requests, req'[r] = IdleRequest
  PROVE  Knows(r)' /\ req'[r].pc # "minted"
BY DEF Knows, IdleRequest, Trying, Inserted

-----------------------------------------------------------------------------
(* How long a full bucket makes a request wait.                            *)

\* The oldest entry of a bucket.
LEMMA OldestIsLeast ==
  ASSUME NEW bucket \in SUBSET Entries, bucket # {}
  PROVE  /\ Oldest(bucket) \in Nat
         /\ \E e \in bucket : e[1] = Oldest(bucket)
         /\ \A e \in bucket : Oldest(bucket) <= e[1]
<1> DEFINE instants == {e[1] : e \in bucket}
<1>1. \A e \in bucket : e[1] \in Nat
  BY BudgetsAreNumbers DEF Entries
<1>2. instants \in SUBSET Nat /\ instants # {}
  BY <1>1
<1> HIDE DEF instants
<1>3. \E t \in instants : \A i \in instants : t <= i
  BY <1>2, LeastNatural
<1>4. \E t \in {e[1] : e \in bucket} : \A e \in bucket : t <= e[1]
  BY <1>3 DEF instants
<1> DEFINE oldest == CHOOSE t \in {e[1] : e \in bucket} : \A e \in bucket : t <= e[1]
<1>5. /\ oldest \in {e[1] : e \in bucket}
      /\ \A e \in bucket : oldest <= e[1]
  BY <1>4
<1>6. oldest = Oldest(bucket)
  BY DEF Oldest
<1> HIDE DEF oldest
<1>7. QED
  BY <1>1, <1>5, <1>6

\* What prune leaves of a bucket.
LeftIn(bucket, window, t) == {e \in bucket : t - e[1] < window}

\* By the time its wait is over a bucket has lost its oldest entry, and until
\* then it loses none.
LEMMA WaitNamesTheInstant ==
  ASSUME NEW bucket \in SUBSET Entries, IsFiniteSet(bucket), bucket # {},
         NEW t \in Nat, NEW window \in Nat \ {0}, LeftIn(bucket, window, t) = bucket,
         NEW wait, wait = WaitOf(bucket, window, t)
  PROVE  /\ wait \in Nat \ {0}
         /\ (\A e \in bucket : e[1] <= t) => wait <= window
         /\ \A s \in Nat : s >= t + wait =>
              Cardinality(LeftIn(bucket, window, s)) < Cardinality(bucket)
         /\ \A s \in Int : s < t + wait => LeftIn(bucket, window, s) = bucket
<1>1. \A e \in bucket : e[1] \in Nat /\ t - e[1] < window
  BY BudgetsAreNumbers DEF Entries, LeftIn
<1>2. PICK oldest \in bucket : /\ oldest[1] = Oldest(bucket)
                               /\ \A e \in bucket : Oldest(bucket) <= e[1]
  BY OldestIsLeast
<1> DEFINE first == Oldest(bucket)
<1>3. first \in Nat /\ t - first < window
  BY <1>1, <1>2
<1>4. wait = IF first + window - t > 0 THEN first + window - t ELSE 0
  BY DEF WaitOf
<1> HIDE DEF first
<1>5. wait = first + window - t /\ wait \in Nat \ {0}
  BY <1>3, <1>4
<1>6. (\A e \in bucket : e[1] <= t) => wait <= window
  <2>1. SUFFICES ASSUME \A e \in bucket : e[1] <= t PROVE wait <= window
    OBVIOUS
  <2>2. first <= t
    BY <1>2, <2>1 DEF first
  <2>3. QED
    BY <1>3, <1>5, <2>2
<1>7. ASSUME NEW s \in Nat, s >= t + wait
      PROVE  Cardinality(LeftIn(bucket, window, s)) < Cardinality(bucket)
  <2>1. ~(s - first < window)
    BY <1>3, <1>5, <1>7
  <2>2. LeftIn(bucket, window, s) \in SUBSET (bucket \ {oldest})
    BY <1>2, <2>1 DEF LeftIn, first
  <2> DEFINE left == LeftIn(bucket, window, s)
  <2> HIDE DEF left
  <2>3. /\ IsFiniteSet(bucket \ {oldest}) /\ Cardinality(bucket) \in Nat
        /\ Cardinality(bucket \ {oldest}) = Cardinality(bucket) - 1
    BY TakeOne, FS_CardinalityType
  <2>4. /\ IsFiniteSet(left)
        /\ Cardinality(left) <= Cardinality(bucket \ {oldest})
    BY <2>2, <2>3, FS_Subset DEF left
  <2>5. Cardinality(left) \in Nat
    BY <2>4, FS_CardinalityType
  <2>6. Cardinality(left) < Cardinality(bucket)
    BY <2>3, <2>4, <2>5
  <2>7. QED
    BY <2>6 DEF left
<1>8. ASSUME NEW s \in Int, s < t + wait
      PROVE  LeftIn(bucket, window, s) = bucket
  <2>1. ASSUME NEW e \in bucket PROVE s - e[1] < window
    <3>1. first <= e[1] /\ e[1] \in Nat
      BY <1>1, <1>2 DEF first
    <3>2. QED
      BY <1>3, <1>5, <1>8, <3>1
  <2>2. QED
    BY <2>1 DEF LeftIn
<1>9. QED
  BY <1>5, <1>6, <1>7, <1>8

\* What blocked_for announces of a bucket that was just pruned.
LEMMA BlockedFor ==
  ASSUME NEW all \in SUBSET Entries, IsFiniteSet(all),
         NEW limit \in Nat \ {0}, NEW window \in Nat \ {0}, NEW t \in Nat,
         NEW bucket, bucket = LeftIn(all, window, t)
  PROVE  /\ bucket \in SUBSET Entries /\ IsFiniteSet(bucket)
         /\ LeftIn(bucket, window, t) = bucket
         /\ Full(bucket, limit) =>
              /\ bucket # {}
              /\ blocked_for(bucket, limit, window, t) = {WaitOf(bucket, window, t)}
              /\ WaitOf(bucket, window, t) \in Nat \ {0}
         /\ ~Full(bucket, limit) => blocked_for(bucket, limit, window, t) = {}
<1>1. bucket \in SUBSET all
  BY DEF LeftIn
<1>1a. bucket \in SUBSET Entries /\ IsFiniteSet(bucket)
  BY <1>1, FS_Subset
<1>2. LeftIn(bucket, window, t) = bucket
  BY DEF LeftIn
<1>3. ASSUME Full(bucket, limit)
      PROVE  /\ bucket # {}
             /\ blocked_for(bucket, limit, window, t) = {WaitOf(bucket, window, t)}
             /\ WaitOf(bucket, window, t) \in Nat \ {0}
  <2>1. bucket # {}
    BY <1>3, FS_EmptySet DEF Full
  <2>2. WaitOf(bucket, window, t) \in Nat \ {0}
    BY <1>1a, <1>2, <2>1, WaitNamesTheInstant
  <2>3. QED
    BY <1>3, <2>1, <2>2 DEF blocked_for
<1>4. ~Full(bucket, limit) => blocked_for(bucket, limit, window, t) = {}
  BY DEF blocked_for
<1>5. QED
  BY <1>1a, <1>2, <1>3, <1>4

\* At most one wait each of two buckets, and one of them at least.
LEMMA LongestOfTwo ==
  ASSUME NEW A, NEW B, A = {} \/ (\E w \in Nat : A = {w}),
         B = {} \/ (\E w \in Nat : B = {w}), A \union B # {}
  PROVE  /\ Longest(A \union B) \in A \union B /\ Longest(A \union B) \in Nat
         /\ \A v \in A \union B : v <= Longest(A \union B)
<1> DEFINE waits == A \union B
<1>1. \E w \in waits : \A v \in waits : w >= v
  <2>1. CASE \E w \in Nat : waits = {w}
    BY <2>1
  <2>2. CASE \E w, v \in Nat : waits = {w, v}
    <3>1. PICK w \in Nat, v \in Nat : waits = {w, v}
      BY <2>2
    <3>2. CASE w >= v
      BY <3>1, <3>2
    <3>3. CASE ~(w >= v)
      BY <3>1, <3>3
    <3>4. QED
      BY <3>2, <3>3
  <2>3. QED
    BY <2>1, <2>2
<1>2. waits \subseteq Nat
  OBVIOUS
<1> HIDE DEF waits
<1>3. /\ Longest(waits) \in waits
      /\ \A v \in waits : Longest(waits) >= v
  BY <1>1 DEF Longest
<1>4. QED
  BY <1>2, <1>3 DEF waits

\* Whole seconds: less than one short of the wait, and never none.
LEMMA RetrySays ==
  ASSUME NEW waits, Longest(waits) \in Nat \ {0}
  PROVE  LET n == retry_after(waits)
         IN  /\ n \in Nat \ {0} /\ n * Second \in Nat
             /\ n * Second + Second - 1 >= Longest(waits)
             /\ n > 1 => n * Second <= Longest(waits)
             /\ n = 1 \/ n * Second <= Longest(waits)
             /\ n = 1 => n * Second = Second
<1> DEFINE w == Longest(waits)
           secs == w \div Second
           n == retry_after(waits)
<1>1. Second \in Nat \ {0}
  BY BudgetsAreNumbers
<1> HIDE DEF w
<1>2. w \in Nat \ {0}
  BY DEF w
<1>3. secs \in Nat /\ secs * Second <= w /\ w < secs * Second + Second
  BY <1>1, <1>2
<1>4. n = IF secs >= 1 THEN secs ELSE 1
  BY DEF retry_after, w
<1> HIDE DEF n, secs
<1>5. /\ n \in Nat \ {0} /\ n * Second \in Nat
      /\ n * Second + Second - 1 >= w
      /\ n > 1 => n * Second <= w
      /\ n = 1 \/ n * Second <= w
      /\ n = 1 => n * Second = Second
  <2>1. CASE secs >= 1
    BY <1>1, <1>2, <1>3, <1>4, <2>1
  <2>2. CASE ~(secs >= 1)
    <3>1. secs = 0 /\ n = 1
      BY <1>3, <1>4, <2>2
    <3>2. secs * Second = 0 /\ n * Second = Second
      BY <1>1, <3>1
    <3>3. QED
      BY <1>1, <1>2, <1>3, <3>1, <3>2
  <2>3. QED
    BY <2>1, <2>2
<1>6. QED
  BY <1>5 DEF n, w

-----------------------------------------------------------------------------
(* Login.                                                                  *)

LEMMA PruneLoginsKeeps ==
  ASSUME TypeOK
  PROVE  /\ prune(byIp, Window, now) \in [Ips -> SUBSET Entries]
         /\ WithinCeiling(prune(byIp, Window, now))
         /\ prune(byAccount, Window, now) \in [Accounts -> SUBSET Entries]
         /\ WithinCeiling(prune(byAccount, Window, now))
         /\ prune(byMinter, TokenMintWindow, now) \in [Users -> SUBSET Entries]
         /\ WithinCeiling(prune(byMinter, TokenMintWindow, now))
BY PruneKeeps DEF TypeOK

\* The waits of an attempt.
LEMMA CheckLogin ==
  ASSUME TypeOK, NEW ip \in Ips, NEW a \in Accounts
  PROVE  LET ips == prune(byIp, Window, now)[ip]
             accounts == prune(byAccount, Window, now)[a]
             waits == check_login(ip, a)
         IN  /\ waits = {} <=>
                  ~Full(ips, MaxFailures) /\ ~Full(accounts, MaxAccountFailures)
             /\ Full(ips, MaxFailures) => WaitOf(ips, Window, now) \in waits
             /\ Full(accounts, MaxAccountFailures) => WaitOf(accounts, Window, now) \in waits
             /\ \A w \in waits :
                  \/ Full(ips, MaxFailures) /\ w = WaitOf(ips, Window, now)
                  \/ Full(accounts, MaxAccountFailures) /\ w = WaitOf(accounts, Window, now)
             /\ waits # {} =>
                  /\ Longest(waits) \in waits /\ Longest(waits) \in Nat \ {0}
                  /\ \A w \in waits : w <= Longest(waits)
                  /\ retry_after(waits) \in Nat
<1> DEFINE ips == prune(byIp, Window, now)[ip]
           accounts == prune(byAccount, Window, now)[a]
           waits == check_login(ip, a)
<1>1. /\ byIp \in [Ips -> SUBSET Entries] /\ WithinCeiling(byIp)
      /\ byAccount \in [Accounts -> SUBSET Entries] /\ WithinCeiling(byAccount)
      /\ now \in Nat
  BY BudgetsAreNumbers DEF TypeOK
<1>2. /\ ips = LeftIn(byIp[ip], Window, now)
      /\ byIp[ip] \in SUBSET Entries /\ IsFiniteSet(byIp[ip])
      /\ accounts = LeftIn(byAccount[a], Window, now)
      /\ byAccount[a] \in SUBSET Entries /\ IsFiniteSet(byAccount[a])
  BY <1>1 DEF prune, LeftIn, WithinCeiling
<1> DEFINE wi == WaitOf(ips, Window, now)
           wa == WaitOf(accounts, Window, now)
           fi == Full(ips, MaxFailures)
           fa == Full(accounts, MaxAccountFailures)
<1> DEFINE A == blocked_for(ips, MaxFailures, Window, now)
           B == blocked_for(accounts, MaxAccountFailures, Window, now)
<1>3. waits = A \union B
  BY DEF check_login, IpWait, AccountWait
<1> HIDE DEF ips, accounts, waits
<1>3a. /\ MaxFailures \in Nat \ {0} /\ MaxAccountFailures \in Nat \ {0}
       /\ Window \in Nat \ {0}
  BY BudgetsAreNumbers
<1>4. /\ fi => A = {wi} /\ wi \in Nat \ {0}
      /\ ~fi => A = {}
  BY <1>1, <1>2, <1>3a, BlockedFor
<1>5. /\ fa => B = {wa} /\ wa \in Nat \ {0}
      /\ ~fa => B = {}
  BY <1>1, <1>2, <1>3a, BlockedFor
<1> HIDE DEF A, B, wi, wa, fi, fa
<1>6. /\ waits = {} <=> ~fi /\ ~fa
      /\ fi => wi \in waits
      /\ fa => wa \in waits
      /\ \A w \in waits : (fi /\ w = wi) \/ (fa /\ w = wa)
  BY <1>3, <1>4, <1>5
<1>7. ASSUME waits # {}
      PROVE  /\ Longest(waits) \in waits /\ Longest(waits) \in Nat \ {0}
             /\ \A w \in waits : w <= Longest(waits)
             /\ retry_after(waits) \in Nat
  <2>1. A = {} \/ (\E w \in Nat : A = {w})
    BY <1>4
  <2>2. B = {} \/ (\E w \in Nat : B = {w})
    BY <1>5
  <2>3. /\ Longest(A \union B) \in A \union B /\ Longest(A \union B) \in Nat
        /\ \A w \in A \union B : w <= Longest(A \union B)
    BY <1>3, <1>7, <2>1, <2>2, LongestOfTwo
  <2>4. Longest(waits) \in Nat \ {0}
    BY <1>3, <1>4, <1>5, <1>6, <2>3
  <2>5. QED
    BY <1>3, <2>3, <2>4, RetrySays
<1>8. QED
  BY <1>6, <1>7 DEF ips, accounts, waits, wi, wa, fi, fa

\* What a login begins with: the attempt, charged to its client, or its refusal.
LEMMA LoginBegins ==
  ASSUME TypeOK, NEW r \in Requests, Login(r)
  PROVE  /\ byIp' = prune(byIp, Window, now)
         /\ byAccount' = prune(byAccount, Window, now)
         /\ byMinter' = byMinter /\ now' = now /\ UNCHANGED rows
         /\ \E q \in Request :
              /\ Start(r, q)
              /\ q.op = "login" /\ q.ip = q.from /\ q.ip \in Ips /\ q.account \in Accounts
              /\ \/ q.pc = "selecting" /\ check_login(q.ip, q.account) = {}
                 \/ /\ q.pc = "refused" /\ check_login(q.ip, q.account) # {}
                    /\ q.retry = retry_after(check_login(q.ip, q.account))
<1>1. PICK from \in Clients \union {Local}, typed \in Spellings :
        \E ip \in ChargedAs[from] :
          LET waits   == check_login(ip, AccountOf[typed])
              attempt == [IdleRequest EXCEPT !.op = "login", !.from = from, !.ip = ip,
                                             !.account = AccountOf[typed]]
          IN  /\ PruneLogins
              /\ Start(r, IF waits = {} THEN [attempt EXCEPT !.pc = "selecting"]
                          ELSE [attempt EXCEPT !.pc = "refused",
                                               !.retry = retry_after(waits)])
              /\ UNCHANGED <<now, rows>>
  BY DEF Login
<1>1a. PICK ip \in ChargedAs[from] :
        LET waits   == check_login(ip, AccountOf[typed])
            attempt == [IdleRequest EXCEPT !.op = "login", !.from = from, !.ip = ip,
                                           !.account = AccountOf[typed]]
        IN  /\ PruneLogins
            /\ Start(r, IF waits = {} THEN [attempt EXCEPT !.pc = "selecting"]
                        ELSE [attempt EXCEPT !.pc = "refused",
                                             !.retry = retry_after(waits)])
            /\ UNCHANGED <<now, rows>>
  BY <1>1
<1> DEFINE a == AccountOf[typed]
           waits == check_login(ip, a)
           attempt == [IdleRequest EXCEPT !.op = "login", !.from = from, !.ip = ip,
                                          !.account = a]
           q == IF waits = {} THEN [attempt EXCEPT !.pc = "selecting"]
                ELSE [attempt EXCEPT !.pc = "refused", !.retry = retry_after(waits)]
<1>2. /\ from \in Ips /\ ip = from /\ a \in Accounts
  BY ChargedIsClient, AccessAssumption DEF Ips
<1>3. waits # {} => retry_after(waits) \in Nat
  BY <1>2, CheckLogin
<1>4. /\ PruneLogins /\ Start(r, q) /\ UNCHANGED <<now, rows>>
  BY <1>1a
<1> HIDE DEF a, waits
<1>5. /\ attempt \in Request /\ attempt.op = "login" /\ attempt.ip = ip
      /\ attempt.from = from /\ attempt.account = a
  BY <1>2 DEF IdleRequest, Request, Pcs
<1> HIDE DEF attempt
<1>6. /\ q \in Request /\ q.op = "login" /\ q.ip = ip /\ q.from = from
      /\ q.account = a
      /\ \/ q.pc = "selecting" /\ waits = {}
         \/ q.pc = "refused" /\ waits # {} /\ q.retry = retry_after(waits)
  BY <1>3, <1>5 DEF Request, Pcs
<1> HIDE DEF q
<1>7. QED
  BY <1>2, <1>4, <1>6 DEF PruneLogins, waits, a

LEMMA LoginKeeps ==
  ASSUME BaseInv, NEW r \in Requests, Login(r)
  PROVE  BaseInv'
<1>1. TypeOK
  BY DEF BaseInv
<1>2. /\ byIp' = prune(byIp, Window, now) /\ byAccount' = prune(byAccount, Window, now)
      /\ byMinter' = byMinter /\ now' = now /\ UNCHANGED rows
  BY <1>1, LoginBegins
<1>3. PICK q \in Request :
        /\ Start(r, q)
        /\ q.op = "login" /\ q.ip \in Ips /\ q.account \in Accounts
        /\ q.pc \in {"selecting", "refused"}
  BY <1>1, LoginBegins
<1>4. /\ byIp' \in [Ips -> SUBSET Entries] /\ WithinCeiling(byIp')
      /\ byAccount' \in [Accounts -> SUBSET Entries] /\ WithinCeiling(byAccount')
      /\ byMinter' \in [Users -> SUBSET Entries] /\ WithinCeiling(byMinter')
  BY <1>1, <1>2, PruneLoginsKeeps DEF TypeOK
<1>5. /\ req' \in [Requests -> Request] /\ started' \in 0 .. MaxRequests
      /\ req'[r] = q /\ \A o \in Requests \ {r} : req'[o] = req[o]
  BY <1>1, <1>3, Started
<1>6. Knows(r)' /\ req'[r].pc # "minted"
  BY <1>3, <1>5 DEF Knows, Trying
<1>7. QED
  BY <1>2, <1>4, <1>5, <1>6, QuietStep

LEMMA RefuseKeeps ==
  ASSUME BaseInv, NEW r \in Requests, Refuse(r)
  PROVE  BaseInv'
<1>1. TypeOK /\ Answer(r) /\ now' = now /\ UNCHANGED limiter /\ UNCHANGED rows
  BY DEF BaseInv, Refuse
<1>2. /\ req' \in [Requests -> Request] /\ started' \in 0 .. MaxRequests
      /\ req'[r] = IdleRequest /\ \A o \in Requests \ {r} : req'[o] = req[o]
  BY <1>1, Answered
<1>3. QED
  BY <1>1, <1>2, IdleKnows, SameTables, QuietStep

LEMMA VerifyKeeps ==
  ASSUME BaseInv, NEW r \in Requests, Verify(r)
  PROVE  BaseInv'
<1>1. TypeOK /\ Knows(r)
  BY DEF BaseInv
<1>2. PICK fits \in PasswordFits :
        Continue(r, IF verify_credentials(req[r].account, fits) THEN "inserting"
                    ELSE "failing")
  BY DEF Verify
<1> DEFINE pc == IF verify_credentials(req[r].account, fits) THEN "inserting" ELSE "failing"
<1>3. pc \in {"inserting", "failing"} /\ pc \in Pcs
  BY DEF Pcs
<1>4. pc = "inserting" => req[r].account \in Users
  BY DEF verify_credentials
<1> HIDE DEF pc
<1>5. /\ req' \in [Requests -> Request] /\ started' \in 0 .. MaxRequests
      /\ req'[r].pc = pc /\ req'[r].op = req[r].op /\ req'[r].ip = req[r].ip
      /\ req'[r].account = req[r].account
      /\ \A o \in Requests \ {r} : req'[o] = req[o]
  BY <1>1, <1>2, <1>3, Continued DEF pc
<1>6. req[r].pc = "selecting" /\ now' = now /\ UNCHANGED limiter /\ UNCHANGED rows
  BY DEF Verify
<1>7. Knows(r)' /\ req'[r].pc # "minted"
  BY <1>1, <1>3, <1>4, <1>5, <1>6 DEF Knows, Trying
<1>8. QED
  BY <1>1, <1>5, <1>6, <1>7, SameTables, QuietStep

\* What record_failure makes of one of the two tables.
LEMMA Charged ==
  ASSUME NEW K, NEW table \in [K -> SUBSET Entries], WithinCeiling(table),
         NEW key \in K, NEW limit, NEW window, NEW instant \in Instants,
         NEW t \in bound_keys(prune(table, window, instant), key, limit, MaxKeys)
  PROVE  /\ Push(t, key, instant) \in [K -> SUBSET Entries]
         /\ WithinCeiling(Push(t, key, instant))
         /\ Push(t, key, instant)[key] # {}
         /\ Cardinality(Push(t, key, instant)[key]) <= Cardinality(table[key]) + 1
         /\ \A k \in K \ {key} : /\ Push(t, key, instant)[k] = t[k]
                                 /\ Push(t, key, instant)[k] \subseteq table[k]
<1> DEFINE left == prune(table, window, instant)
<1>1. /\ left \in [K -> SUBSET Entries] /\ WithinCeiling(left)
      /\ \A k \in K : /\ left[k] \subseteq table[k]
                      /\ Cardinality(left[k]) <= Cardinality(table[k])
  BY PruneKeeps
<1> HIDE DEF left
<1>2. /\ t \in [K -> SUBSET Entries] /\ WithinCeiling(t)
      /\ \A k \in K : t[k] \subseteq left[k]
      /\ t[key] = left[key]
      /\ IsFiniteSet(Kept(t) \union {key})
      /\ Cardinality(Kept(t) \union {key}) <= MaxKeys
  BY <1>1, BoundKeysMakesRoom DEF left
<1> DEFINE pushed == Push(t, key, instant)
<1>3. /\ pushed \in [K -> SUBSET Entries] /\ WithinCeiling(pushed)
      /\ pushed[key] # {}
      /\ Cardinality(pushed[key]) <= Cardinality(t[key]) + 1
      /\ \A k \in K \ {key} : pushed[k] = t[k]
  BY <1>2, PushAdds
<1> HIDE DEF pushed
<1>4. /\ Cardinality(table[key]) \in Nat /\ Cardinality(t[key]) \in Nat
      /\ Cardinality(pushed[key]) \in Nat
  BY <1>2, <1>3, FS_CardinalityType DEF WithinCeiling
<1>5. Cardinality(pushed[key]) <= Cardinality(table[key]) + 1
  BY <1>1, <1>2, <1>3, <1>4
<1>6. QED
  BY <1>1, <1>2, <1>3, <1>5 DEF pushed

\* The failure is in both tables.
LEMMA FailureCharged ==
  ASSUME BaseInv, NEW r \in Requests, RecordFailure(r)
  PROVE  /\ byIp' \in [Ips -> SUBSET Entries] /\ WithinCeiling(byIp')
         /\ byAccount' \in [Accounts -> SUBSET Entries] /\ WithinCeiling(byAccount')
         /\ req[r].ip \in Ips /\ req[r].account \in Accounts
         /\ Cardinality(byIp'[req[r].ip]) <= Cardinality(byIp[req[r].ip]) + 1
         /\ \A i \in Ips \ {req[r].ip} : byIp'[i] \subseteq byIp[i]
         /\ Cardinality(byAccount'[req[r].account])
              <= Cardinality(byAccount[req[r].account]) + 1
         /\ \A a \in Accounts \ {req[r].account} : byAccount'[a] \subseteq byAccount[a]
<1>1. PICK ips \in bound_keys(prune(byIp, Window, now), req[r].ip, MaxFailures, MaxKeys),
           accounts \in bound_keys(prune(byAccount, Window, now), req[r].account,
                                   MaxAccountFailures, MaxKeys) :
        /\ byIp' = Push(ips, req[r].ip, now)
        /\ byAccount' = Push(accounts, req[r].account, now)
  BY DEF RecordFailure
<1>2. /\ byIp \in [Ips -> SUBSET Entries] /\ WithinCeiling(byIp)
      /\ byAccount \in [Accounts -> SUBSET Entries] /\ WithinCeiling(byAccount)
      /\ now \in Instants
  BY DEF BaseInv, TypeOK
<1>3. req[r].ip \in Ips /\ req[r].account \in Accounts
  BY DEF BaseInv, Knows, Trying, RecordFailure
<1>4. /\ byIp' \in [Ips -> SUBSET Entries] /\ WithinCeiling(byIp')
      /\ Cardinality(byIp'[req[r].ip]) <= Cardinality(byIp[req[r].ip]) + 1
      /\ \A i \in Ips \ {req[r].ip} : byIp'[i] \subseteq byIp[i]
  BY <1>1, <1>2, <1>3, Charged
<1>5. /\ byAccount' \in [Accounts -> SUBSET Entries] /\ WithinCeiling(byAccount')
      /\ Cardinality(byAccount'[req[r].account])
           <= Cardinality(byAccount[req[r].account]) + 1
      /\ \A a \in Accounts \ {req[r].account} : byAccount'[a] \subseteq byAccount[a]
  BY <1>1, <1>2, <1>3, Charged
<1>6. QED
  BY <1>3, <1>4, <1>5

LEMMA RecordFailureKeeps ==
  ASSUME BaseInv, NEW r \in Requests, RecordFailure(r)
  PROVE  BaseInv'
<1>1. TypeOK
  BY DEF BaseInv
<1>2. /\ byIp' \in [Ips -> SUBSET Entries] /\ WithinCeiling(byIp')
      /\ byAccount' \in [Accounts -> SUBSET Entries] /\ WithinCeiling(byAccount')
  BY FailureCharged
<1>3. /\ byMinter' \in [Users -> SUBSET Entries] /\ WithinCeiling(byMinter')
  BY <1>1 DEF TypeOK, RecordFailure
<1>4. Answer(r) /\ now' = now /\ UNCHANGED rows
  BY DEF RecordFailure
<1>5. /\ req' \in [Requests -> Request] /\ started' \in 0 .. MaxRequests
      /\ req'[r] = IdleRequest /\ \A o \in Requests \ {r} : req'[o] = req[o]
  BY <1>1, <1>4, Answered
<1>6. QED
  BY <1>2, <1>3, <1>4, <1>5, IdleKnows, QuietStep

\* Writing one unused session.
LEMMA InsertSessionKeeps ==
  ASSUME BaseInv, NEW r \in Requests, InsertSession(r)
  PROVE  BaseInv'
<1>1. TypeOK /\ Knows(r) /\ RowsInv
  BY DEF BaseInv
<1>2. PICK ttl \in Lifetimes :
        sessions' = [sessions EXCEPT ![NewId(sessions)] =
          [state |-> "live", user |-> req[r].account, expires |-> now + ttl]]
  BY DEF InsertSession
<1> DEFINE s == NewId(sessions)
           row == [state |-> "live", user |-> req[r].account, expires |-> now + ttl]
<1>3. /\ req[r].pc = "inserting" /\ Fresh(sessions) # {} /\ Continue(r, "inserted")
      /\ now' = now /\ UNCHANGED limiter /\ active' = active /\ tokens' = tokens
      /\ loggedOut' = loggedOut
  BY DEF InsertSession
<1>4. s \in Sessions /\ sessions[s].state = "unused"
  BY <1>1, <1>3 DEF NewId, Fresh, TypeOK
<1>5. req[r].account \in Users
  BY <1>1, <1>3 DEF Knows
<1>6. row \in Session /\ row.state = "live" /\ row.user \in Users
  <2>1. now \in Nat /\ ttl \in Nat
    BY <1>1, BudgetsAreNumbers, AccessAssumption DEF TypeOK
  <2>2. QED
    BY <1>5, <2>1 DEF Session
<1>7. sessions' = [sessions EXCEPT ![s] = row]
  BY <1>2
<1> HIDE DEF s, row
<1>8. /\ sessions' \in [Sessions -> Session]
      /\ sessions'[s] = row /\ \A o \in Sessions \ {s} : sessions'[o] = sessions[o]
  BY <1>1, <1>4, <1>6, <1>7 DEF TypeOK
<1>9. "inserted" \in Pcs
  BY DEF Pcs
<1>10. /\ req' \in [Requests -> Request] /\ started' \in 0 .. MaxRequests
       /\ req'[r].pc = "inserted" /\ req'[r].op = req[r].op
       /\ req'[r].account = req[r].account
       /\ \A o \in Requests \ {r} : req'[o] = req[o]
  BY <1>1, <1>3, <1>9, Continued
<1>11. TypeOK'
  BY <1>1, <1>3, <1>8, <1>10 DEF TypeOK, WithinCeiling, Kept, limiter
<1>12. RowsInv'
  BY <1>1, <1>3, <1>6, <1>8 DEF RowsInv
<1>13. SessionsFollow
  BY <1>3, <1>4, <1>8 DEF SessionsFollow, SessionValid
<1>14. TokensFollow(r)
  BY <1>3 DEF TokensFollow
<1>15. Knows(r)'
  BY <1>1, <1>3, <1>5, <1>10 DEF Knows, Trying
<1>16. QED
  BY <1>3, <1>10, <1>11, <1>12, <1>13, <1>14, <1>15, StepKeeps

LEMMA LoggedInKeeps ==
  ASSUME BaseInv, NEW r \in Requests, LoggedIn(r)
  PROVE  BaseInv'
<1>1. TypeOK /\ Knows(r)
  BY DEF BaseInv
<1>2. /\ record_success(r) /\ Answer(r) /\ now' = now /\ UNCHANGED rows
      /\ req[r].account \in Accounts
  BY <1>1, AccessAssumption DEF LoggedIn, Knows
<1>3. /\ req' \in [Requests -> Request] /\ started' \in 0 .. MaxRequests
      /\ req'[r] = IdleRequest /\ \A o \in Requests \ {r} : req'[o] = req[o]
  BY <1>1, <1>2, Answered
<1> DEFINE left == prune(byAccount, Window, now)
<1>4. left \in [Accounts -> SUBSET Entries] /\ WithinCeiling(left)
  BY <1>1, PruneLoginsKeeps
<1>5. byAccount' = [left EXCEPT ![req[r].account] = {}]
  BY <1>2 DEF record_success
<1> HIDE DEF left
<1>6. /\ byAccount' \in [Accounts -> SUBSET Entries]
      /\ \A a \in Accounts : byAccount'[a] \subseteq left[a]
  BY <1>2, <1>4, <1>5
<1>7. WithinCeiling(byAccount')
  BY <1>4, <1>6, FewerEntries
<1>8. /\ byIp' \in [Ips -> SUBSET Entries] /\ WithinCeiling(byIp')
      /\ byMinter' \in [Users -> SUBSET Entries] /\ WithinCeiling(byMinter')
  BY <1>1, <1>2 DEF TypeOK, record_success
<1>9. QED
  BY <1>2, <1>3, <1>6, <1>7, <1>8, IdleKnows, QuietStep

-----------------------------------------------------------------------------
(* Tokens.                                                                 *)

\* A valid session has a user.
LEMMA ValidHasUser ==
  ASSUME BaseInv, NEW s \in Sessions, SessionValid(s)
  PROVE  sessions[s].state # "unused" /\ sessions[s].user \in Users
BY DEF BaseInv, RowsInv, SessionValid

\* Beginning a request changes no row and no table.
LEMMA BeginKeeps ==
  ASSUME BaseInv, NEW r \in Requests, NEW q \in Request, Start(r, q),
         UNCHANGED <<now, limiter, rows>>,
         q.pc \in {"reserving", "leaving", "touching", "acting"},
         q.pc = "reserving" => q.op = "mint" /\ q.account \in Users,
         q.pc = "leaving" => q.cred \in Sessions /\ sessions[q.cred].state # "unused",
         q.pc = "touching" => q.cred \in Tokens /\ tokens[q.cred].state # "unused",
         q.op = "revoke" => q.new \in Tokens /\ tokens[q.new].state # "unused"
  PROVE  BaseInv'
<1>1. TypeOK
  BY DEF BaseInv
<1>2. /\ req' \in [Requests -> Request] /\ started' \in 0 .. MaxRequests
      /\ req'[r] = q /\ \A o \in Requests \ {r} : req'[o] = req[o]
  BY <1>1, Started
<1>3. now' = now /\ UNCHANGED limiter /\ UNCHANGED rows
  OBVIOUS
<1>4. sessions' = sessions /\ tokens' = tokens
  BY <1>3 DEF rows
<1>5. Knows(r)' /\ req'[r].pc # "minted"
  BY <1>2, <1>4 DEF Knows, Trying
<1>6. QED
  BY <1>1, <1>2, <1>3, <1>5, SameTables, QuietStep

LEMMA BeginMintKeeps ==
  ASSUME BaseInv, NEW r \in Requests, BeginMint(r)
  PROVE  BaseInv'
<1>1. PICK s \in Sessions, n \in Names :
        /\ SessionValid(s)
        /\ Start(r, [IdleRequest EXCEPT !.pc = "reserving", !.op = "mint", !.cred = s,
                       !.account = sessions[s].user, !.name = n])
        /\ UNCHANGED <<now, limiter, rows>>
  BY DEF BeginMint
<1> DEFINE q == [IdleRequest EXCEPT !.pc = "reserving", !.op = "mint", !.cred = s,
                   !.account = sessions[s].user, !.name = n]
<1>2. sessions[s].user \in Users /\ sessions[s].user \in Accounts
  BY <1>1, ValidHasUser, AccessAssumption
<1>3. q \in Request /\ q.pc = "reserving" /\ q.op = "mint" /\ q.account \in Users
  BY <1>2 DEF IdleRequest, Request, Pcs
<1>4. Start(r, q)
  BY <1>1
<1> HIDE DEF q
<1>5. QED
  BY <1>1, <1>3, <1>4, BeginKeeps

\* The tables in which a slot can be taken.
LEMMA ReservedKeeps ==
  ASSUME TypeOK, NEW u \in Users, NEW table \in Reserved(u)
  PROVE  table \in [Users -> SUBSET Entries] /\ WithinCeiling(table)
<1> DEFINE left == prune(byMinter, TokenMintWindow, now)
<1>1. /\ left \in [Users -> SUBSET Entries] /\ WithinCeiling(left) /\ now \in Instants
  BY PruneLoginsKeeps DEF TypeOK
<1>2. PICK t \in bound_keys(left, u, MaxTokenMints, MaxKeys) : table = Push(t, u, now)
  BY DEF Reserved
<1> HIDE DEF left
<1>3. /\ t \in [Users -> SUBSET Entries] /\ WithinCeiling(t)
      /\ IsFiniteSet(Kept(t) \union {u})
      /\ Cardinality(Kept(t) \union {u}) <= MaxKeys
  BY <1>1, <1>2, BoundKeysMakesRoom
<1>4. QED
  BY <1>1, <1>2, <1>3, PushAdds

\* The state of a create that has its slot.
LEMMA Slotted ==
  ASSUME TypeOK, NEW r \in Requests,
         req' = [req EXCEPT ![r].pc = "minting", ![r].at = now], started' = started
  PROVE  /\ req' \in [Requests -> Request] /\ started' \in 0 .. MaxRequests
         /\ req'[r].pc = "minting" /\ req'[r].op = req[r].op
         /\ req'[r].account = req[r].account /\ req'[r].at = now
         /\ req'[r].ip = req[r].ip /\ req'[r].from = req[r].from
         /\ \A o \in Requests \ {r} : req'[o] = req[o]
<1> DEFINE q == [req[r] EXCEPT !.pc = "minting", !.at = now]
<1>1. req \in [Requests -> Request] /\ now \in Instants
  BY DEF TypeOK
<1>2. req[r] \in Request
  BY <1>1
<1>3. q \in Request
  BY <1>1, <1>2 DEF Request, Pcs
<1>4. /\ q.pc = "minting" /\ q.op = req[r].op /\ q.account = req[r].account
      /\ q.at = now /\ q.ip = req[r].ip /\ q.from = req[r].from
  BY <1>2 DEF Request
<1>5. req' = [req EXCEPT ![r] = q]
  BY <1>1
<1> HIDE DEF q
<1>6. QED
  BY <1>3, <1>4, <1>5, GoesOn

\* The state of a create that is refused.
LEMMA MintRefused ==
  ASSUME TypeOK, NEW r \in Requests, req[r].account \in Users,
         MintWait(req[r].account) # {},
         req' = [req EXCEPT ![r].pc = "refused",
                            ![r].retry = retry_after(MintWait(req[r].account))],
         started' = started
  PROVE  LET bucket == prune(byMinter, TokenMintWindow, now)[req[r].account]
             waits == MintWait(req[r].account)
         IN  /\ Full(bucket, MaxTokenMints)
             /\ Longest(waits) = WaitOf(bucket, TokenMintWindow, now)
             /\ Longest(waits) \in Nat \ {0}
             /\ req' \in [Requests -> Request] /\ started' \in 0 .. MaxRequests
             /\ req'[r].pc = "refused" /\ req'[r].op = req[r].op
             /\ req'[r].account = req[r].account
             /\ req'[r].ip = req[r].ip /\ req'[r].from = req[r].from
             /\ req'[r].retry = retry_after(waits)
             /\ \A o \in Requests \ {r} : req'[o] = req[o]
<1> DEFINE u == req[r].account
           left == prune(byMinter, TokenMintWindow, now)
           waits == MintWait(u)
           retry == retry_after(waits)
           q == [req[r] EXCEPT !.pc = "refused", !.retry = retry]
           bucket == left[u]
<1>0. /\ bucket = LeftIn(byMinter[u], TokenMintWindow, now)
      /\ waits = blocked_for(bucket, MaxTokenMints, TokenMintWindow, now)
      /\ byMinter[u] \in SUBSET Entries /\ IsFiniteSet(byMinter[u])
      /\ MaxTokenMints \in Nat \ {0} /\ TokenMintWindow \in Nat \ {0} /\ now \in Nat
  BY BudgetsAreNumbers DEF TypeOK, MintWait, prune, LeftIn, WithinCeiling
<1> HIDE DEF bucket, waits
<1>1. Full(bucket, MaxTokenMints)
  BY <1>0, BlockedFor DEF waits
<1>2. /\ waits = {WaitOf(bucket, TokenMintWindow, now)}
      /\ WaitOf(bucket, TokenMintWindow, now) \in Nat \ {0}
  BY <1>0, <1>1, BlockedFor
<1>3. Longest(waits) = WaitOf(bucket, TokenMintWindow, now)
  BY <1>2 DEF Longest
<1>4. retry \in Nat
  BY <1>2, <1>3, RetrySays
<1> HIDE DEF retry
<1>5. req \in [Requests -> Request] /\ req[r] \in Request
  BY DEF TypeOK
<1>6. q \in Request
  BY <1>4, <1>5 DEF Request, Pcs
<1>7. /\ q.pc = "refused" /\ q.op = req[r].op /\ q.account = req[r].account
      /\ q.ip = req[r].ip /\ q.from = req[r].from /\ q.retry = retry
  BY <1>5 DEF Request
<1>8. req' = [req EXCEPT ![r] = q]
  BY <1>5 DEF retry, waits
<1> HIDE DEF q
<1>9. /\ req' \in [Requests -> Request] /\ started' \in 0 .. MaxRequests
      /\ req'[r] = q /\ \A o \in Requests \ {r} : req'[o] = req[o]
  BY <1>6, <1>8, GoesOn
<1>10. QED
  BY <1>1, <1>2, <1>3, <1>7, <1>9 DEF waits, retry, bucket

LEMMA ReserveKeeps ==
  ASSUME BaseInv, NEW r \in Requests, Reserve(r)
  PROVE  BaseInv'
<1>1. TypeOK /\ Knows(r)
  BY DEF BaseInv
<1>2. /\ req[r].pc = "reserving" /\ now' = now /\ byIp' = byIp
      /\ byAccount' = byAccount /\ UNCHANGED rows
  BY DEF Reserve
<1>3. /\ byIp' \in [Ips -> SUBSET Entries] /\ WithinCeiling(byIp')
      /\ byAccount' \in [Accounts -> SUBSET Entries] /\ WithinCeiling(byAccount')
      /\ now \in Instants /\ req[r].account \in Users
  BY <1>1, <1>2 DEF TypeOK, Knows
<1>4. CASE /\ byMinter' \in Reserved(req[r].account)
           /\ req' = [req EXCEPT ![r].pc = "minting", ![r].at = now]
           /\ started' = started
  <2>1. byMinter' \in [Users -> SUBSET Entries] /\ WithinCeiling(byMinter')
    BY <1>1, <1>3, <1>4, ReservedKeeps
  <2>2. /\ req' \in [Requests -> Request] /\ started' \in 0 .. MaxRequests
        /\ req'[r].pc = "minting" /\ req'[r].account = req[r].account
        /\ req'[r].at = now /\ \A o \in Requests \ {r} : req'[o] = req[o]
    BY <1>1, <1>4, Slotted
  <2>3. Knows(r)' /\ req'[r].pc # "minted"
    BY <1>3, <2>2 DEF Knows, Trying
  <2>4. QED
    BY <1>2, <1>3, <2>1, <2>2, <2>3, QuietStep
<1>5. CASE /\ MintWait(req[r].account) # {}
           /\ byMinter' = prune(byMinter, TokenMintWindow, now)
           /\ req' = [req EXCEPT ![r].pc = "refused",
                                 ![r].retry = retry_after(MintWait(req[r].account))]
           /\ started' = started
  <2>1. byMinter' \in [Users -> SUBSET Entries] /\ WithinCeiling(byMinter')
    BY <1>1, <1>5, PruneLoginsKeeps
  <2>2. /\ req' \in [Requests -> Request] /\ started' \in 0 .. MaxRequests
        /\ req'[r].pc = "refused" /\ req'[r].account = req[r].account
        /\ req'[r].op = req[r].op /\ \A o \in Requests \ {r} : req'[o] = req[o]
    BY <1>1, <1>3, <1>5, MintRefused
  <2>3. req[r].op = "mint"
    BY <1>1, <1>2 DEF Knows
  <2>4. Knows(r)' /\ req'[r].pc # "minted"
    BY <1>3, <2>2, <2>3 DEF Knows, Trying
  <2>5. QED
    BY <1>2, <1>3, <2>1, <2>2, <2>4, QuietStep
<1>6. QED
  BY <1>4, <1>5 DEF Reserve

\* A released slot leaves the tables in order.
LEMMA ReleaseKeeps ==
  ASSUME BaseInv, NEW r \in Requests, req[r].account \in Users, Release(r)
  PROVE  /\ byIp' \in [Ips -> SUBSET Entries] /\ WithinCeiling(byIp')
         /\ byAccount' \in [Accounts -> SUBSET Entries] /\ WithinCeiling(byAccount')
         /\ byMinter' \in [Users -> SUBSET Entries] /\ WithinCeiling(byMinter')
<1>1. TypeOK
  BY DEF BaseInv
<1>2. /\ byMinter' = Pop(prune(byMinter, TokenMintWindow, now), req[r].account, req[r].at)
      /\ byIp' = byIp /\ byAccount' = byAccount
  BY DEF Release
<1>3. QED
  BY <1>1, <1>2, PruneLoginsKeeps, PopTakes DEF TypeOK

\* The row of a new token, and the create that wrote it.
LEMMA InsertedKeeps ==
  ASSUME BaseInv, NEW r \in Requests, req[r].pc = "minting",
         Fresh(tokens) # {},
         tokens' = [tokens EXCEPT ![NewId(tokens)] =
           [NoToken EXCEPT !.state = "live", !.user = req[r].account,
                           !.name = req[r].name, !.minted = req[r].at]],
         req' = [req EXCEPT ![r].pc = "minted", ![r].new = NewId(tokens)],
         UNCHANGED limiter, started' = started,
         now' = now, active' = active, sessions' = sessions, loggedOut' = loggedOut
  PROVE  /\ BaseInv'
         /\ \E k \in Tokens :
              /\ tokens[k].state = "unused"
              /\ tokens'[k].state = "live" /\ tokens'[k].user = req[r].account
              /\ tokens'[k].minted = req[r].at /\ ~tokens'[k].lost
              /\ \A o \in Tokens \ {k} : tokens'[o] = tokens[o]
         /\ req'[r].pc = "minted" /\ req'[r].op = req[r].op
         /\ req'[r].ip = req[r].ip /\ req'[r].from = req[r].from
         /\ \A o \in Requests \ {r} : req'[o] = req[o]
<1>1. TypeOK /\ Knows(r) /\ RowsInv /\ \A q \in Requests : Knows(q)
  BY DEF BaseInv
<1> DEFINE k == NewId(tokens)
           row == [NoToken EXCEPT !.state = "live", !.user = req[r].account,
                                  !.name = req[r].name, !.minted = req[r].at]
           q == [req[r] EXCEPT !.pc = "minted", !.new = k]
<1>2. k \in Tokens /\ tokens[k].state = "unused"
  BY <1>1 DEF NewId, Fresh, TypeOK
<1>3. req[r].account \in Users /\ req[r].at \in Instants
  BY <1>1 DEF Knows
<1>4. req \in [Requests -> Request] /\ tokens \in [Tokens -> Token]
  BY <1>1 DEF TypeOK
<1>5. req[r] \in Request
  BY <1>4
<1>6. /\ row \in Token /\ row.state = "live" /\ row.user = req[r].account
      /\ row.minted = req[r].at
  BY <1>3, <1>5 DEF NoToken, Token, Request
<1>7. row.lost = FALSE
  BY DEF NoToken
<1>8. q \in Request
  BY <1>2, <1>5 DEF Request, Pcs
<1>9. /\ q.pc = "minted" /\ q.new = k /\ q.account = req[r].account
      /\ q.at = req[r].at /\ q.op = req[r].op /\ q.ip = req[r].ip
      /\ q.from = req[r].from
  BY <1>5 DEF Request
<1>10. req' = [req EXCEPT ![r] = q] /\ tokens' = [tokens EXCEPT ![k] = row]
  BY <1>4
<1> HIDE DEF k, row, q
<1>11. /\ req' \in [Requests -> Request] /\ started' \in 0 .. MaxRequests
       /\ req'[r] = q /\ \A o \in Requests \ {r} : req'[o] = req[o]
  BY <1>1, <1>8, <1>10, GoesOn
<1>12. /\ tokens' \in [Tokens -> Token] /\ tokens'[k] = row
       /\ \A o \in Tokens \ {k} : tokens'[o] = tokens[o]
  BY <1>2, <1>4, <1>6, <1>10
<1>13. TypeOK'
  BY <1>1, <1>11, <1>12 DEF TypeOK, WithinCeiling, Kept, limiter
<1>14. RowsInv'
  <2>1. \A s \in Sessions : sessions'[s].state # "unused" => sessions'[s].user \in Users
    BY <1>1 DEF RowsInv
  <2>2. ASSUME NEW o \in Tokens, tokens'[o].state # "unused"
        PROVE  tokens'[o].user \in Users /\ tokens'[o].minted \in Instants
    <3>1. CASE o = k
      BY <1>3, <1>6, <1>12, <3>1
    <3>2. CASE o # k
      BY <1>1, <1>12, <2>2, <3>2 DEF RowsInv
    <3>3. QED
      BY <3>1, <3>2
  <2>3. QED
    BY <2>1, <2>2 DEF RowsInv
<1>15. SessionsFollow
  BY DEF SessionsFollow, SessionValid
<1>16. TokensFollow(r)
  BY <1>2, <1>12 DEF TokensFollow
<1>17. Inserted(r)'
  BY <1>2, <1>6, <1>7, <1>9, <1>11, <1>12 DEF Inserted
<1>18. Knows(r)'
  BY <1>3, <1>9, <1>11, <1>17 DEF Knows, Trying
<1>19. \A o \in Requests \ {r} : req[o].pc = "minted" => req[o].new # req'[r].new
  <2>1. \A o \in Requests : req[o].pc = "minted" => Inserted(o)
    BY <1>1 DEF Knows
  <2>2. QED
    BY <1>2, <1>9, <1>11, <2>1 DEF Inserted
<1>20. BaseInv'
  BY <1>11, <1>13, <1>14, <1>15, <1>16, <1>18, <1>19, StepKeeps
<1>21. QED
  BY <1>2, <1>6, <1>7, <1>9, <1>11, <1>12, <1>20

LEMMA InsertTokenKeeps ==
  ASSUME BaseInv, NEW r \in Requests, InsertToken(r)
  PROVE  BaseInv'
<1>1. TypeOK /\ Knows(r)
  BY DEF BaseInv
<1>2. /\ req[r].pc = "minting" /\ now' = now /\ active' = active
      /\ sessions' = sessions /\ loggedOut' = loggedOut
  BY DEF InsertToken
<1>3. CASE NameTaken(req[r].account, req[r].name)
  <2>1. Release(r) /\ Answer(r) /\ UNCHANGED rows
    BY <1>2, <1>3 DEF InsertToken, rows
  <2>2. req[r].account \in Users
    BY <1>1, <1>2 DEF Knows
  <2>3. /\ req' \in [Requests -> Request] /\ started' \in 0 .. MaxRequests
        /\ req'[r] = IdleRequest /\ \A o \in Requests \ {r} : req'[o] = req[o]
    BY <1>1, <2>1, Answered
  <2>4. QED
    BY <1>2, <2>1, <2>2, <2>3, ReleaseKeeps, IdleKnows, QuietStep
<1>4. CASE ~NameTaken(req[r].account, req[r].name)
  BY <1>2, <1>4, InsertedKeeps DEF InsertToken
<1>5. QED
  BY <1>3, <1>4

LEMMA MintedKeeps ==
  ASSUME BaseInv, NEW r \in Requests, Minted(r)
  PROVE  BaseInv'
<1>1. TypeOK
  BY DEF BaseInv
<1>2. Answer(r) /\ UNCHANGED limiter /\ now' = now /\ UNCHANGED rows
  BY DEF Minted, commit
<1>3. /\ req' \in [Requests -> Request] /\ started' \in 0 .. MaxRequests
      /\ req'[r] = IdleRequest /\ \A o \in Requests \ {r} : req'[o] = req[o]
  BY <1>1, <1>2, Answered
<1>4. QED
  BY <1>1, <1>2, <1>3, SameTables, IdleKnows, QuietStep

-----------------------------------------------------------------------------
(* Logout and the other sessions.                                          *)

LEMMA LogoutKeeps ==
  ASSUME BaseInv, NEW r \in Requests, Logout(r)
  PROVE  BaseInv'
<1>1. PICK s \in Sessions \ Fresh(sessions) :
        /\ Start(r, [IdleRequest EXCEPT !.pc = "leaving", !.op = "logout", !.cred = s])
        /\ UNCHANGED <<now, limiter, rows>>
  BY DEF Logout
<1> DEFINE q == [IdleRequest EXCEPT !.pc = "leaving", !.op = "logout", !.cred = s]
<1>2. s \in Sessions /\ sessions[s].state # "unused"
  BY DEF Fresh, BaseInv, TypeOK
<1>3. q \in Request /\ q.pc = "leaving" /\ q.op = "logout" /\ q.cred = s
  BY <1>2 DEF IdleRequest, Request, Pcs
<1>4. Start(r, q)
  BY <1>1
<1> HIDE DEF q
<1>5. QED
  BY <1>1, <1>2, <1>3, <1>4, BeginKeeps

\* Revoking sessions: none becomes valid, and the revoked ones are not.
LEMMA RevokedRows ==
  ASSUME TypeOK, RowsInv, NEW S \in SUBSET Sessions, RevokeRows(S),
         \A s \in S : sessions[s].state # "unused",
         now' = now, active' = active, tokens' = tokens
  PROVE  /\ sessions' \in [Sessions -> Session]
         /\ RowsInv' /\ SessionsFollow
         /\ \A s \in S : sessions'[s].state # "unused" /\ ~SessionValid(s)'
<1>1. sessions \in [Sessions -> Session]
  BY DEF TypeOK
<1>2. ASSUME NEW s \in Sessions
      PROVE  /\ [sessions[s] EXCEPT !.state = "revoked"] \in Session
             /\ [sessions[s] EXCEPT !.state = "revoked"].state = "revoked"
             /\ [sessions[s] EXCEPT !.state = "revoked"].user = sessions[s].user
             /\ [sessions[s] EXCEPT !.state = "revoked"].expires = sessions[s].expires
  BY <1>1 DEF Session
<1>3. sessions' = [s \in Sessions |-> IF s \in S THEN [sessions[s] EXCEPT !.state = "revoked"]
                                      ELSE sessions[s]]
  BY DEF RevokeRows
<1>4. sessions' \in [Sessions -> Session]
  BY <1>1, <1>2, <1>3
<1>5. ASSUME NEW s \in Sessions
      PROVE  /\ sessions'[s].user = sessions[s].user
             /\ sessions'[s].expires = sessions[s].expires
             /\ s \in S => sessions'[s].state = "revoked"
             /\ s \notin S => sessions'[s].state = sessions[s].state
  BY <1>2, <1>3
<1>6. RowsInv'
  BY <1>5 DEF RowsInv
<1>7. SessionsFollow
  BY <1>5 DEF SessionsFollow, SessionValid
<1>8. \A s \in S : sessions'[s].state # "unused" /\ ~SessionValid(s)'
  BY <1>5 DEF SessionValid
<1>9. QED
  BY <1>4, <1>6, <1>7, <1>8

\* A step that ends a request and revokes sessions.
LEMMA RevokingStep ==
  ASSUME BaseInv, NEW r \in Requests, NEW S \in SUBSET Sessions, RevokeRows(S),
         \A s \in S : sessions[s].state # "unused",
         loggedOut' \in SUBSET Sessions, loggedOut' \ loggedOut \subseteq S,
         Answer(r), UNCHANGED <<now, limiter, active, tokens>>
  PROVE  BaseInv'
<1>1. TypeOK /\ RowsInv
  BY DEF BaseInv
<1>2. /\ now' = now /\ active' = active /\ tokens' = tokens /\ UNCHANGED limiter
  OBVIOUS
<1>3. /\ sessions' \in [Sessions -> Session]
      /\ RowsInv' /\ SessionsFollow
      /\ \A s \in S : sessions'[s].state # "unused" /\ ~SessionValid(s)'
  BY <1>1, <1>2, RevokedRows
<1>4. /\ req' \in [Requests -> Request] /\ started' \in 0 .. MaxRequests
      /\ req'[r] = IdleRequest /\ \A o \in Requests \ {r} : req'[o] = req[o]
  BY <1>1, Answered
<1>5. TypeOK'
  BY <1>1, <1>2, <1>3, <1>4 DEF TypeOK, WithinCeiling, Kept, limiter
<1>6. TokensFollow(r)
  BY <1>2 DEF TokensFollow
<1>7. Knows(r)' /\ req'[r].pc # "minted"
  BY <1>4, IdleKnows
<1>8. QED
  BY <1>3, <1>4, <1>5, <1>6, <1>7, StepKeeps

LEMMA RevokeKeeps ==
  ASSUME BaseInv, NEW r \in Requests, Revoke(r)
  PROVE  BaseInv'
<1>1. TypeOK /\ Knows(r)
  BY DEF BaseInv
<1>2. /\ req[r].pc = "leaving" /\ UNCHANGED <<now, limiter, active, tokens>>
  BY DEF Revoke
<1>3. req[r].cred \in Sessions /\ sessions[req[r].cred].state # "unused"
  BY <1>1, <1>2 DEF Knows
<1>4. CASE SessionValid(req[r].cred)
  <2>1. /\ RevokeRows({req[r].cred}) /\ Answer(r)
        /\ loggedOut' = loggedOut \union {req[r].cred}
    BY <1>4 DEF Revoke
  <2>2. /\ loggedOut' \in SUBSET Sessions
        /\ loggedOut' \ loggedOut \subseteq {req[r].cred}
    BY <1>1, <1>3, <2>1 DEF TypeOK
  <2>3. QED
    BY <1>2, <1>3, <2>1, <2>2, RevokingStep
<1>5. CASE ~SessionValid(req[r].cred)
  <2>1. Continue(r, "counting") /\ UNCHANGED <<sessions, loggedOut>>
    BY <1>5 DEF Revoke
  <2>2. "counting" \in Pcs
    BY DEF Pcs
  <2>3. /\ req' \in [Requests -> Request] /\ started' \in 0 .. MaxRequests
        /\ req'[r].pc = "counting" /\ req'[r].cred = req[r].cred
        /\ req'[r].op = req[r].op
        /\ \A o \in Requests \ {r} : req'[o] = req[o]
    BY <1>1, <2>1, <2>2, Continued
  <2>4. Knows(r)' /\ req'[r].pc # "minted"
    BY <1>1, <1>2, <1>3, <1>5, <2>1, <2>3 DEF Knows, Trying, SessionValid
  <2>5. UNCHANGED rows /\ UNCHANGED limiter /\ now' = now
    BY <1>2, <2>1 DEF rows
  <2>6. QED
    BY <1>1, <2>3, <2>4, <2>5, SameTables, QuietStep
<1>6. QED
  BY <1>4, <1>5

LEMMA CountSessionsKeeps ==
  ASSUME BaseInv, NEW r \in Requests, CountSessions(r)
  PROVE  BaseInv'
<1>1. TypeOK /\ Knows(r) /\ RowsInv
  BY DEF BaseInv
<1>2. /\ req[r].pc = "counting" /\ Answer(r) /\ now' = now /\ UNCHANGED limiter
      /\ active' = active /\ sessions' = sessions /\ tokens' = tokens
      /\ loggedOut' \subseteq loggedOut \union {req[r].cred}
  BY DEF CountSessions
<1>3. /\ req[r].cred \in Sessions /\ sessions[req[r].cred].state # "unused"
      /\ ~SessionValid(req[r].cred)
  BY <1>1, <1>2 DEF Knows
<1>4. /\ req' \in [Requests -> Request] /\ started' \in 0 .. MaxRequests
      /\ req'[r] = IdleRequest /\ \A o \in Requests \ {r} : req'[o] = req[o]
  BY <1>1, <1>2, Answered
<1>5. TypeOK'
  BY <1>1, <1>2, <1>3, <1>4 DEF TypeOK, WithinCeiling, Kept, limiter
<1>6. RowsInv'
  BY <1>1, <1>2 DEF RowsInv
<1>7. \A s \in Sessions : ~SessionValid(s) => ~SessionValid(s)'
  BY <1>2 DEF SessionValid
<1>8. SessionsFollow
  BY <1>2, <1>7 DEF SessionsFollow
<1>9. TokensFollow(r)
  BY <1>2 DEF TokensFollow
<1>10. ASSUME NEW s \in loggedOut' \ loggedOut
       PROVE  sessions'[s].state # "unused" /\ ~SessionValid(s)'
  <2>1. s = req[r].cred /\ s \in Sessions /\ ~SessionValid(s)
    BY <1>2, <1>3
  <2>2. QED
    BY <1>2, <1>3, <1>7, <2>1
<1>11. Knows(r)' /\ req'[r].pc # "minted"
  BY <1>4, IdleKnows
<1>12. QED
  BY <1>4, <1>5, <1>6, <1>8, <1>9, <1>10, <1>11, StepKeeps

LEMMA BeginOthersKeeps ==
  ASSUME BaseInv, NEW r \in Requests, BeginOthers(r)
  PROVE  BaseInv'
<1>1. PICK s \in Sessions :
        /\ SessionValid(s)
        /\ Start(r, [IdleRequest EXCEPT !.pc = "acting", !.op = "others", !.cred = s,
                       !.account = sessions[s].user])
        /\ UNCHANGED <<now, limiter, rows>>
  BY DEF BeginOthers
<1> DEFINE q == [IdleRequest EXCEPT !.pc = "acting", !.op = "others", !.cred = s,
                   !.account = sessions[s].user]
<1>2. sessions[s].user \in Users /\ sessions[s].user \in Accounts
  BY <1>1, ValidHasUser, AccessAssumption
<1>3. q \in Request /\ q.pc = "acting" /\ q.op = "others"
  BY <1>2 DEF IdleRequest, Request, Pcs
<1>4. Start(r, q)
  BY <1>1
<1> HIDE DEF q
<1>5. QED
  BY <1>1, <1>3, <1>4, BeginKeeps

LEMMA RevokeOthersKeeps ==
  ASSUME BaseInv, NEW r \in Requests, RevokeOthers(r)
  PROVE  BaseInv'
<1>1. /\ RevokeRows(OthersOf(r)) /\ Answer(r)
      /\ UNCHANGED <<now, limiter, active, tokens, loggedOut>>
  BY DEF RevokeOthers
<1>2. /\ OthersOf(r) \in SUBSET Sessions
      /\ \A s \in OthersOf(r) : sessions[s].state # "unused"
  BY DEF OthersOf, Listed
<1>3. loggedOut' \in SUBSET Sessions /\ loggedOut' \ loggedOut \subseteq OthersOf(r)
  BY <1>1 DEF BaseInv, TypeOK
<1>4. QED
  BY <1>1, <1>2, <1>3, RevokingStep

-----------------------------------------------------------------------------
(* Revoking tokens.                                                        *)

LEMMA BeginRevokeKeeps ==
  ASSUME BaseInv, NEW r \in Requests, BeginRevoke(r)
  PROVE  BaseInv'
<1>1. PICK c \in Sessions \union Tokens, k \in Tokens \ Fresh(tokens) :
        /\ \/ c \in Sessions /\ SessionValid(c)
           \/ c \in Tokens /\ TokenValid(c)
        /\ Start(r, [IdleRequest EXCEPT !.pc = IF c \in Sessions THEN "acting" ELSE "touching",
                       !.op = "revoke", !.cred = c, !.new = k,
                       !.account = IF c \in Sessions THEN sessions[c].user
                                   ELSE tokens[c].user])
        /\ UNCHANGED <<now, limiter, rows>>
  BY DEF BeginRevoke
<1> DEFINE pc == IF c \in Sessions THEN "acting" ELSE "touching"
           user == IF c \in Sessions THEN sessions[c].user ELSE tokens[c].user
           q == [IdleRequest EXCEPT !.pc = pc, !.op = "revoke", !.cred = c, !.new = k,
                                    !.account = user]
<1>2. k \in Tokens /\ tokens[k].state # "unused"
  BY DEF Fresh, BaseInv, TypeOK
<1>3. c \in Tokens => c \notin Sessions
  BY AccessAssumption
<1>4. /\ user \in Users
      /\ c \notin Sessions => c \in Tokens /\ tokens[c].state # "unused"
  BY <1>1, <1>3, ValidHasUser DEF TokenValid, BaseInv, RowsInv
<1>5. user \in Accounts
  BY <1>4, AccessAssumption
<1>6. pc \in {"acting", "touching"} /\ (pc = "touching" => c \notin Sessions)
  OBVIOUS
<1>7. Start(r, q)
  BY <1>1
<1> HIDE DEF pc, user
<1>8. /\ q \in Request /\ q.pc = pc /\ q.op = "revoke" /\ q.cred = c /\ q.new = k
  BY <1>2, <1>5, <1>6 DEF IdleRequest, Request, Pcs
<1> HIDE DEF q
<1>9. QED
  BY <1>1, <1>2, <1>4, <1>6, <1>7, <1>8, BeginKeeps

\* A step that writes one token and keeps its user and its slot.
LEMMA TokenStep ==
  ASSUME BaseInv, NEW r \in Requests, NEW k \in Tokens, NEW row \in Token,
         tokens[k].state # "unused", tokens' = [tokens EXCEPT ![k] = row],
         row.state # "unused", row.user = tokens[k].user,
         row.minted = tokens[k].minted, tokens[k].lost => row.lost,
         row.lost => tokens[k].lost \/ (req[r].pc = "minted" /\ req[r].new = k),
         byIp' \in [Ips -> SUBSET Entries], WithinCeiling(byIp'),
         byAccount' \in [Accounts -> SUBSET Entries], WithinCeiling(byAccount'),
         byMinter' \in [Users -> SUBSET Entries], WithinCeiling(byMinter'),
         req' \in [Requests -> Request], started' \in 0 .. MaxRequests,
         \A q \in Requests \ {r} : req'[q] = req[q],
         now' = now, active' = active, sessions' = sessions, loggedOut' = loggedOut,
         req'[r].pc # "minted", tokens'[k].state # "unused" => Knows(r)'
  PROVE  BaseInv'
<1>1. TypeOK /\ RowsInv
  BY DEF BaseInv
<1>2. /\ tokens' \in [Tokens -> Token] /\ tokens'[k] = row
      /\ \A o \in Tokens \ {k} : tokens'[o] = tokens[o]
  BY <1>1 DEF TypeOK
<1>3. TypeOK'
  BY <1>1, <1>2 DEF TypeOK, WithinCeiling, Kept
<1>4. RowsInv'
  <2>1. \A s \in Sessions : sessions'[s].state # "unused" => sessions'[s].user \in Users
    BY <1>1 DEF RowsInv
  <2>2. \A o \in Tokens : tokens'[o].state # "unused" =>
          tokens'[o].user \in Users /\ tokens'[o].minted \in Instants
    BY <1>1, <1>2 DEF RowsInv
  <2>3. QED
    BY <2>1, <2>2 DEF RowsInv
<1>5. SessionsFollow
  BY DEF SessionsFollow, SessionValid
<1>6. TokensFollow(r)
  BY <1>2 DEF TokensFollow
<1>7. Knows(r)'
  BY <1>2
<1>8. QED
  BY <1>3, <1>4, <1>5, <1>6, <1>7, StepKeeps

LEMMA TouchKeeps ==
  ASSUME BaseInv, NEW r \in Requests, Touch(r)
  PROVE  BaseInv'
<1>1. TypeOK /\ Knows(r)
  BY DEF BaseInv
<1>2. /\ req[r].pc = "touching" /\ now' = now /\ UNCHANGED limiter /\ active' = active
      /\ sessions' = sessions /\ loggedOut' = loggedOut /\ Continue(r, "acting")
      /\ tokens' = [tokens EXCEPT ![req[r].cred].used = Touched(req[r].cred)]
  BY DEF Touch
<1> DEFINE k == req[r].cred
           row == [tokens[k] EXCEPT !.used = Touched(k)]
<1>3. k \in Tokens /\ tokens[k].state # "unused"
  BY <1>1, <1>2 DEF Knows
<1>4. /\ tokens \in [Tokens -> Token] /\ now \in Instants
  BY <1>1 DEF TypeOK
<1>5. tokens[k] \in Token
  BY <1>3, <1>4
<1>6. Touched(k) \in Instants \union {None}
  BY <1>4, <1>5 DEF Touched, Token
<1>7. row \in Token
  BY <1>5, <1>6 DEF Token
<1>8. /\ row.state = tokens[k].state /\ row.user = tokens[k].user
      /\ row.minted = tokens[k].minted /\ row.lost = tokens[k].lost
  BY <1>5 DEF Token
<1>9. tokens' = [tokens EXCEPT ![k] = row]
  BY <1>2, <1>4
<1>10. "acting" \in Pcs
  BY DEF Pcs
<1>11. /\ req' \in [Requests -> Request] /\ started' \in 0 .. MaxRequests
       /\ req'[r].pc = "acting" /\ req'[r].op = req[r].op /\ req'[r].new = req[r].new
       /\ \A o \in Requests \ {r} : req'[o] = req[o]
  BY <1>1, <1>2, <1>10, Continued
<1> HIDE DEF k, row
<1>12. tokens' \in [Tokens -> Token] /\ tokens'[k] = row
       /\ \A o \in Tokens \ {k} : tokens'[o] = tokens[o]
  BY <1>3, <1>4, <1>7, <1>9
<1>13. Knows(r)'
  <2>1. req[r].op = "revoke" => req[r].new \in Tokens /\ tokens'[req[r].new].state # "unused"
    BY <1>1, <1>2, <1>3, <1>8, <1>12 DEF Knows
  <2>2. QED
    BY <1>11, <2>1 DEF Knows, Trying
<1>14. /\ byIp' \in [Ips -> SUBSET Entries] /\ WithinCeiling(byIp')
       /\ byAccount' \in [Accounts -> SUBSET Entries] /\ WithinCeiling(byAccount')
       /\ byMinter' \in [Users -> SUBSET Entries] /\ WithinCeiling(byMinter')
  BY <1>1, <1>2, SameTables
<1>15. req'[r].pc # "minted"
  BY <1>11
<1>16. /\ row.state # "unused"
       /\ tokens[k].lost => row.lost
       /\ row.lost => tokens[k].lost \/ (req[r].pc = "minted" /\ req[r].new = k)
  BY <1>3, <1>8
<1>17. QED
  BY <1>2, <1>3, <1>7, <1>8, <1>9, <1>11, <1>13, <1>14, <1>15, <1>16, TokenStep

LEMMA RevokeTokenKeeps ==
  ASSUME BaseInv, NEW r \in Requests, RevokeToken(r)
  PROVE  BaseInv'
<1>1. TypeOK /\ Knows(r)
  BY DEF BaseInv
<1>2. /\ req[r].pc = "acting" /\ req[r].op = "revoke" /\ now' = now /\ UNCHANGED limiter
      /\ active' = active /\ sessions' = sessions /\ loggedOut' = loggedOut /\ Answer(r)
      /\ tokens' = [tokens EXCEPT ![req[r].new].state =
                      IF tokens[req[r].new].user = req[r].account THEN "revoked" ELSE @]
  BY DEF RevokeToken
<1> DEFINE k == req[r].new
           state == IF tokens[k].user = req[r].account THEN "revoked" ELSE tokens[k].state
           row == [tokens[k] EXCEPT !.state = state]
<1>3. k \in Tokens /\ tokens[k].state # "unused"
  BY <1>1, <1>2 DEF Knows
<1>4. tokens \in [Tokens -> Token]
  BY <1>1 DEF TypeOK
<1>5. tokens[k] \in Token
  BY <1>3, <1>4
<1>6. state \in {"unused", "live", "revoked"} /\ state # "unused"
  BY <1>3, <1>5 DEF Token
<1>7. tokens' = [tokens EXCEPT ![k] = row]
  BY <1>2, <1>3, <1>4
<1> HIDE DEF state
<1>8. row \in Token /\ row.state # "unused"
  BY <1>5, <1>6 DEF Token
<1>9. /\ row.user = tokens[k].user
      /\ row.minted = tokens[k].minted /\ row.lost = tokens[k].lost
  BY <1>5 DEF Token
<1>10. /\ req' \in [Requests -> Request] /\ started' \in 0 .. MaxRequests
       /\ req'[r] = IdleRequest /\ \A o \in Requests \ {r} : req'[o] = req[o]
  BY <1>1, <1>2, Answered
<1>11. /\ byIp' \in [Ips -> SUBSET Entries] /\ WithinCeiling(byIp')
       /\ byAccount' \in [Accounts -> SUBSET Entries] /\ WithinCeiling(byAccount')
       /\ byMinter' \in [Users -> SUBSET Entries] /\ WithinCeiling(byMinter')
  BY <1>1, <1>2, SameTables
<1>12. Knows(r)' /\ req'[r].pc # "minted"
  BY <1>10, IdleKnows
<1> HIDE DEF k, row
<1>13. /\ tokens[k].lost => row.lost
       /\ row.lost => tokens[k].lost \/ (req[r].pc = "minted" /\ req[r].new = k)
  BY <1>9
<1>14. QED
  BY <1>2, <1>3, <1>7, <1>8, <1>9, <1>10, <1>11, <1>12, <1>13, TokenStep

-----------------------------------------------------------------------------
(* Timeout, clock, operator and process.                                   *)

LEMMA TimeoutKeeps ==
  ASSUME BaseInv, NEW r \in Requests, Timeout(r)
  PROVE  BaseInv'
<1>1. TypeOK /\ Knows(r)
  BY DEF BaseInv
<1>2. /\ Answer(r) /\ now' = now /\ active' = active /\ sessions' = sessions
      /\ loggedOut' = loggedOut
  BY DEF Timeout
<1>3. /\ req' \in [Requests -> Request] /\ started' \in 0 .. MaxRequests
      /\ req'[r] = IdleRequest /\ \A o \in Requests \ {r} : req'[o] = req[o]
  BY <1>1, <1>2, Answered
<1>4. /\ byIp' \in [Ips -> SUBSET Entries] /\ WithinCeiling(byIp')
      /\ byAccount' \in [Accounts -> SUBSET Entries] /\ WithinCeiling(byAccount')
      /\ byMinter' \in [Users -> SUBSET Entries] /\ WithinCeiling(byMinter')
  <2>1. CASE req[r].pc \in {"minting", "minted"}
    <3>1. Release(r) /\ req[r].account \in Users
      BY <1>1, <2>1 DEF Timeout, Knows
    <3>2. QED
      BY <3>1, ReleaseKeeps
  <2>2. CASE req[r].pc \notin {"minting", "minted"}
    BY <1>1, <2>2, SameTables DEF Timeout
  <2>3. QED
    BY <2>1, <2>2
<1>5. Knows(r)' /\ req'[r].pc # "minted"
  BY <1>3, IdleKnows
<1>6. CASE req[r].pc # "minted"
  <2>1. UNCHANGED rows
    BY <1>2, <1>6 DEF Timeout, rows
  <2>2. QED
    BY <1>2, <1>3, <1>4, <1>5, <2>1, QuietStep
<1>7. CASE req[r].pc = "minted"
  <2> DEFINE k == req[r].new
             row == [tokens[k] EXCEPT !.lost = TRUE]
  <2>1. k \in Tokens /\ tokens[k].state # "unused"
    BY <1>1, <1>7 DEF Knows, Inserted
  <2>2. tokens \in [Tokens -> Token]
    BY <1>1 DEF TypeOK
  <2>3. tokens[k] \in Token
    BY <2>1, <2>2
  <2>4. row \in Token
    BY <2>3 DEF Token
  <2>5. /\ row.state = tokens[k].state /\ row.user = tokens[k].user
        /\ row.minted = tokens[k].minted
    BY <2>3 DEF Token
  <2>6. row.lost
    BY <2>3 DEF Token
  <2>7. tokens' = [tokens EXCEPT ![k] = row]
    BY <1>7, <2>2 DEF Timeout
  <2> HIDE DEF row
  <2>8. QED
    BY <1>2, <1>3, <1>4, <1>5, <1>7, <2>1, <2>4, <2>5, <2>6, <2>7, TokenStep
<1>8. QED
  BY <1>6, <1>7

\* A step that leaves rows and handlers alone, but for who is active and for
\* the time, makes no session valid.
LEMMA SystemStep ==
  ASSUME BaseInv, TypeOK', sessions' = sessions, tokens' = tokens, req' = req,
         loggedOut' = loggedOut,
         \A s \in Sessions : sessions[s].state # "unused" =>
           (~SessionValid(s) => ~SessionValid(s)')
  PROVE  BaseInv'
<1>1. RowsInv'
  BY DEF BaseInv, RowsInv
<1>2. ASSUME NEW q \in Requests
      PROVE  Knows(q)'
  <2>1. Knows(q)
    BY DEF BaseInv
  <2>2. req[q].pc = "counting" => ~SessionValid(req[q].cred)'
    <3>1. ASSUME req[q].pc = "counting"
          PROVE  ~(SessionValid(req[q].cred)')
      <4>1. PICK s \in Sessions : s = req[q].cred
        BY <2>1, <3>1 DEF Knows
      <4>2. sessions[s].state # "unused" /\ ~SessionValid(s)
        BY <2>1, <3>1, <4>1 DEF Knows
      <4>3. ~SessionValid(s)' /\ req'[q].cred = s
        BY <4>1, <4>2
      <4>4. QED
        BY <4>3 DEF SessionValid
    <3>2. QED
      BY <3>1
  <2>3. QED
    BY <2>1, <2>2 DEF Knows, Trying, Inserted
<1>3. LoggedOutInv'
  BY DEF BaseInv, TypeOK, LoggedOutInv
<1>4. MintedApart'
  BY DEF BaseInv, MintedApart
<1>5. QED
  BY <1>1, <1>2, <1>3, <1>4 DEF BaseInv

LEMMA TickKeeps ==
  ASSUME BaseInv, Tick
  PROVE  BaseInv'
<1>1. TypeOK
  BY DEF BaseInv
<1>2. /\ now < Horizon /\ now' = now + 1 /\ UNCHANGED limiter /\ UNCHANGED rows
      /\ req' = req /\ started' = started
  BY DEF Tick
<1>3. now \in Nat /\ now' \in Instants
  BY <1>1, <1>2, BudgetsAreNumbers DEF TypeOK, Instants
<1>4. /\ active' = active /\ sessions' = sessions /\ tokens' = tokens
      /\ loggedOut' = loggedOut
  BY <1>2 DEF rows
<1>5. TypeOK'
  BY <1>1, <1>2, <1>3, <1>4 DEF TypeOK, WithinCeiling, Kept, limiter
<1>6. ASSUME NEW s \in Sessions, ~SessionValid(s)
      PROVE  ~SessionValid(s)'
  <2>1. sessions[s].expires \in Nat
    BY <1>1 DEF TypeOK, Session
  <2>2. QED
    BY <1>2, <1>3, <1>4, <1>6, <2>1 DEF SessionValid
<1>7. QED
  BY <1>2, <1>4, <1>5, <1>6, SystemStep

LEMMA DeactivateKeeps ==
  ASSUME BaseInv, NEW u \in Users, Deactivate(u)
  PROVE  BaseInv'
<1>1. TypeOK /\ RowsInv
  BY DEF BaseInv
<1>2. /\ active' = [active EXCEPT ![u] = FALSE] /\ now' = now /\ UNCHANGED limiter
      /\ sessions' = sessions /\ tokens' = tokens /\ loggedOut' = loggedOut
      /\ req' = req /\ started' = started
  BY DEF Deactivate
<1>3. active' \in [Users -> BOOLEAN] /\ \A v \in Users : active'[v] => active[v]
  BY <1>1, <1>2 DEF TypeOK
<1>4. TypeOK'
  BY <1>1, <1>2, <1>3 DEF TypeOK, WithinCeiling, Kept, limiter
<1>5. ASSUME NEW s \in Sessions, sessions[s].state # "unused", ~SessionValid(s)
      PROVE  ~SessionValid(s)'
  <2>1. sessions[s].user \in Users
    BY <1>1, <1>5 DEF RowsInv
  <2>2. active'[sessions[s].user] => active[sessions[s].user]
    BY <1>3, <2>1
  <2>3. QED
    BY <1>2, <1>5, <2>2 DEF SessionValid
<1>6. QED
  BY <1>2, <1>4, <1>5, SystemStep

LEMMA RestartKeeps ==
  ASSUME BaseInv, Restart
  PROVE  BaseInv'
<1>1. TypeOK /\ RowsInv /\ LoggedOutInv
  BY DEF BaseInv
<1>2. /\ byIp' = [i \in Ips |-> {}] /\ byAccount' = [a \in Accounts |-> {}]
      /\ byMinter' = [u \in Users |-> {}]
      /\ req' = [r \in Requests |-> IdleRequest]
      /\ now' = now /\ active' = active /\ sessions' = sessions
      /\ loggedOut' = loggedOut /\ started' = started
      /\ tokens' = [k \in Tokens |-> IF tokens[k].minted = None THEN tokens[k]
                                     ELSE [tokens[k] EXCEPT !.lost = TRUE]]
  BY DEF Restart
<1>3. \A k \in Tokens : tokens[k] \in Token
  BY <1>1 DEF TypeOK
<1>4. ASSUME NEW k \in Tokens
      PROVE  /\ [tokens[k] EXCEPT !.lost = TRUE] \in Token
             /\ [tokens[k] EXCEPT !.lost = TRUE].state = tokens[k].state
             /\ [tokens[k] EXCEPT !.lost = TRUE].user = tokens[k].user
             /\ [tokens[k] EXCEPT !.lost = TRUE].minted = tokens[k].minted
  BY <1>3 DEF Token
<1>5. tokens' \in [Tokens -> Token]
  BY <1>2, <1>3, <1>4
<1>6. \A k \in Tokens : /\ tokens'[k].state = tokens[k].state
                        /\ tokens'[k].user = tokens[k].user
                        /\ tokens'[k].minted = tokens[k].minted
  BY <1>2, <1>4
<1>7. req' \in [Requests -> Request] /\ \A r \in Requests : req'[r] = IdleRequest
  BY <1>2, IdleIsRequest
<1>8. TypeOK'
  BY <1>1, <1>2, <1>5, <1>7, EmptyTable DEF TypeOK
<1>9. RowsInv'
  BY <1>1, <1>2, <1>6 DEF RowsInv
<1>10. \A r \in Requests : Knows(r)'
  BY <1>7, IdleKnows
<1>11. LoggedOutInv'
  BY <1>1, <1>2 DEF LoggedOutInv, SessionValid
<1>12. MintedApart'
  BY <1>7, IdleIsRequest DEF MintedApart
<1>13. QED
  BY <1>8, <1>9, <1>10, <1>11, <1>12 DEF BaseInv

LEMMA StutterKeeps ==
  ASSUME BaseInv, UNCHANGED vars
  PROVE  BaseInv'
<1>1. /\ now' = now /\ byIp' = byIp /\ byAccount' = byAccount /\ byMinter' = byMinter
      /\ active' = active /\ sessions' = sessions /\ tokens' = tokens
      /\ loggedOut' = loggedOut /\ req' = req /\ started' = started
  BY DEF vars
<1>2. TypeOK'
  BY <1>1 DEF BaseInv, TypeOK, WithinCeiling, Kept
<1>3. \A s \in Sessions : ~SessionValid(s) => ~SessionValid(s)'
  BY <1>1 DEF SessionValid
<1>4. QED
  BY <1>1, <1>2, <1>3, SystemStep

LEMMA InitIsInOrder ==
  ASSUME Init
  PROVE  BaseInv
<1>1. PICK tables \in Past : byIp = tables.ip /\ byAccount = tables.account
  BY DEF Init
<1>2. /\ byIp \in [Ips -> SUBSET Entries] /\ WithinCeiling(byIp)
      /\ byAccount \in [Accounts -> SUBSET Entries] /\ WithinCeiling(byAccount)
  BY <1>1, PastAssumption
<1>3. byMinter \in [Users -> SUBSET Entries] /\ WithinCeiling(byMinter)
  BY EmptyTable DEF Init
<1>4. /\ now = Dawn /\ active = [u \in Users |-> TRUE]
      /\ sessions = [s \in Sessions |-> NoSession] /\ tokens = [k \in Tokens |-> NoToken]
      /\ loggedOut = {} /\ req = [r \in Requests |-> IdleRequest] /\ started = 0
  BY DEF Init
<1>5. now \in Instants /\ MaxRequests \in Nat
  BY <1>4, AccessAssumption DEF Instants
<1>6. NoSession \in Session /\ NoSession.state = "unused"
  BY DEF NoSession, Session
<1>7. NoToken \in Token /\ NoToken.state = "unused"
  BY DEF NoToken, Token
<1>8. TypeOK
  BY <1>2, <1>3, <1>4, <1>5, <1>6, <1>7, IdleIsRequest DEF TypeOK
<1>9. RowsInv
  BY <1>4, <1>6, <1>7 DEF RowsInv
<1>10. \A r \in Requests : Knows(r)
  BY <1>4 DEF Knows, IdleRequest, Trying
<1>11. LoggedOutInv /\ MintedApart
  BY <1>4, IdleIsRequest DEF LoggedOutInv, MintedApart
<1>12. QED
  BY <1>8, <1>9, <1>10, <1>11 DEF BaseInv

LEMMA BaseStep ==
  ASSUME BaseInv, [Next]_vars
  PROVE  BaseInv'
<1>1. CASE \E r \in Requests : Step(r)
  <2>1. PICK r \in Requests : Step(r)
    BY <1>1
  <2>2. QED
    BY <2>1, LoginKeeps, RefuseKeeps, VerifyKeeps, RecordFailureKeeps, InsertSessionKeeps,
       LoggedInKeeps, BeginMintKeeps, ReserveKeeps, InsertTokenKeeps, MintedKeeps,
       LogoutKeeps, RevokeKeeps, CountSessionsKeeps, BeginOthersKeeps,
       RevokeOthersKeeps, BeginRevokeKeeps, TouchKeeps, RevokeTokenKeeps,
       TimeoutKeeps DEF Step
<1>2. CASE \E u \in Users : Deactivate(u)
  BY <1>2, DeactivateKeeps
<1>3. CASE Tick
  BY <1>3, TickKeeps
<1>4. CASE Restart
  BY <1>4, RestartKeeps
<1>5. CASE UNCHANGED vars
  BY <1>5, StutterKeeps
<1>6. QED
  BY <1>1, <1>2, <1>3, <1>4, <1>5 DEF Next

LEMMA BaseAlways == Spec => []BaseInv
<1>1. Init => BaseInv
  BY InitIsInOrder
<1>2. BaseInv /\ [Next]_vars => BaseInv'
  BY BaseStep
<1>3. QED
  BY <1>1, <1>2, PTL DEF Spec

-----------------------------------------------------------------------------
(* A logout is final.                                                      *)

\* Once a logout has been answered 204, its session is not listed and never
\* authenticates again, although logout decides in two statements.
THEOREM LogoutFinal == Spec => []LogoutIsFinal
<1>1. BaseInv => LogoutIsFinal
  <2>1. SUFFICES ASSUME BaseInv PROVE LogoutIsFinal
    OBVIOUS
  <2>2. ASSUME NEW s \in loggedOut, NEW u \in Users, active[u]
        PROVE  s \notin Listed(u)
    <3>1. ~SessionValid(s)
      BY <2>1 DEF BaseInv, LoggedOutInv
    <3>2. QED
      BY <2>2, <3>1 DEF Listed, SessionValid
  <2>3. QED
    BY <2>1, <2>2 DEF LogoutIsFinal, BaseInv, LoggedOutInv
<1>2. QED
  BY <1>1, BaseAlways, PTL

-----------------------------------------------------------------------------
(* Who tries, and from where.                                              *)

\* A login that is under way was under way before, from the same client.
TriesFollow ==
  \A q \in Requests :
    req'[q].pc \in Trying =>
      /\ req[q].pc \in Trying
      /\ req'[q].ip = req[q].ip /\ req'[q].account = req[q].account
LoginsFollow ==
  /\ \A q \in Requests :
       req'[q].op = "login" =>
         /\ req[q].op = "login"
         /\ req'[q].ip = req[q].ip /\ req'[q].from = req[q].from
  /\ TriesFollow

\* It is enough to look at the request that took the step.
LEMMA LoginFollows ==
  ASSUME NEW r \in Requests, \A q \in Requests \ {r} : req'[q] = req[q],
         req'[r].op = "login" =>
           /\ req[r].op = "login"
           /\ req'[r].ip = req[r].ip /\ req'[r].from = req[r].from,
         req'[r].pc \in Trying =>
           /\ req[r].pc \in Trying
           /\ req'[r].ip = req[r].ip /\ req'[r].account = req[r].account
  PROVE  LoginsFollow
BY DEF LoginsFollow, TriesFollow

LEMMA AnsweredFollows ==
  ASSUME TypeOK, NEW r \in Requests, Answer(r)
  PROVE  LoginsFollow
<1>1. req'[r] = IdleRequest /\ \A o \in Requests \ {r} : req'[o] = req[o]
  BY Answered
<1>2. req'[r].op # "login" /\ req'[r].pc \notin Trying
  BY <1>1, IdleIsRequest DEF Trying
<1>3. QED
  BY <1>1, <1>2, LoginFollows

LEMMA StartedFollows ==
  ASSUME TypeOK, NEW r \in Requests, NEW q \in Request, Start(r, q),
         q.op # "login", q.pc \notin Trying
  PROVE  LoginsFollow
BY Started, LoginFollows

LEMMA ContinuedFollows ==
  ASSUME TypeOK, NEW r \in Requests, NEW pc \in Pcs, Continue(r, pc),
         pc \in Trying => req[r].pc \in Trying
  PROVE  LoginsFollow
BY Continued, LoginFollows

\* No step but login's makes an attempt.
LEMMA OnlyLoginTries ==
  ASSUME BaseInv, NEW r \in Requests, Step(r), ~Login(r)
  PROVE  LoginsFollow
<1>1. TypeOK /\ Knows(r)
  BY DEF BaseInv
<1>2. CASE Answer(r)
  BY <1>1, <1>2, AnsweredFollows
<1>3. CASE Verify(r)
  <2>1. PICK fits \in PasswordFits :
          Continue(r, IF verify_credentials(req[r].account, fits) THEN "inserting"
                      ELSE "failing")
    BY <1>3 DEF Verify
  <2> DEFINE pc == IF verify_credentials(req[r].account, fits) THEN "inserting" ELSE "failing"
  <2>2. pc \in Pcs /\ req[r].pc \in Trying
    BY <1>3 DEF Pcs, Verify, Trying
  <2> HIDE DEF pc
  <2>3. Continue(r, pc)
    BY <2>1 DEF pc
  <2>4. QED
    BY <1>1, <2>2, <2>3, ContinuedFollows
<1>4. CASE InsertSession(r)
  <2>1. "inserted" \in Pcs /\ "inserted" \notin Trying /\ Continue(r, "inserted")
    BY <1>4 DEF Pcs, Trying, InsertSession
  <2>2. QED
    BY <1>1, <2>1, ContinuedFollows
<1>5. CASE BeginMint(r)
  <2>1. PICK s \in Sessions, n \in Names :
          /\ SessionValid(s)
          /\ Start(r, [IdleRequest EXCEPT !.pc = "reserving", !.op = "mint", !.cred = s,
                         !.account = sessions[s].user, !.name = n])
    BY <1>5 DEF BeginMint
  <2> DEFINE q == [IdleRequest EXCEPT !.pc = "reserving", !.op = "mint", !.cred = s,
                     !.account = sessions[s].user, !.name = n]
  <2>2. sessions[s].user \in Accounts
    BY <2>1, ValidHasUser, AccessAssumption
  <2>3. q \in Request /\ q.op # "login" /\ q.pc \notin Trying
    BY <2>2 DEF IdleRequest, Request, Pcs, Trying
  <2>4. Start(r, q)
    BY <2>1
  <2> HIDE DEF q
  <2>5. QED
    BY <1>1, <2>3, <2>4, StartedFollows
<1>6. CASE Reserve(r)
  <2>1. CASE req' = [req EXCEPT ![r].pc = "minting", ![r].at = now] /\ started' = started
    <3>1. /\ req'[r].pc = "minting" /\ req'[r].op = req[r].op
          /\ req'[r].ip = req[r].ip /\ req'[r].from = req[r].from
          /\ \A o \in Requests \ {r} : req'[o] = req[o]
      BY <1>1, <2>1, Slotted
    <3>2. QED
      BY <3>1, LoginFollows DEF Trying
  <2>2. CASE /\ MintWait(req[r].account) # {}
             /\ req' = [req EXCEPT ![r].pc = "refused",
                                   ![r].retry = retry_after(MintWait(req[r].account))]
             /\ started' = started
    <3>1. req[r].account \in Users
      BY <1>1, <1>6 DEF Reserve, Knows
    <3>2. /\ req'[r].pc = "refused" /\ req'[r].op = req[r].op
          /\ req'[r].ip = req[r].ip /\ req'[r].from = req[r].from
          /\ \A o \in Requests \ {r} : req'[o] = req[o]
      BY <1>1, <2>2, <3>1, MintRefused
    <3>3. QED
      BY <3>2, LoginFollows DEF Trying
  <2>3. QED
    BY <1>6, <2>1, <2>2 DEF Reserve
<1>7. CASE InsertToken(r)
  <2>1. CASE ~NameTaken(req[r].account, req[r].name)
    <3>1. /\ req'[r].pc = "minted" /\ req'[r].op = req[r].op
          /\ req'[r].ip = req[r].ip /\ req'[r].from = req[r].from
          /\ \A o \in Requests \ {r} : req'[o] = req[o]
      BY <1>7, <2>1, InsertedKeeps DEF InsertToken
    <3>2. QED
      BY <3>1, LoginFollows DEF Trying
  <2>2. QED
    BY <1>2, <1>7, <2>1 DEF InsertToken
<1>8. CASE Logout(r)
  <2>1. PICK s \in Sessions \ Fresh(sessions) :
          Start(r, [IdleRequest EXCEPT !.pc = "leaving", !.op = "logout", !.cred = s])
    BY <1>8 DEF Logout
  <2> DEFINE q == [IdleRequest EXCEPT !.pc = "leaving", !.op = "logout", !.cred = s]
  <2>2. q \in Request /\ q.op # "login" /\ q.pc \notin Trying
    BY DEF IdleRequest, Request, Pcs, Trying
  <2>3. Start(r, q)
    BY <2>1
  <2> HIDE DEF q
  <2>4. QED
    BY <1>1, <2>2, <2>3, StartedFollows
<1>9. CASE Revoke(r)
  <2>1. "counting" \in Pcs /\ "counting" \notin Trying
    BY DEF Pcs, Trying
  <2>2. Answer(r) \/ Continue(r, "counting")
    BY <1>9 DEF Revoke
  <2>3. QED
    BY <1>1, <1>2, <2>1, <2>2, ContinuedFollows
<1>10. CASE BeginOthers(r)
  <2>1. PICK s \in Sessions :
          /\ SessionValid(s)
          /\ Start(r, [IdleRequest EXCEPT !.pc = "acting", !.op = "others", !.cred = s,
                         !.account = sessions[s].user])
    BY <1>10 DEF BeginOthers
  <2> DEFINE q == [IdleRequest EXCEPT !.pc = "acting", !.op = "others", !.cred = s,
                     !.account = sessions[s].user]
  <2>2. sessions[s].user \in Accounts
    BY <2>1, ValidHasUser, AccessAssumption
  <2>3. q \in Request /\ q.op # "login" /\ q.pc \notin Trying
    BY <2>2 DEF IdleRequest, Request, Pcs, Trying
  <2>4. Start(r, q)
    BY <2>1
  <2> HIDE DEF q
  <2>5. QED
    BY <1>1, <2>3, <2>4, StartedFollows
<1>11. CASE BeginRevoke(r)
  <2>1. PICK c \in Sessions \union Tokens, k \in Tokens \ Fresh(tokens) :
          /\ \/ c \in Sessions /\ SessionValid(c)
             \/ c \in Tokens /\ TokenValid(c)
          /\ Start(r, [IdleRequest EXCEPT
                         !.pc = IF c \in Sessions THEN "acting" ELSE "touching",
                         !.op = "revoke", !.cred = c, !.new = k,
                         !.account = IF c \in Sessions THEN sessions[c].user
                                     ELSE tokens[c].user])
    BY <1>11 DEF BeginRevoke
  <2> DEFINE pc == IF c \in Sessions THEN "acting" ELSE "touching"
             user == IF c \in Sessions THEN sessions[c].user ELSE tokens[c].user
             q == [IdleRequest EXCEPT !.pc = pc, !.op = "revoke", !.cred = c, !.new = k,
                                      !.account = user]
  <2>2. user \in Accounts \union {None}
    BY <1>1, AccessAssumption DEF TypeOK, Session, Token
  <2>3. pc \in {"acting", "touching"} /\ Start(r, q)
    BY <2>1
  <2> HIDE DEF pc, user
  <2>4. q \in Request /\ q.op # "login" /\ q.pc \notin Trying
    BY <2>2, <2>3 DEF IdleRequest, Request, Pcs, Trying
  <2> HIDE DEF q
  <2>5. QED
    BY <1>1, <2>3, <2>4, StartedFollows
<1>12. CASE Touch(r)
  <2>1. "acting" \in Pcs /\ "acting" \notin Trying /\ Continue(r, "acting")
    BY <1>12 DEF Pcs, Trying, Touch
  <2>2. QED
    BY <1>1, <2>1, ContinuedFollows
<1>13. CASE \/ RecordFailure(r) \/ LoggedIn(r) \/ Minted(r) \/ CountSessions(r)
            \/ RevokeOthers(r) \/ RevokeToken(r) \/ Timeout(r) \/ Refuse(r)
  BY <1>2, <1>13 DEF Refuse, RecordFailure, LoggedIn, Minted, CountSessions, RevokeOthers,
     RevokeToken, Timeout
<1>14. QED
  BY <1>3, <1>4, <1>5, <1>6, <1>7, <1>8, <1>9, <1>10, <1>11, <1>12, <1>13 DEF Step

\* Nor do the steps that are no handler's.
LEMMA SystemTriesNothing ==
  ASSUME BaseInv, Tick \/ Restart \/ (\E u \in Users : Deactivate(u)) \/ UNCHANGED vars
  PROVE  LoginsFollow
<1>1. CASE req' = req
  BY <1>1 DEF LoginsFollow, TriesFollow
<1>2. CASE Restart
  <2>1. \A r \in Requests : req'[r] = IdleRequest
    BY <1>2 DEF Restart
  <2>2. QED
    BY <2>1, IdleIsRequest DEF LoginsFollow, TriesFollow, Trying
<1>3. QED
  BY <1>1, <1>2 DEF Tick, Deactivate, vars

\* What a login that starts looks like.
LEMMA LoginStarts ==
  ASSUME BaseInv, NEW r \in Requests, Login(r)
  PROVE  /\ byIp' = prune(byIp, Window, now)
         /\ byAccount' = prune(byAccount, Window, now)
         /\ \A q \in Requests \ {r} : req'[q] = req[q]
         /\ req'[r].ip = req'[r].from
         /\ req'[r].ip \in Ips /\ req'[r].account \in Accounts
         /\ \/ req'[r].pc \notin Trying
            \/ /\ ~Full(byIp'[req'[r].ip], MaxFailures)
               /\ ~Full(byAccount'[req'[r].account], MaxAccountFailures)
<1>1. TypeOK
  BY DEF BaseInv
<1>2. byIp' = prune(byIp, Window, now) /\ byAccount' = prune(byAccount, Window, now)
  BY <1>1, LoginBegins
<1>3. PICK q \in Request :
        /\ Start(r, q)
        /\ q.ip = q.from /\ q.ip \in Ips /\ q.account \in Accounts
        /\ \/ q.pc = "selecting" /\ check_login(q.ip, q.account) = {}
           \/ q.pc = "refused"
  BY <1>1, LoginBegins
<1>4. req'[r] = q /\ \A o \in Requests \ {r} : req'[o] = req[o]
  BY <1>1, <1>3, Started
<1>5. check_login(q.ip, q.account) = {} =>
        /\ ~Full(prune(byIp, Window, now)[q.ip], MaxFailures)
        /\ ~Full(prune(byAccount, Window, now)[q.account], MaxAccountFailures)
  BY <1>1, <1>3, CheckLogin
<1>6. QED
  BY <1>2, <1>3, <1>4, <1>5 DEF Trying

\* The limiter charges the client an attempt comes from, also behind proxies
\* and whatever the client put into the header before them.
THEOREM ClientIsCharged == Spec => []ChargesTheClient
<1>1. Init => ChargesTheClient
  BY IdleIsRequest DEF Init, ChargesTheClient
<1>2. ASSUME BaseInv, ChargesTheClient, [Next]_vars
      PROVE  ChargesTheClient'
  <2>1. CASE LoginsFollow
    BY <1>2, <2>1 DEF LoginsFollow, ChargesTheClient
  <2>2. CASE \E r \in Requests : Login(r)
    <3>1. PICK r \in Requests : Login(r)
      BY <2>2
    <3>2. QED
      BY <1>2, <3>1, LoginStarts DEF ChargesTheClient
  <2>3. QED
    BY <1>2, <2>1, <2>2, OnlyLoginTries, SystemTriesNothing DEF Next
<1>3. QED
  BY <1>1, <1>2, BaseAlways, PTL DEF Spec

-----------------------------------------------------------------------------
(* How far a bucket overruns, and who leaves it early.                     *)

\* The steps that write the tables of addresses and accounts.
LEMMA WhoWritesBuckets ==
  ASSUME [Next]_vars
  PROVE  \/ byIp' = byIp /\ byAccount' = byAccount
         \/ \E r \in Requests : Login(r) \/ LoggedIn(r) \/ RecordFailure(r)
         \/ Restart
<1>1. ASSUME NEW r \in Requests, Step(r), ~Login(r), ~LoggedIn(r), ~RecordFailure(r)
      PROVE  byIp' = byIp /\ byAccount' = byAccount
  <2>1. CASE UNCHANGED limiter
    BY <2>1 DEF limiter
  <2>2. CASE Release(r)
    BY <2>2 DEF Release
  <2>3. CASE Reserve(r)
    BY <2>3 DEF Reserve
  <2>4. QED
    BY <1>1, <2>1, <2>2, <2>3 DEF Step, Refuse, Verify, InsertSession, BeginMint, InsertToken,
       Minted, commit, Logout, Revoke, CountSessions, BeginOthers, RevokeOthers,
       BeginRevoke, Touch, RevokeToken, Timeout
<1>2. CASE UNCHANGED vars
  BY <1>2 DEF vars
<1>3. CASE Tick \/ \E u \in Users : Deactivate(u)
  BY <1>3 DEF Tick, Deactivate, limiter
<1>4. QED
  BY <1>1, <1>2, <1>3 DEF Next

\* A blocked key is evicted only when every key is blocked.
LEMMA EvictsBlocked ==
  ASSUME NEW K, NEW was \in [K -> SUBSET Entries], WithinCeiling(was),
         NEW key \in K, NEW limit \in Nat \ {0}, NEW instant \in Instants,
         NEW t \in bound_keys(was, key, limit, MaxKeys),
         NEW k \in K, Full(was[k], limit), Push(t, key, instant)[k] = {}
  PROVE  \A j \in Kept(was) : Full(was[j], limit)
<1>1. was[k] # {}
  BY FS_EmptySet DEF Full
<1>2. /\ t \in [K -> SUBSET Entries] /\ WithinCeiling(t)
      /\ IsFiniteSet(Kept(t) \union {key})
      /\ Cardinality(Kept(t) \union {key}) <= MaxKeys
  BY BoundKeysMakesRoom
<1>3. k # key /\ t[k] = {}
  BY <1>2, PushAdds
<1>4. PICK v \in Victims(was, limit) : t = Without(was, v)
  BY <1>1, <1>3 DEF bound_keys
<1>5. v = k
  BY <1>1, <1>3, <1>4 DEF Without
<1>6. {j \in Kept(was) : ~Full(was[j], limit)} = {}
  BY <1>4, <1>5 DEF Victims
<1>7. QED
  BY <1>6

\* What a step that resets a blocked key of a table may be.
LEMMA BlockedKeyStays ==
  ASSUME NEW K, NEW table \in [K -> SUBSET Entries], WithinCeiling(table),
         NEW limit \in Nat \ {0}, now \in Instants, NEW next,
         NEW k \in Reset(table, next, limit),
         \/ next = table
         \/ next = prune(table, Window, now)
         \/ \E key \in K : \E t \in bound_keys(prune(table, Window, now), key, limit, MaxKeys) :
              next = Push(t, key, now)
  PROVE  AllBlocked(table, limit)
<1> DEFINE was == prune(table, Window, now)
<1>1. /\ was \in [K -> SUBSET Entries] /\ WithinCeiling(was)
      /\ \A j \in K : was[j] \subseteq table[j]
  BY PruneKeeps
<1>2. k \in K /\ Full(was[k], limit) /\ next[k] = {}
  BY DEF Reset
<1> HIDE DEF was
<1>3. was[k] # {}
  BY <1>2, FS_EmptySet DEF Full
<1>4. PICK key \in K : \E t \in bound_keys(was, key, limit, MaxKeys) :
        next = Push(t, key, now)
  BY <1>1, <1>2, <1>3 DEF was
<1>5. \A j \in Kept(was) : Full(was[j], limit)
  BY <1>1, <1>2, <1>4, EvictsBlocked
<1>6. QED
  BY <1>5 DEF AllBlocked, was

\* An address or account whose budget is used up is let in early only when every
\* key of a full table is blocked, an account also after a successful login of
\* its own; or after a restart of the process.
THEOREM BlockHolds == Spec => BlockedUntilItsWindowEnds
<1> DEFINE Step1 ==
      /\ Reset(byIp, byIp', MaxFailures) # {} => AllBlocked(byIp, MaxFailures) \/ Restart
      /\ \A a \in Reset(byAccount, byAccount', MaxAccountFailures) :
           OwnSuccess(a) \/ AllBlocked(byAccount, MaxAccountFailures) \/ Restart
<1>1. ASSUME BaseInv, [Next]_vars PROVE Step1
  <2>1. /\ byIp \in [Ips -> SUBSET Entries] /\ WithinCeiling(byIp)
        /\ byAccount \in [Accounts -> SUBSET Entries] /\ WithinCeiling(byAccount)
        /\ now \in Instants
    BY <1>1 DEF BaseInv, TypeOK
  <2>2. \/ byIp' = byIp
        \/ byIp' = prune(byIp, Window, now)
        \/ \E key \in Ips : \E t \in bound_keys(prune(byIp, Window, now), key,
                                                MaxFailures, MaxKeys) :
             byIp' = Push(t, key, now)
        \/ Restart
    <3>1. ASSUME NEW r \in Requests, RecordFailure(r)
          PROVE  \E key \in Ips : \E t \in bound_keys(prune(byIp, Window, now), key,
                                                     MaxFailures, MaxKeys) :
                   byIp' = Push(t, key, now)
      BY <1>1, <3>1, FailureCharged DEF RecordFailure
    <3>2. ASSUME NEW r \in Requests, LoggedIn(r) PROVE byIp' = byIp
      BY <3>2 DEF LoggedIn, record_success
    <3>3. QED
      BY <1>1, <3>1, <3>2, WhoWritesBuckets, LoginStarts
  <2>3. ASSUME Reset(byIp, byIp', MaxFailures) # {}, ~Restart
        PROVE  AllBlocked(byIp, MaxFailures)
    <3>1. PICK i \in Reset(byIp, byIp', MaxFailures) : TRUE
      BY <2>3
    <3>2. QED
      BY <2>1, <2>2, <2>3, <3>1, BlockedKeyStays, BudgetsAreNumbers
  <2>4. ASSUME NEW a \in Reset(byAccount, byAccount', MaxAccountFailures),
               ~OwnSuccess(a), ~Restart
        PROVE  AllBlocked(byAccount, MaxAccountFailures)
    <3> DEFINE was == prune(byAccount, Window, now)
    <3>1. /\ a \in Accounts /\ Full(was[a], MaxAccountFailures) /\ byAccount'[a] = {}
      BY <2>1 DEF Reset
    <3>2. was \in [Accounts -> SUBSET Entries]
      BY <2>1, PruneKeeps
    <3>3. ASSUME NEW r \in Requests PROVE ~LoggedIn(r)
      <4>1. SUFFICES ASSUME LoggedIn(r) PROVE FALSE
        OBVIOUS
      <4>2. byAccount' = [was EXCEPT ![req[r].account] = {}] /\ req[r].account # a
        BY <2>4, <4>1 DEF LoggedIn, record_success, OwnSuccess
      <4> HIDE DEF was
      <4>3. was[a] = {}
        BY <3>1, <3>2, <4>2
      <4>4. QED
        BY <3>1, <4>3, BudgetsAreNumbers, FS_EmptySet DEF Full
    <3>4. ASSUME NEW r \in Requests, RecordFailure(r)
          PROVE  \E key \in Accounts : \E t \in bound_keys(was, key, MaxAccountFailures, MaxKeys) :
                   byAccount' = Push(t, key, now)
      BY <1>1, <3>4, FailureCharged DEF RecordFailure
    <3>5. \/ byAccount' = byAccount
          \/ byAccount' = was
          \/ \E key \in Accounts : \E t \in bound_keys(was, key, MaxAccountFailures, MaxKeys) :
               byAccount' = Push(t, key, now)
      BY <1>1, <2>4, <3>3, <3>4, WhoWritesBuckets, LoginStarts
    <3>6. QED
      BY <2>1, <3>5, BlockedKeyStays, BudgetsAreNumbers
  <2>5. QED
    BY <2>3, <2>4
<1>2. BaseInv /\ [Next]_vars => [Step1]_vars
  BY <1>1
<1>3. QED
  BY <1>2, BaseAlways, PTL DEF Spec, BlockedUntilItsWindowEnds

\* A bucket and the attempts that may still charge it: neither grows,
LEMMA BoundKept ==
  ASSUME NEW limit \in Nat, NEW bucket, IsFiniteSet(bucket), NEW later, IsFiniteSet(later),
         NEW tried \in SUBSET Requests, NEW tries \in SUBSET Requests,
         Cardinality(bucket) + Cardinality(tried) < limit + Cardinality(Requests),
         Cardinality(later) <= Cardinality(bucket), tries \subseteq tried
  PROVE  Cardinality(later) + Cardinality(tries) < limit + Cardinality(Requests)
<1>1. IsFiniteSet(Requests)
  BY AccessAssumption
<1>2. IsFiniteSet(tried) /\ Cardinality(Requests) \in Nat
  BY <1>1, FS_Subset, FS_CardinalityType
<1>3. IsFiniteSet(tries) /\ Cardinality(tries) <= Cardinality(tried)
  BY <1>2, FS_Subset
<1>4. /\ Cardinality(bucket) \in Nat /\ Cardinality(later) \in Nat
      /\ Cardinality(tried) \in Nat /\ Cardinality(tries) \in Nat
  BY <1>2, <1>3, FS_CardinalityType
<1>5. QED
  BY <1>2, <1>3, <1>4

\* or an attempt has become an entry,
LEMMA BoundSwapped ==
  ASSUME NEW limit \in Nat, NEW bucket, IsFiniteSet(bucket), NEW later, IsFiniteSet(later),
         NEW tried \in SUBSET Requests, NEW tries \in SUBSET Requests, NEW r \in tried,
         Cardinality(bucket) + Cardinality(tried) < limit + Cardinality(Requests),
         Cardinality(later) <= Cardinality(bucket) + 1, tries \subseteq tried \ {r}
  PROVE  Cardinality(later) + Cardinality(tries) < limit + Cardinality(Requests)
<1>1. IsFiniteSet(Requests)
  BY AccessAssumption
<1>2. IsFiniteSet(tried) /\ Cardinality(Requests) \in Nat
  BY <1>1, FS_Subset, FS_CardinalityType
<1>3. /\ IsFiniteSet(tried \ {r}) /\ Cardinality(tried \ {r}) = Cardinality(tried) - 1
      /\ Cardinality(tried \ {r}) \in Nat
  BY <1>2, TakeOne
<1>4. IsFiniteSet(tries) /\ Cardinality(tries) <= Cardinality(tried \ {r})
  BY <1>3, FS_Subset
<1>5. /\ Cardinality(bucket) \in Nat /\ Cardinality(later) \in Nat
      /\ Cardinality(tried) \in Nat /\ Cardinality(tries) \in Nat
  BY <1>2, <1>4, FS_CardinalityType
<1>6. QED
  BY <1>2, <1>3, <1>4, <1>5

\* or the bucket has room.
LEMMA BoundRoom ==
  ASSUME NEW limit \in Nat, NEW later, IsFiniteSet(later), ~Full(later, limit),
         NEW tries \in SUBSET Requests
  PROVE  Cardinality(later) + Cardinality(tries) < limit + Cardinality(Requests)
<1>1. IsFiniteSet(Requests)
  BY AccessAssumption
<1>2. /\ IsFiniteSet(tries) /\ Cardinality(tries) <= Cardinality(Requests)
      /\ Cardinality(Requests) \in Nat
  BY <1>1, FS_Subset, FS_CardinalityType
<1>3. /\ Cardinality(later) \in Nat /\ Cardinality(tries) \in Nat
  BY <1>2, FS_CardinalityType
<1>4. QED
  BY <1>2, <1>3 DEF Full

\* The bound for one address, and for one account.
IpBound(i) ==
  Cardinality(byIp[i]) + Cardinality(TryingFrom(i)) < MaxFailures + Cardinality(Requests)
AccountBound(a) ==
  Cardinality(byAccount[a]) + Cardinality(TryingAs(a))
    < MaxAccountFailures + Cardinality(Requests)

\* Buckets are finite, and attempts are requests.
LEMMA BucketsAreFinite ==
  ASSUME TypeOK
  PROVE  /\ \A i \in Ips : IsFiniteSet(byIp[i]) /\ TryingFrom(i) \in SUBSET Requests
         /\ \A a \in Accounts : IsFiniteSet(byAccount[a]) /\ TryingAs(a) \in SUBSET Requests
BY DEF TypeOK, WithinCeiling, TryingFrom, TryingAs

\* No bucket and no set of attempts grows.
LEMMA QuietBound ==
  ASSUME TypeOK, TypeOK', OverrunBoundedByOverlap, TriesFollow,
         \A i \in Ips : byIp'[i] \subseteq byIp[i],
         \A a \in Accounts : byAccount'[a] \subseteq byAccount[a]
  PROVE  OverrunBoundedByOverlap'
<1>1. ASSUME NEW i \in Ips PROVE IpBound(i)'
  <2>1. /\ IsFiniteSet(byIp[i]) /\ IsFiniteSet(byIp'[i])
        /\ TryingFrom(i) \in SUBSET Requests /\ TryingFrom(i)' \in SUBSET Requests
    BY DEF TypeOK, WithinCeiling, TryingFrom
  <2>2. Cardinality(byIp'[i]) <= Cardinality(byIp[i])
    BY <2>1, FS_Subset
  <2>3. TryingFrom(i)' \subseteq TryingFrom(i)
    BY DEF TriesFollow, TryingFrom
  <2>4. IpBound(i)
    BY DEF OverrunBoundedByOverlap, IpBound
  <2>5. QED
    BY <2>1, <2>2, <2>3, <2>4, BoundKept, BudgetsAreNumbers DEF IpBound
<1>2. ASSUME NEW a \in Accounts PROVE AccountBound(a)'
  <2>1. /\ IsFiniteSet(byAccount[a]) /\ IsFiniteSet(byAccount'[a])
        /\ TryingAs(a) \in SUBSET Requests /\ TryingAs(a)' \in SUBSET Requests
    BY DEF TypeOK, WithinCeiling, TryingAs
  <2>2. Cardinality(byAccount'[a]) <= Cardinality(byAccount[a])
    BY <2>1, FS_Subset
  <2>3. TryingAs(a)' \subseteq TryingAs(a)
    BY DEF TriesFollow, TryingAs
  <2>4. AccountBound(a)
    BY DEF OverrunBoundedByOverlap, AccountBound
  <2>5. QED
    BY <2>1, <2>2, <2>3, <2>4, BoundKept, BudgetsAreNumbers DEF AccountBound
<1>3. QED
  BY <1>1, <1>2 DEF OverrunBoundedByOverlap, IpBound, AccountBound

\* A login that starts does so while both of its buckets have room.
LEMMA LoginBound ==
  ASSUME BaseInv, BaseInv', OverrunBoundedByOverlap, NEW r \in Requests, Login(r)
  PROVE  OverrunBoundedByOverlap'
<1>1. TypeOK /\ TypeOK'
  BY DEF BaseInv
<1>2. /\ byIp' = prune(byIp, Window, now) /\ byAccount' = prune(byAccount, Window, now)
      /\ \A q \in Requests \ {r} : req'[q] = req[q]
      /\ req'[r].ip \in Ips /\ req'[r].account \in Accounts
      /\ \/ req'[r].pc \notin Trying
         \/ /\ ~Full(byIp'[req'[r].ip], MaxFailures)
            /\ ~Full(byAccount'[req'[r].account], MaxAccountFailures)
  BY LoginStarts
<1>3. /\ \A i \in Ips : byIp'[i] \subseteq byIp[i]
      /\ \A a \in Accounts : byAccount'[a] \subseteq byAccount[a]
  BY <1>1, <1>2, PruneKeeps DEF TypeOK
<1>4. CASE req'[r].pc \notin Trying
  <2>1. TriesFollow
    BY <1>2, <1>4 DEF TriesFollow
  <2>2. QED
    BY <1>1, <1>3, <2>1, QuietBound
<1>5. CASE /\ ~Full(byIp'[req'[r].ip], MaxFailures)
           /\ ~Full(byAccount'[req'[r].account], MaxAccountFailures)
  <2>1. ASSUME NEW i \in Ips PROVE IpBound(i)'
    <3>1. /\ IsFiniteSet(byIp[i]) /\ IsFiniteSet(byIp'[i])
          /\ TryingFrom(i) \in SUBSET Requests /\ TryingFrom(i)' \in SUBSET Requests
      BY <1>1 DEF TypeOK, WithinCeiling, TryingFrom
    <3>2. CASE i = req'[r].ip
      <4>1. ~Full(byIp'[i], MaxFailures)
        BY <1>2, <1>5, <3>2
      <4>2. QED
        BY <3>1, <4>1, BoundRoom, BudgetsAreNumbers DEF IpBound
    <3>3. CASE i # req'[r].ip
      <4>1. TryingFrom(i)' \subseteq TryingFrom(i)
        BY <1>2, <3>3 DEF TryingFrom
      <4>2. Cardinality(byIp'[i]) <= Cardinality(byIp[i])
        BY <1>3, <3>1, FS_Subset
      <4>3. IpBound(i)
        BY DEF OverrunBoundedByOverlap, IpBound
      <4>4. QED
        BY <3>1, <4>1, <4>2, <4>3, BoundKept, BudgetsAreNumbers DEF IpBound
    <3>4. QED
      BY <3>2, <3>3
  <2>2. ASSUME NEW a \in Accounts PROVE AccountBound(a)'
    <3>1. /\ IsFiniteSet(byAccount[a]) /\ IsFiniteSet(byAccount'[a])
          /\ TryingAs(a) \in SUBSET Requests /\ TryingAs(a)' \in SUBSET Requests
      BY <1>1 DEF TypeOK, WithinCeiling, TryingAs
    <3>2. CASE a = req'[r].account
      <4>1. ~Full(byAccount'[a], MaxAccountFailures)
        BY <1>2, <1>5, <3>2
      <4>2. QED
        BY <3>1, <4>1, BoundRoom, BudgetsAreNumbers DEF AccountBound
    <3>3. CASE a # req'[r].account
      <4>1. TryingAs(a)' \subseteq TryingAs(a)
        BY <1>2, <3>3 DEF TryingAs
      <4>2. Cardinality(byAccount'[a]) <= Cardinality(byAccount[a])
        BY <1>3, <3>1, FS_Subset
      <4>3. AccountBound(a)
        BY DEF OverrunBoundedByOverlap, AccountBound
      <4>4. QED
        BY <3>1, <4>1, <4>2, <4>3, BoundKept, BudgetsAreNumbers DEF AccountBound
    <3>4. QED
      BY <3>2, <3>3
  <2>3. QED
    BY <2>1, <2>2 DEF OverrunBoundedByOverlap, IpBound, AccountBound
<1>6. QED
  BY <1>2, <1>4, <1>5

\* A recorded failure was one of the attempts.
LEMMA FailureBound ==
  ASSUME BaseInv, BaseInv', OverrunBoundedByOverlap, NEW r \in Requests, RecordFailure(r)
  PROVE  OverrunBoundedByOverlap'
<1>1. TypeOK /\ TypeOK' /\ Answer(r) /\ req[r].pc \in Trying
  BY DEF BaseInv, RecordFailure, Trying
<1>2. /\ req[r].ip \in Ips /\ req[r].account \in Accounts
      /\ Cardinality(byIp'[req[r].ip]) <= Cardinality(byIp[req[r].ip]) + 1
      /\ \A i \in Ips \ {req[r].ip} : byIp'[i] \subseteq byIp[i]
      /\ Cardinality(byAccount'[req[r].account])
           <= Cardinality(byAccount[req[r].account]) + 1
      /\ \A a \in Accounts \ {req[r].account} : byAccount'[a] \subseteq byAccount[a]
  BY FailureCharged
<1>3. /\ req'[r].pc \notin Trying /\ \A o \in Requests \ {r} : req'[o] = req[o]
  BY <1>1, Answered, IdleIsRequest DEF Trying
<1>4. ASSUME NEW i \in Ips PROVE IpBound(i)'
  <2>1. /\ IsFiniteSet(byIp[i]) /\ IsFiniteSet(byIp'[i])
        /\ TryingFrom(i) \in SUBSET Requests /\ TryingFrom(i)' \in SUBSET Requests
    BY <1>1 DEF TypeOK, WithinCeiling, TryingFrom
  <2>2. TryingFrom(i)' \subseteq TryingFrom(i) \ {r}
    BY <1>3 DEF TryingFrom
  <2>3. IpBound(i)
    BY DEF OverrunBoundedByOverlap, IpBound
  <2>4. CASE i = req[r].ip
    <3>1. r \in TryingFrom(i) /\ Cardinality(byIp'[i]) <= Cardinality(byIp[i]) + 1
      BY <1>1, <1>2, <2>4 DEF TryingFrom
    <3>2. QED
      BY <2>1, <2>2, <2>3, <3>1, BoundSwapped, BudgetsAreNumbers DEF IpBound
  <2>5. CASE i # req[r].ip
    <3>1. Cardinality(byIp'[i]) <= Cardinality(byIp[i])
      BY <1>2, <2>1, <2>5, FS_Subset
    <3>2. QED
      BY <2>1, <2>2, <2>3, <3>1, BoundKept, BudgetsAreNumbers DEF IpBound
  <2>6. QED
    BY <2>4, <2>5
<1>5. ASSUME NEW a \in Accounts PROVE AccountBound(a)'
  <2>1. /\ IsFiniteSet(byAccount[a]) /\ IsFiniteSet(byAccount'[a])
        /\ TryingAs(a) \in SUBSET Requests /\ TryingAs(a)' \in SUBSET Requests
    BY <1>1 DEF TypeOK, WithinCeiling, TryingAs
  <2>2. TryingAs(a)' \subseteq TryingAs(a) \ {r}
    BY <1>3 DEF TryingAs
  <2>3. AccountBound(a)
    BY DEF OverrunBoundedByOverlap, AccountBound
  <2>4. CASE a = req[r].account
    <3>1. r \in TryingAs(a) /\ Cardinality(byAccount'[a]) <= Cardinality(byAccount[a]) + 1
      BY <1>1, <1>2, <2>4 DEF TryingAs
    <3>2. QED
      BY <2>1, <2>2, <2>3, <3>1, BoundSwapped, BudgetsAreNumbers DEF AccountBound
  <2>5. CASE a # req[r].account
    <3>1. Cardinality(byAccount'[a]) <= Cardinality(byAccount[a])
      BY <1>2, <2>1, <2>5, FS_Subset
    <3>2. QED
      BY <2>1, <2>2, <2>3, <3>1, BoundKept, BudgetsAreNumbers DEF AccountBound
  <2>6. QED
    BY <2>4, <2>5
<1>6. QED
  BY <1>4, <1>5 DEF OverrunBoundedByOverlap, IpBound, AccountBound

\* The gate of a login is passed long before its failure is recorded, so that a
\* bucket can exceed its budget; but never by more than the attempts that were
\* in flight together.
THEOREM OverrunBounded == Spec => []OverrunBoundedByOverlap
<1>1. ASSUME Init PROVE OverrunBoundedByOverlap
  <2>1. PICK tables \in Past : byIp = tables.ip /\ byAccount = tables.account
    BY <1>1 DEF Init
  <2>2. /\ \A i \in Ips : IsFiniteSet(byIp[i]) /\ Cardinality(byIp[i]) <= MaxFailures
        /\ \A a \in Accounts : IsFiniteSet(byAccount[a])
                               /\ Cardinality(byAccount[a]) <= MaxAccountFailures
    BY <2>1, PastAssumption DEF WithinCeiling
  <2>3. /\ \A i \in Ips : TryingFrom(i) = {}
        /\ \A a \in Accounts : TryingAs(a) = {}
    BY <1>1, IdleIsRequest DEF Init, TryingFrom, TryingAs, Trying
  <2>4. Cardinality(Requests) \in Nat /\ Cardinality(Requests) # 0
    BY AccessAssumption, FS_CardinalityType, FS_EmptySet
  <2>5. Cardinality({}) = 0
    BY FS_EmptySet
  <2>6. ASSUME NEW i \in Ips PROVE IpBound(i)
    <3>1. Cardinality(byIp[i]) \in Nat
      BY <2>2, FS_CardinalityType
    <3>2. QED
      BY <2>2, <2>3, <2>4, <2>5, <3>1, BudgetsAreNumbers DEF IpBound
  <2>7. ASSUME NEW a \in Accounts PROVE AccountBound(a)
    <3>1. Cardinality(byAccount[a]) \in Nat
      BY <2>2, FS_CardinalityType
    <3>2. QED
      BY <2>2, <2>3, <2>4, <2>5, <3>1, BudgetsAreNumbers DEF AccountBound
  <2>8. QED
    BY <2>6, <2>7 DEF OverrunBoundedByOverlap, IpBound, AccountBound
<1>2. ASSUME BaseInv, BaseInv', OverrunBoundedByOverlap, [Next]_vars
      PROVE  OverrunBoundedByOverlap'
  <2>1. TypeOK /\ TypeOK'
    BY <1>2 DEF BaseInv
  <2>2. CASE \E r \in Requests : Login(r)
    BY <1>2, <2>2, LoginBound
  <2>3. CASE \E r \in Requests : RecordFailure(r)
    BY <1>2, <2>3, FailureBound
  <2>4. CASE ~(\E r \in Requests : Login(r)) /\ ~(\E r \in Requests : RecordFailure(r))
    <3>1. TriesFollow
      BY <1>2, <2>4, OnlyLoginTries, SystemTriesNothing DEF Next, LoginsFollow
    <3>2. CASE byIp' = byIp /\ byAccount' = byAccount
      BY <1>2, <2>1, <3>1, <3>2, QuietBound
    <3>3. CASE \E r \in Requests : LoggedIn(r)
      <4>1. PICK r \in Requests : LoggedIn(r)
        BY <3>3
      <4>2. /\ byIp' = byIp
            /\ byAccount' = [prune(byAccount, Window, now) EXCEPT ![req[r].account] = {}]
        BY <4>1 DEF LoggedIn, record_success
      <4>3. /\ prune(byAccount, Window, now) \in [Accounts -> SUBSET Entries]
            /\ \A a \in Accounts : prune(byAccount, Window, now)[a] \subseteq byAccount[a]
        BY <2>1, PruneKeeps DEF TypeOK
      <4>4. \A a \in Accounts : byAccount'[a] \subseteq byAccount[a]
        BY <4>2, <4>3
      <4>5. QED
        BY <1>2, <2>1, <3>1, <4>2, <4>4, QuietBound
    <3>4. CASE Restart
      <4>1. /\ \A i \in Ips : byIp'[i] = {}
            /\ \A a \in Accounts : byAccount'[a] = {}
        BY <3>4 DEF Restart
      <4>2. QED
        BY <1>2, <2>1, <3>1, <4>1, QuietBound
    <3>5. QED
      BY <1>2, <2>4, <3>2, <3>3, <3>4, WhoWritesBuckets
  <2>5. QED
    BY <2>2, <2>3, <2>4
<1>3. QED
  BY <1>1, <1>2, BaseAlways, PTL DEF Spec

-----------------------------------------------------------------------------
(* The budget of mints, as long as there is room for every user.           *)

\* The entries of a user that still count.
Live(u) == LeftIn(byMinter[u], TokenMintWindow, now)
\* What SlotsInv and MintBudgetIsExact say of one user.
NumberedFor(u) ==
  \A t \in Instants : now - t < TokenMintWindow =>
    At(Live(u), t) = Numbered(t, Slots(u, t))
BudgetFor(u) ==
  /\ Cardinality(Live(u)) <= MaxTokenMints
  /\ Cardinality(Live(u)) = Cardinality(CountedTokens(u)) + Cardinality(Creating(u))
MintInv == \A u \in Users : NumberedFor(u) /\ BudgetFor(u)

\* The entries of one instant are those of the bucket that are left, if the
\* instant is in the window.
LEMMA AtOfLeft ==
  ASSUME NEW bucket, NEW window, NEW t, NEW i, t - i < window
  PROVE  At(LeftIn(bucket, window, t), i) = At(bucket, i)
BY DEF At, LeftIn

LEMMA MintInvSays ==
  ASSUME TypeOK
  PROVE  MintInv <=> SlotsInv /\ MintBudgetIsExact
<1>1. \A u \in Users : prune(byMinter, TokenMintWindow, now)[u] = Live(u)
  BY DEF TypeOK, prune, Live, LeftIn
<1>2. \A u \in Users, t \in Instants : now - t < TokenMintWindow =>
        At(Live(u), t) = At(byMinter[u], t)
  BY AtOfLeft DEF Live
<1>3. (\A u \in Users : NumberedFor(u)) <=> SlotsInv
  BY <1>2 DEF NumberedFor, SlotsInv
<1>4. (\A u \in Users : BudgetFor(u)) <=> MintBudgetIsExact
  BY <1>1 DEF BudgetFor, MintBudgetIsExact
<1>5. QED
  BY <1>3, <1>4 DEF MintInv

\* A set has one element more, or less.
Gains(S, T, x) == T = S \union {x} /\ x \notin S
Loses(S, T, x) == T = S \ {x} /\ x \in S

LEMMA LosesOne ==
  ASSUME NEW S, NEW T, NEW x, Loses(S, T, x), IsFiniteSet(S)
  PROVE  Cardinality(S) = Cardinality(T) + 1
<1>1. Cardinality(S) \in Nat /\ Cardinality(S \ {x}) = Cardinality(S) - 1
  BY TakeOne DEF Loses
<1>2. QED
  BY <1>1 DEF Loses

\* n numbered entries are n entries; one more is the next number.
LEMMA NumberedEntries ==
  ASSUME NEW t, NEW n \in Nat
  PROVE  /\ IsFiniteSet(Numbered(t, n)) /\ Cardinality(Numbered(t, n)) = n
         /\ Gains(Numbered(t, n), Numbered(t, n + 1), <<t, n + 1>>)
         /\ n # 0 => Loses(Numbered(t, n), Numbered(t, n - 1), <<t, n>>)
<1>1. IsFiniteSet({t}) /\ Cardinality({t}) = 1
  BY FS_Singleton
<1>2. IsFiniteSet(1 .. n) /\ Cardinality(1 .. n) = n
  BY FS_Interval
<1>3. IsFiniteSet({t} \X (1 .. n)) /\ Cardinality({t} \X (1 .. n)) = 1 * n
  <2> DEFINE one == {t}
             numbers == 1 .. n
  <2>1. /\ IsFiniteSet(one) /\ Cardinality(one) = 1
        /\ IsFiniteSet(numbers) /\ Cardinality(numbers) = n
    BY <1>1, <1>2
  <2> HIDE DEF one, numbers
  <2>2. /\ IsFiniteSet(one \X numbers)
        /\ Cardinality(one \X numbers) = Cardinality(one) * Cardinality(numbers)
    BY ONLY <2>1, FS_Product, Zenon
  <2>3. QED
    BY <2>1, <2>2 DEF one, numbers
<1>4. <<t, n + 1>> \notin {t} \X (1 .. n)
  OBVIOUS
<1>5. ({t} \X (1 .. n)) \union {<<t, n + 1>>} = {t} \X (1 .. (n + 1))
  <2>1. 1 .. (n + 1) = (1 .. n) \union {n + 1}
    OBVIOUS
  <2>2. QED
    BY <2>1
<1>6. ASSUME n # 0
      PROVE  /\ <<t, n>> \in {t} \X (1 .. n)
             /\ ({t} \X (1 .. n)) \ {<<t, n>>} = {t} \X (1 .. (n - 1))
  <2>1. 1 .. (n - 1) = (1 .. n) \ {n} /\ n \in 1 .. n
    BY <1>6
  <2>2. QED
    BY <2>1
<1>7. QED
  BY <1>3, <1>4, <1>5, <1>6 DEF Numbered, Gains, Loses

\* The sets the budget counts are finite.
MintSetsFinite(u) ==
  /\ IsFiniteSet(Live(u)) /\ Live(u) \in SUBSET Entries
  /\ Cardinality(Live(u)) \in Nat
  /\ \A t : /\ IsFiniteSet(TokensOf(u, t)) /\ IsFiniteSet(CreatesOf(u, t))
            /\ Cardinality(TokensOf(u, t)) \in Nat
            /\ Cardinality(CreatesOf(u, t)) \in Nat
            /\ Slots(u, t) \in Nat
  /\ IsFiniteSet(CountedTokens(u)) /\ IsFiniteSet(Creating(u))
  /\ Cardinality(CountedTokens(u)) \in Nat /\ Cardinality(Creating(u)) \in Nat

LEMMA MintSetsAreFinite ==
  ASSUME TypeOK, NEW u \in Users
  PROVE  MintSetsFinite(u)
<1>1. IsFiniteSet(Tokens) /\ IsFiniteSet(Requests)
  BY AccessAssumption
<1>2. IsFiniteSet(byMinter[u]) /\ Live(u) \in SUBSET byMinter[u]
      /\ byMinter[u] \in SUBSET Entries
  BY DEF TypeOK, WithinCeiling, Live, LeftIn
<1>3. IsFiniteSet(Live(u)) /\ Live(u) \in SUBSET Entries /\ Cardinality(Live(u)) \in Nat
  BY <1>2, FS_Subset, FS_CardinalityType
<1>4. CountedTokens(u) \in SUBSET Tokens /\ Creating(u) \in SUBSET Requests
  BY DEF CountedTokens, Creating, list_tokens
<1>5. /\ IsFiniteSet(CountedTokens(u)) /\ IsFiniteSet(Creating(u))
      /\ Cardinality(CountedTokens(u)) \in Nat /\ Cardinality(Creating(u)) \in Nat
  BY <1>1, <1>4, FS_Subset, FS_CardinalityType
<1>6. ASSUME NEW t
      PROVE  /\ IsFiniteSet(TokensOf(u, t)) /\ IsFiniteSet(CreatesOf(u, t))
             /\ Cardinality(TokensOf(u, t)) \in Nat
             /\ Cardinality(CreatesOf(u, t)) \in Nat
             /\ Slots(u, t) \in Nat
  <2>1. TokensOf(u, t) \in SUBSET Tokens /\ CreatesOf(u, t) \in SUBSET Requests
    BY DEF TokensOf, CreatesOf, list_tokens
  <2>2. /\ IsFiniteSet(TokensOf(u, t)) /\ IsFiniteSet(CreatesOf(u, t))
        /\ Cardinality(TokensOf(u, t)) \in Nat
        /\ Cardinality(CreatesOf(u, t)) \in Nat
    BY <1>1, <2>1, FS_Subset, FS_CardinalityType
  <2>3. QED
    BY <2>2 DEF Slots
<1>7. QED
  BY <1>3, <1>5, <1>6 DEF MintSetsFinite

LEMMA MintSetsStayFinite ==
  ASSUME NEW u \in Users
  PROVE  TypeOK' => MintSetsFinite(u)'
<1>1. TypeOK => MintSetsFinite(u)
  BY MintSetsAreFinite
<1>2. QED
  BY <1>1, PTL

\* A user whose entries, tokens and creates a step leaves alone.
LEMMA SameUser ==
  ASSUME NEW u \in Users, NumberedFor(u), BudgetFor(u), now' = now,
         Live(u)' = Live(u),
         \A k \in Tokens : k \in list_tokens(u)' <=> k \in list_tokens(u),
         \A k \in list_tokens(u) : /\ tokens'[k].minted = tokens[k].minted
                                   /\ tokens'[k].lost = tokens[k].lost,
         \A r \in Requests :
           /\ (req'[r].pc = "minting" /\ req'[r].account = u)
                <=> (req[r].pc = "minting" /\ req[r].account = u)
           /\ req[r].pc = "minting" /\ req[r].account = u => req'[r].at = req[r].at
  PROVE  NumberedFor(u)' /\ BudgetFor(u)'
<1>1. list_tokens(u)' = list_tokens(u)
  BY DEF list_tokens
<1>2. CountedTokens(u)' = CountedTokens(u) /\ Creating(u)' = Creating(u)
  BY <1>1 DEF CountedTokens, Creating
<1>3. \A t : TokensOf(u, t)' = TokensOf(u, t) /\ CreatesOf(u, t)' = CreatesOf(u, t)
  BY <1>1 DEF TokensOf, CreatesOf
<1>4. \A t : Slots(u, t)' = Slots(u, t)
  BY <1>3 DEF Slots
<1>5. QED
  BY <1>2, <1>4 DEF NumberedFor, BudgetFor

\* A slot is taken at this instant.
LEMMA SlotTaken ==
  ASSUME TypeOK, TypeOK', NEW u \in Users, NumberedFor(u), BudgetFor(u), now' = now,
         Cardinality(Live(u)) < MaxTokenMints, NEW r \in Requests,
         Live(u)' = Live(u) \union {<<now, Cardinality(At(Live(u), now)) + 1>>},
         tokens' = tokens, \A q \in Requests \ {r} : req'[q] = req[q],
         req[r].pc # "minting",
         req'[r].pc = "minting", req'[r].account = u, req'[r].at = now
  PROVE  NumberedFor(u)' /\ BudgetFor(u)'
<1> DEFINE n == Slots(u, now)
           e == <<now, n + 1>>
<1>1. now \in Instants /\ now \in Nat /\ now - now < TokenMintWindow /\ n \in Nat
  BY BudgetsAreNumbers, MintSetsAreFinite DEF MintSetsFinite, TypeOK
<1>2. At(Live(u), now) = Numbered(now, n)
  BY <1>1 DEF NumberedFor
<1> HIDE DEF n
<1>3. /\ Cardinality(At(Live(u), now)) = n /\ e \notin At(Live(u), now)
      /\ At(Live(u), now) \union {e} = Numbered(now, n + 1)
  <2>1. /\ Cardinality(Numbered(now, n)) = n
        /\ Gains(Numbered(now, n), Numbered(now, n + 1), <<now, n + 1>>)
    BY <1>1, NumberedEntries
  <2>2. QED
    BY <1>2, <2>1 DEF Gains
<1>4. Live(u)' = Live(u) \union {e} /\ e \notin Live(u) /\ e[1] = now
  BY <1>3 DEF At
<1> HIDE DEF e
<1>5. /\ CountedTokens(u)' = CountedTokens(u)
      /\ \A t : TokensOf(u, t)' = TokensOf(u, t)
  BY DEF CountedTokens, TokensOf, list_tokens
<1>6. Creating(u)' = Creating(u) \union {r} /\ r \notin Creating(u)
  BY <1>1 DEF Creating
<1>7. /\ CreatesOf(u, now)' = CreatesOf(u, now) \union {r} /\ r \notin CreatesOf(u, now)
      /\ \A t : t # now => CreatesOf(u, t)' = CreatesOf(u, t)
  BY DEF CreatesOf
<1>8. NumberedFor(u)'
  <2>1. ASSUME NEW t \in Instants, now - t < TokenMintWindow
        PROVE  At(Live(u)', t) = Numbered(t, Slots(u, t)')
    <3>1. CASE t = now
      <4>1. Cardinality(CreatesOf(u, now)') = Cardinality(CreatesOf(u, now)) + 1
        BY <1>7, AddOne, MintSetsAreFinite DEF MintSetsFinite
      <4>2. Slots(u, now)' = n + 1
        BY <1>5, <4>1, MintSetsAreFinite DEF MintSetsFinite, Slots, n
      <4>3. At(Live(u)', now) = At(Live(u), now) \union {e}
        BY <1>4 DEF At
      <4>4. QED
        BY <1>3, <3>1, <4>2, <4>3
    <3>2. CASE t # now
      <4>1. At(Live(u)', t) = At(Live(u), t)
        BY <1>4, <3>2 DEF At
      <4>2. Slots(u, t)' = Slots(u, t)
        BY <1>5, <1>7, <3>2 DEF Slots
      <4>3. QED
        BY <2>1, <4>1, <4>2 DEF NumberedFor
    <3>3. QED
      BY <3>1, <3>2
  <2>2. QED
    BY <2>1 DEF NumberedFor
<1>9. BudgetFor(u)'
  <2>1. Cardinality(Live(u)') = Cardinality(Live(u)) + 1
    BY <1>4, AddOne, MintSetsAreFinite DEF MintSetsFinite
  <2>2. Cardinality(Creating(u)') = Cardinality(Creating(u)) + 1
    BY <1>6, AddOne, MintSetsAreFinite DEF MintSetsFinite
  <2>3. QED
    BY <1>5, <2>1, <2>2, MintSetsAreFinite, BudgetsAreNumbers DEF MintSetsFinite, BudgetFor
<1>10. QED
  BY <1>8, <1>9

\* A slot is given back: the newest of its instant, whoever held it.
LEMMA SlotReleased ==
  ASSUME TypeOK, TypeOK', NEW u \in Users, NumberedFor(u), BudgetFor(u), now' = now,
         NEW i \in Instants,
         Live(u)' = Live(u) \ {<<i, Cardinality(At(Live(u), i))>>},
         \A t \in Instants : t # i => Slots(u, t)' = Slots(u, t),
         now - i < TokenMintWindow => Slots(u, i) = Slots(u, i)' + 1,
         IF now - i < TokenMintWindow
         THEN \/ /\ Cardinality(CountedTokens(u)) = Cardinality(CountedTokens(u)') + 1
                 /\ Creating(u)' = Creating(u)
              \/ /\ Cardinality(Creating(u)) = Cardinality(Creating(u)') + 1
                 /\ CountedTokens(u)' = CountedTokens(u)
         ELSE CountedTokens(u)' = CountedTokens(u) /\ Creating(u)' = Creating(u)
  PROVE  NumberedFor(u)' /\ BudgetFor(u)'
<1> DEFINE e == <<i, Cardinality(At(Live(u), i))>>
<1>1. /\ Live(u)' = Live(u) \ {e} /\ e[1] = i
      /\ now \in Nat /\ i \in Nat /\ TokenMintWindow \in Nat
  BY BudgetsAreNumbers DEF TypeOK
<1>2. CASE now - i < TokenMintWindow
  <2> DEFINE n == Slots(u, i)
  <2>1. n \in Nat /\ n # 0 /\ Slots(u, i)' = n - 1
    <3>1. Slots(u, i) \in Nat /\ Slots(u, i)' \in Nat
      BY MintSetsAreFinite, MintSetsStayFinite DEF MintSetsFinite
    <3>2. QED
      BY <1>2, <3>1
  <2>2. At(Live(u), i) = Numbered(i, n)
    BY <1>2 DEF NumberedFor
  <2> HIDE DEF n
  <2>3. /\ e = <<i, n>> /\ e \in At(Live(u), i)
        /\ At(Live(u), i) \ {e} = Numbered(i, n - 1)
    <3>1. /\ Cardinality(Numbered(i, n)) = n
          /\ Loses(Numbered(i, n), Numbered(i, n - 1), <<i, n>>)
      BY <2>1, NumberedEntries
    <3>2. QED
      BY <2>2, <3>1 DEF Loses
  <2>4. e \in Live(u)
    BY <2>3 DEF At
  <2> HIDE DEF e
  <2>5. NumberedFor(u)'
    <3>1. ASSUME NEW t \in Instants, now - t < TokenMintWindow
          PROVE  At(Live(u)', t) = Numbered(t, Slots(u, t)')
      <4>1. CASE t = i
        <5>1. At(Live(u)', i) = At(Live(u), i) \ {e}
          BY <1>1 DEF At
        <5>2. QED
          BY <2>1, <2>3, <4>1, <5>1
      <4>2. CASE t # i
        <5>1. At(Live(u)', t) = At(Live(u), t)
          BY <1>1, <4>2 DEF At
        <5>2. QED
          BY <3>1, <4>2, <5>1 DEF NumberedFor
      <4>3. QED
        BY <4>1, <4>2
    <3>2. QED
      BY <3>1 DEF NumberedFor
  <2>6. Cardinality(Live(u)') = Cardinality(Live(u)) - 1
    BY <1>1, <2>4, TakeOne, MintSetsAreFinite DEF MintSetsFinite
  <2>7. BudgetFor(u)'
    <3>1. /\ Cardinality(Live(u)) \in Nat
          /\ Cardinality(CountedTokens(u)) \in Nat /\ Cardinality(Creating(u)) \in Nat
          /\ Cardinality(CountedTokens(u)') \in Nat /\ Cardinality(Creating(u)') \in Nat
      BY MintSetsAreFinite, MintSetsStayFinite DEF MintSetsFinite
    <3>2. QED
      BY <1>2, <2>6, <3>1, BudgetsAreNumbers DEF BudgetFor
  <2>8. QED
    BY <2>5, <2>7
<1>3. CASE ~(now - i < TokenMintWindow)
  <2>1. e \notin Live(u)
    BY <1>1, <1>3 DEF Live, LeftIn
  <2>2. Live(u)' = Live(u)
    BY <1>1, <2>1
  <2>3. NumberedFor(u)'
    <3>1. ASSUME NEW t \in Instants, now - t < TokenMintWindow
          PROVE  At(Live(u)', t) = Numbered(t, Slots(u, t)')
      <4>1. t # i
        BY <1>3, <3>1
      <4>2. QED
        BY <2>2, <3>1, <4>1 DEF NumberedFor
    <3>2. QED
      BY <3>1 DEF NumberedFor
  <2>4. BudgetFor(u)'
    BY <1>3, <2>2 DEF BudgetFor
  <2>5. QED
    BY <2>3, <2>4
<1>4. QED
  BY <1>2, <1>3

\* A create has become a token.
LEMMA SlotHandedOn ==
  ASSUME TypeOK, TypeOK', NEW u \in Users, NumberedFor(u), BudgetFor(u), now' = now,
         NEW i \in Instants, Live(u)' = Live(u), NEW k, NEW r,
         Gains(TokensOf(u, i), TokensOf(u, i)', k),
         Loses(CreatesOf(u, i), CreatesOf(u, i)', r),
         \A t \in Instants : t # i => Slots(u, t)' = Slots(u, t),
         IF now - i < TokenMintWindow
         THEN /\ Gains(CountedTokens(u), CountedTokens(u)', k)
              /\ Loses(Creating(u), Creating(u)', r)
         ELSE CountedTokens(u)' = CountedTokens(u) /\ Creating(u)' = Creating(u)
  PROVE  NumberedFor(u)' /\ BudgetFor(u)'
<1>1. Cardinality(TokensOf(u, i)') = Cardinality(TokensOf(u, i)) + 1
  BY AddOne, MintSetsAreFinite DEF MintSetsFinite, Gains
<1>2. Cardinality(CreatesOf(u, i)') = Cardinality(CreatesOf(u, i)) - 1
  BY TakeOne, MintSetsAreFinite DEF MintSetsFinite, Loses
<1>3. Slots(u, i)' = Slots(u, i)
  BY <1>1, <1>2, MintSetsAreFinite DEF MintSetsFinite, Slots
<1>4. NumberedFor(u)'
  BY <1>3 DEF NumberedFor
<1>5. Cardinality(CountedTokens(u)') + Cardinality(Creating(u)')
        = Cardinality(CountedTokens(u)) + Cardinality(Creating(u))
  <2>1. CASE now - i < TokenMintWindow
    <3>1. Cardinality(CountedTokens(u)') = Cardinality(CountedTokens(u)) + 1
      BY <2>1, AddOne, MintSetsAreFinite DEF MintSetsFinite, Gains
    <3>2. Cardinality(Creating(u)') = Cardinality(Creating(u)) - 1
      BY <2>1, TakeOne, MintSetsAreFinite DEF MintSetsFinite, Loses
    <3>3. QED
      BY <3>1, <3>2, MintSetsAreFinite DEF MintSetsFinite
  <2>2. CASE ~(now - i < TokenMintWindow)
    BY <2>2
  <2>3. QED
    BY <2>1, <2>2
<1>6. BudgetFor(u)'
  BY <1>5 DEF BudgetFor
<1>7. QED
  BY <1>4, <1>6

\* An instant passes, and with it the slots of the instant that leaves the window.
LEMMA SlotsExpire ==
  ASSUME BaseInv, BaseInv', NEW u \in Users, NumberedFor(u), BudgetFor(u), Tick
  PROVE  NumberedFor(u)' /\ BudgetFor(u)'
<1>1. /\ TypeOK /\ TypeOK' /\ now \in Nat /\ TokenMintWindow \in Nat \ {0}
      /\ now \in Instants /\ Instants \subseteq Nat /\ now' = now + 1
  BY BudgetsAreNumbers DEF BaseInv, TypeOK, Tick
<1>2. byMinter' = byMinter /\ tokens' = tokens /\ req' = req
  BY DEF Tick, limiter, rows
<1> DEFINE out == now + 1 - TokenMintWindow
<1>3. out \in Int /\ now - out < TokenMintWindow /\ ~(now + 1 - out < TokenMintWindow)
      /\ \A t \in Nat : (now + 1) - t < TokenMintWindow <=>
                          (now - t < TokenMintWindow /\ t # out)
  BY <1>1
<1> HIDE DEF out
<1>4. /\ \A t : TokensOf(u, t)' = TokensOf(u, t) /\ CreatesOf(u, t)' = CreatesOf(u, t)
      /\ list_tokens(u)' = list_tokens(u)
  BY <1>2 DEF TokensOf, CreatesOf, list_tokens
<1>5. \A t : Slots(u, t)' = Slots(u, t)
  BY <1>4 DEF Slots
<1>6. byMinter[u] \in SUBSET Entries /\ \A e \in byMinter[u] : e[1] \in Nat
  <2>1. byMinter[u] \in SUBSET Entries
    BY <1>1 DEF TypeOK
  <2>2. \A e \in Entries : e[1] \in Nat
    BY <1>1 DEF Entries
  <2>3. QED
    BY <2>1, <2>2
<1>7. /\ Live(u)' = Live(u) \ At(Live(u), out)
      /\ At(Live(u), out) \subseteq Live(u)
  BY <1>1, <1>2, <1>3, <1>6 DEF Live, LeftIn, At
<1>8. \A k \in list_tokens(u) : tokens[k].minted \in Nat
  BY <1>1 DEF BaseInv, RowsInv, list_tokens
<1>9. /\ CountedTokens(u)' = CountedTokens(u) \ TokensOf(u, out)
      /\ TokensOf(u, out) \subseteq CountedTokens(u)
  BY <1>1, <1>2, <1>3, <1>4, <1>8 DEF CountedTokens, TokensOf
<1>10. \A r \in Requests : req[r].pc = "minting" => req[r].at \in Nat
  BY <1>1 DEF BaseInv, Knows
<1>11. /\ Creating(u)' = Creating(u) \ CreatesOf(u, out)
       /\ CreatesOf(u, out) \subseteq Creating(u)
  BY <1>1, <1>2, <1>3, <1>10 DEF Creating, CreatesOf
<1>12. Cardinality(At(Live(u), out))
         = Cardinality(TokensOf(u, out)) + Cardinality(CreatesOf(u, out))
  <2>1. CASE out \in Instants
    <3>1. At(Live(u), out) = Numbered(out, Slots(u, out))
      BY <1>3, <2>1 DEF NumberedFor
    <3>2. Slots(u, out) \in Nat
      BY <1>1, MintSetsAreFinite DEF MintSetsFinite
    <3>3. Cardinality(At(Live(u), out)) = Slots(u, out)
      BY <3>1, <3>2, NumberedEntries
    <3>4. QED
      BY <3>3 DEF Slots
  <2>2. CASE out \notin Instants
    <3>1. At(Live(u), out) = {}
      BY <1>1, <2>2 DEF Live, LeftIn, At, TypeOK, Entries
    <3>2. TokensOf(u, out) = {} /\ CreatesOf(u, out) = {}
      BY <1>1, <2>2 DEF TokensOf, CreatesOf, BaseInv, RowsInv, Knows, list_tokens
    <3>3. Cardinality({}) = 0
      BY FS_EmptySet
    <3>4. QED
      BY <3>1, <3>2, <3>3
  <2>3. QED
    BY <2>1, <2>2
<1>13. NumberedFor(u)'
  <2>1. ASSUME NEW t \in Instants, (now + 1) - t < TokenMintWindow
        PROVE  At(Live(u)', t) = Numbered(t, Slots(u, t)')
    <3>1. now - t < TokenMintWindow /\ t # out
      BY <1>1, <1>3, <2>1
    <3>2. At(Live(u)', t) = At(Live(u), t)
      BY <1>7, <3>1 DEF At
    <3>3. QED
      BY <1>5, <3>1, <3>2 DEF NumberedFor
  <2>2. QED
    BY <1>1, <2>1 DEF NumberedFor
<1>14. BudgetFor(u)'
  <2>1. /\ IsFiniteSet(Live(u)) /\ IsFiniteSet(CountedTokens(u)) /\ IsFiniteSet(Creating(u))
        /\ Cardinality(Live(u)) \in Nat /\ Cardinality(CountedTokens(u)) \in Nat
        /\ Cardinality(Creating(u)) \in Nat
        /\ Cardinality(TokensOf(u, out)) \in Nat /\ Cardinality(CreatesOf(u, out)) \in Nat
    BY <1>1, MintSetsAreFinite DEF MintSetsFinite
  <2>2. Cardinality(Live(u)') = Cardinality(Live(u)) - Cardinality(At(Live(u), out))
    <3>1. Live(u) \intersect At(Live(u), out) = At(Live(u), out)
      BY <1>7
    <3>2. QED
      BY <1>7, <2>1, <3>1, FS_Difference
  <2>3. Cardinality(CountedTokens(u)')
          = Cardinality(CountedTokens(u)) - Cardinality(TokensOf(u, out))
    <3>1. CountedTokens(u) \intersect TokensOf(u, out) = TokensOf(u, out)
      BY <1>9
    <3>2. QED
      BY <1>9, <2>1, <3>1, FS_Difference
  <2>4. Cardinality(Creating(u)')
          = Cardinality(Creating(u)) - Cardinality(CreatesOf(u, out))
    <3>1. Creating(u) \intersect CreatesOf(u, out) = CreatesOf(u, out)
      BY <1>11
    <3>2. QED
      BY <1>11, <2>1, <3>1, FS_Difference
  <2>5. QED
    BY <1>12, <2>1, <2>2, <2>3, <2>4, BudgetsAreNumbers DEF BudgetFor
<1>15. QED
  BY <1>13, <1>14

\* A step that no user's slots notice.
LEMMA MintQuiet ==
  ASSUME MintInv, now' = now, \A u \in Users : Live(u)' = Live(u),
         \A k \in Tokens :
           /\ tokens'[k].state # "unused" <=> tokens[k].state # "unused"
           /\ tokens[k].state # "unused" =>
                /\ tokens'[k].user = tokens[k].user
                /\ tokens'[k].minted = tokens[k].minted
                /\ tokens'[k].lost = tokens[k].lost,
         \A r \in Requests :
           \/ req'[r] = req[r]
           \/ req'[r].pc # "minting" /\ req[r].pc # "minting"
  PROVE  MintInv'
<1>1. ASSUME NEW u \in Users
      PROVE  NumberedFor(u)' /\ BudgetFor(u)'
  <2>1. NumberedFor(u) /\ BudgetFor(u)
    BY DEF MintInv
  <2>2. \A k \in Tokens : k \in list_tokens(u)' <=> k \in list_tokens(u)
    BY DEF list_tokens
  <2>3. \A k \in list_tokens(u) : /\ tokens'[k].minted = tokens[k].minted
                                  /\ tokens'[k].lost = tokens[k].lost
    BY DEF list_tokens
  <2>4. \A r \in Requests :
          /\ (req'[r].pc = "minting" /\ req'[r].account = u)
               <=> (req[r].pc = "minting" /\ req[r].account = u)
          /\ req[r].pc = "minting" /\ req[r].account = u => req'[r].at = req[r].at
    OBVIOUS
  <2>5. QED
    BY <2>1, <2>2, <2>3, <2>4, SameUser
<1>2. QED
  BY <1>1 DEF MintInv

LEMMA LiveStays ==
  ASSUME TypeOK, now' = now, NEW u \in Users,
         \/ byMinter' = byMinter
         \/ byMinter' = prune(byMinter, TokenMintWindow, now)
  PROVE  Live(u)' = Live(u)
<1>1. CASE byMinter' = byMinter
  BY <1>1 DEF Live
<1>2. CASE byMinter' = prune(byMinter, TokenMintWindow, now)
  <2>1. byMinter'[u] = LeftIn(byMinter[u], TokenMintWindow, now)
    BY <1>2 DEF TypeOK, prune, LeftIn
  <2>2. QED
    BY <2>1 DEF Live, LeftIn
<1>3. QED
  BY <1>1, <1>2

\* Who is about to insert a token, and at what instant its slot was taken, only
\* these steps change; and of the others only login refuses.
LEMMA OnlyMintersMint ==
  ASSUME TypeOK, NEW r \in Requests, Step(r),
         ~Reserve(r), ~InsertToken(r), ~Timeout(r)
  PROVE  /\ \A q \in Requests \ {r} : req'[q] = req[q]
         /\ \/ req'[r] = req[r]
            \/ req'[r].pc # "minting" /\ req[r].pc # "minting"
         /\ Login(r) \/ req'[r].pc # "refused"
<1>1. req \in [Requests -> Request]
  BY DEF TypeOK
<1>2. CASE Answer(r) /\ req[r].pc # "minting"
  BY <1>2, Answered, IdleIsRequest
<1>3. ASSUME NEW pc \in {"inserting", "failing", "inserted", "counting", "acting"},
             Continue(r, pc), req[r].pc # "minting"
      PROVE  /\ \A q \in Requests \ {r} : req'[q] = req[q]
             /\ req'[r].pc \notin {"minting", "refused"}
  <2>1. pc \in Pcs /\ pc \notin {"minting", "refused"}
    BY DEF Pcs
  <2>2. QED
    BY <1>3, <2>1, Continued
<1>4. ASSUME NEW q, q.pc # "minting", Start(r, q)
      PROVE  /\ \A o \in Requests \ {r} : req'[o] = req[o]
             /\ req'[r].pc # "minting" /\ req[r].pc # "minting"
             /\ q.pc # "refused" => req'[r].pc # "refused"
  BY <1>1, <1>4 DEF Start
<1>6. CASE Login(r)
  <2>1. PICK q \in Request : Start(r, q) /\ q.pc # "minting"
    BY <1>6, LoginBegins
  <2>2. QED
    BY <1>4, <1>6, <2>1
<1>7. CASE Verify(r)
  <2>1. /\ req[r].pc # "minting"
        /\ \E pc \in {"inserting", "failing", "inserted", "counting", "acting"} : Continue(r, pc)
    BY <1>7 DEF Verify
  <2>2. QED
    BY <1>3, <2>1
<1>8. CASE InsertSession(r)
  BY <1>3, <1>8 DEF InsertSession
<1>9. CASE BeginMint(r)
  <2>1. PICK s \in Sessions, n \in Names :
          Start(r, [IdleRequest EXCEPT !.pc = "reserving", !.op = "mint", !.cred = s,
                      !.account = sessions[s].user, !.name = n])
    BY <1>9 DEF BeginMint
  <2> DEFINE q == [IdleRequest EXCEPT !.pc = "reserving", !.op = "mint", !.cred = s,
                     !.account = sessions[s].user, !.name = n]
  <2>2. q.pc \notin {"minting", "refused"} /\ Start(r, q)
    BY <2>1 DEF IdleRequest
  <2> HIDE DEF q
  <2>3. QED
    BY <1>4, <2>2
<1>10. CASE Logout(r)
  <2>1. PICK s \in Sessions \ Fresh(sessions) :
          Start(r, [IdleRequest EXCEPT !.pc = "leaving", !.op = "logout", !.cred = s])
    BY <1>10 DEF Logout
  <2> DEFINE q == [IdleRequest EXCEPT !.pc = "leaving", !.op = "logout", !.cred = s]
  <2>2. q.pc \notin {"minting", "refused"} /\ Start(r, q)
    BY <2>1 DEF IdleRequest
  <2> HIDE DEF q
  <2>3. QED
    BY <1>4, <2>2
<1>11. CASE Revoke(r)
  BY <1>2, <1>3, <1>11 DEF Revoke
<1>12. CASE BeginOthers(r)
  <2>1. PICK s \in Sessions :
          Start(r, [IdleRequest EXCEPT !.pc = "acting", !.op = "others", !.cred = s,
                      !.account = sessions[s].user])
    BY <1>12 DEF BeginOthers
  <2> DEFINE q == [IdleRequest EXCEPT !.pc = "acting", !.op = "others", !.cred = s,
                     !.account = sessions[s].user]
  <2>2. q.pc \notin {"minting", "refused"} /\ Start(r, q)
    BY <2>1 DEF IdleRequest
  <2> HIDE DEF q
  <2>3. QED
    BY <1>4, <2>2
<1>13. CASE BeginRevoke(r)
  <2>1. PICK c \in Sessions \union Tokens, k \in Tokens \ Fresh(tokens) :
          Start(r, [IdleRequest EXCEPT
                      !.pc = IF c \in Sessions THEN "acting" ELSE "touching",
                      !.op = "revoke", !.cred = c, !.new = k,
                      !.account = IF c \in Sessions THEN sessions[c].user
                                  ELSE tokens[c].user])
    BY <1>13 DEF BeginRevoke
  <2> DEFINE q == [IdleRequest EXCEPT
                     !.pc = IF c \in Sessions THEN "acting" ELSE "touching",
                     !.op = "revoke", !.cred = c, !.new = k,
                     !.account = IF c \in Sessions THEN sessions[c].user
                                 ELSE tokens[c].user]
  <2>2. q.pc \notin {"minting", "refused"} /\ Start(r, q)
    BY <2>1 DEF IdleRequest
  <2> HIDE DEF q
  <2>3. QED
    BY <1>4, <2>2
<1>14. CASE Touch(r)
  BY <1>3, <1>14 DEF Touch
<1>15. CASE \/ RecordFailure(r) \/ LoggedIn(r) \/ Minted(r) \/ CountSessions(r)
            \/ RevokeOthers(r) \/ RevokeToken(r) \/ Refuse(r)
  BY <1>2, <1>15 DEF Refuse, RecordFailure, LoggedIn, Minted, CountSessions, RevokeOthers,
     RevokeToken
<1>16. QED
  BY <1>6, <1>7, <1>8, <1>9, <1>10, <1>11, <1>12, <1>13, <1>14, <1>15 DEF Step

\* Nor do any others write the table of minters, or more of a token than its
\* stamp and whether it is revoked.
LEMMA OthersLeaveSlots ==
  ASSUME BaseInv, NEW r \in Requests, Step(r),
         ~Reserve(r), ~InsertToken(r), ~Timeout(r)
  PROVE  /\ byMinter' = byMinter /\ now' = now
         /\ \A k \in Tokens :
              /\ tokens'[k].state # "unused" <=> tokens[k].state # "unused"
              /\ tokens'[k].user = tokens[k].user
              /\ tokens'[k].minted = tokens[k].minted
              /\ tokens'[k].lost = tokens[k].lost
<1>1. byMinter' = byMinter /\ now' = now
  BY DEF Step, Login, PruneLogins, Refuse, Verify, RecordFailure, InsertSession, LoggedIn,
     record_success, BeginMint, Minted, commit, Logout, Revoke, CountSessions,
     BeginOthers, RevokeOthers, BeginRevoke, Touch, RevokeToken, limiter
<1>2. CASE tokens' = tokens
  BY <1>1, <1>2
<1>3. tokens \in [Tokens -> Token] /\ Knows(r)
  BY DEF BaseInv, TypeOK
<1>4. CASE Touch(r)
  <2>1. tokens' = [tokens EXCEPT ![req[r].cred].used = Touched(req[r].cred)]
    BY <1>4 DEF Touch
  <2>2. ASSUME NEW k \in Tokens, NEW used
        PROVE  /\ [tokens[k] EXCEPT !.used = used].state = tokens[k].state
               /\ [tokens[k] EXCEPT !.used = used].user = tokens[k].user
               /\ [tokens[k] EXCEPT !.used = used].minted = tokens[k].minted
               /\ [tokens[k] EXCEPT !.used = used].lost = tokens[k].lost
    BY <1>3 DEF Token
  <2>3. ASSUME NEW k \in Tokens
        PROVE  tokens'[k] = IF k = req[r].cred
                            THEN [tokens[k] EXCEPT !.used = Touched(k)] ELSE tokens[k]
    BY <1>3, <2>1
  <2>4. ASSUME NEW k \in Tokens
        PROVE  /\ tokens'[k].state = tokens[k].state
               /\ tokens'[k].user = tokens[k].user
               /\ tokens'[k].minted = tokens[k].minted
               /\ tokens'[k].lost = tokens[k].lost
    <3>1. CASE k = req[r].cred
      <4> DEFINE used == Touched(k)
      <4>1. tokens'[k] = [tokens[k] EXCEPT !.used = used]
        BY <2>3, <3>1
      <4> HIDE DEF used
      <4>2. QED
        BY <2>2, <4>1
    <3>2. CASE k # req[r].cred
      BY <2>3, <3>2
    <3>3. QED
      BY <3>1, <3>2
  <2>5. QED
    BY <1>1, <2>4
<1>5. CASE RevokeToken(r)
  <2>1. /\ tokens' = [tokens EXCEPT ![req[r].new].state =
                        IF tokens[req[r].new].user = req[r].account THEN "revoked" ELSE @]
        /\ req[r].new \in Tokens /\ tokens[req[r].new].state # "unused"
    BY <1>3, <1>5 DEF RevokeToken, Knows
  <2>2. ASSUME NEW k \in Tokens, NEW state
        PROVE  /\ [tokens[k] EXCEPT !.state = state].state = state
               /\ [tokens[k] EXCEPT !.state = state].user = tokens[k].user
               /\ [tokens[k] EXCEPT !.state = state].minted = tokens[k].minted
               /\ [tokens[k] EXCEPT !.state = state].lost = tokens[k].lost
    BY <1>3 DEF Token
  <2>3. ASSUME NEW k \in Tokens
        PROVE  IF k = req[r].new
               THEN \E state : state # "unused" /\ tokens'[k] = [tokens[k] EXCEPT !.state = state]
               ELSE tokens'[k] = tokens[k]
    <3>1. CASE k # req[r].new
      BY <1>3, <2>1, <3>1
    <3>2. CASE k = req[r].new
      <4> DEFINE state == IF tokens[k].user = req[r].account THEN "revoked"
                          ELSE tokens[k].state
      <4>1. state # "unused"
        BY <2>1, <3>2
      <4>2. tokens'[k] = [tokens[k] EXCEPT !.state = state]
        BY <1>3, <2>1, <3>2
      <4> HIDE DEF state
      <4>3. QED
        BY <3>2, <4>1, <4>2
    <3>3. QED
      BY <3>1, <3>2
  <2>4. QED
    BY <1>1, <2>1, <2>2, <2>3
<1>6. ~Touch(r) /\ ~RevokeToken(r) => tokens' = tokens
  BY DEF Step, Login, Refuse, Verify, RecordFailure, InsertSession, LoggedIn, BeginMint,
     Minted, Logout, Revoke, CountSessions, BeginOthers, RevokeOthers, BeginRevoke, rows
<1>7. QED
  BY <1>2, <1>4, <1>5, <1>6

-----------------------------------------------------------------------------
(* What a 429 announces.                                                   *)

\* From old to new a table loses entries, or gets some of this instant.
Stamped(old, new) == \A k \in DOMAIN new : \A e \in new[k] : e \in old[k] \/ e[1] = now

LEMMA PruneStamps ==
  ASSUME NEW K, NEW table \in [K -> SUBSET Entries], NEW window
  PROVE  Stamped(table, prune(table, window, now))
BY DEF Stamped, prune

LEMMA PushStamps ==
  ASSUME NEW K, NEW table \in [K -> SUBSET Entries], WithinCeiling(table),
         now \in Instants, NEW window, NEW key \in K, NEW limit,
         NEW t \in bound_keys(prune(table, window, now), key, limit, MaxKeys)
  PROVE  Stamped(table, Push(t, key, now))
<1> DEFINE left == prune(table, window, now)
           pushed == Push(t, key, now)
           e == <<now, Cardinality(At(t[key], now)) + 1>>
<1>1. /\ left \in [K -> SUBSET Entries] /\ WithinCeiling(left)
      /\ \A k \in K : left[k] \subseteq table[k]
  BY PruneKeeps
<1> HIDE DEF left
<1>2. /\ t \in [K -> SUBSET Entries] /\ WithinCeiling(t)
      /\ \A k \in K : t[k] \subseteq left[k]
      /\ IsFiniteSet(Kept(t) \union {key}) /\ Cardinality(Kept(t) \union {key}) <= MaxKeys
  BY <1>1, BoundKeysMakesRoom DEF left
<1>3. /\ pushed \in [K -> SUBSET Entries] /\ pushed[key] = t[key] \union {e}
      /\ \A k \in K \ {key} : pushed[k] = t[k]
  BY <1>2, PushAdds
<1>4. e[1] = now
  OBVIOUS
<1> HIDE DEF pushed, e
<1>5. \A k \in K : pushed[k] \subseteq table[k] \union {e}
  BY <1>1, <1>2, <1>3
<1>6. QED
  BY <1>3, <1>4, <1>5 DEF Stamped, pushed

\* The entries of a table that goes on this way are not ahead of the clock.
LEMMA StampedIsNotAhead ==
  ASSUME NEW K, NEW old \in [K -> SUBSET Entries], NEW new \in [K -> SUBSET Entries],
         Stamped(old, new), now \in Instants, now' \in Instants, now <= now',
         \A k \in K : \A e \in old[k] : e[1] <= now
  PROVE  \A k \in K : \A e \in new[k] : e[1] <= now'
<1>1. SUFFICES ASSUME NEW k \in K, NEW e \in new[k] PROVE e[1] <= now'
  OBVIOUS
<1>2. e[1] \in Nat /\ now \in Nat /\ now' \in Nat
  <2>1. e \in Entries
    BY <1>1
  <2>2. e[1] \in Instants
    BY <2>1 DEF Entries
  <2>3. QED
    BY <2>2, BudgetsAreNumbers
<1>3. e[1] <= now
  BY <1>1, <1>2 DEF Stamped
<1>4. QED
  BY <1>2, <1>3

LEMMA LoginStamps ==
  ASSUME BaseInv, [Next]_vars
  PROVE  Stamped(byIp, byIp') /\ Stamped(byAccount, byAccount')
<1>1. /\ byIp \in [Ips -> SUBSET Entries] /\ WithinCeiling(byIp)
      /\ byAccount \in [Accounts -> SUBSET Entries] /\ WithinCeiling(byAccount)
      /\ now \in Instants
  BY DEF BaseInv, TypeOK
<1>2. Stamped(byIp, byIp) /\ Stamped(byAccount, byAccount)
  BY DEF Stamped
<1>3. CASE \E r \in Requests : Login(r)
  BY <1>1, <1>3, LoginStarts, PruneStamps
<1>4. CASE \E r \in Requests : RecordFailure(r)
  <2>1. PICK r \in Requests : RecordFailure(r)
    BY <1>4
  <2>2. req[r].ip \in Ips /\ req[r].account \in Accounts
    BY <2>1, FailureCharged
  <2>3. PICK ips \in bound_keys(prune(byIp, Window, now), req[r].ip, MaxFailures, MaxKeys),
             accounts \in bound_keys(prune(byAccount, Window, now), req[r].account,
                                     MaxAccountFailures, MaxKeys) :
          /\ byIp' = Push(ips, req[r].ip, now)
          /\ byAccount' = Push(accounts, req[r].account, now)
    BY <2>1 DEF RecordFailure
  <2>4. QED
    BY <1>1, <2>2, <2>3, PushStamps
<1>5. CASE \E r \in Requests : LoggedIn(r)
  <2>1. PICK r \in Requests : LoggedIn(r)
    BY <1>5
  <2> DEFINE left == prune(byAccount, Window, now)
  <2>2. byIp' = byIp /\ byAccount' = [left EXCEPT ![req[r].account] = {}]
    BY <2>1 DEF LoggedIn, record_success
  <2>3. left \in [Accounts -> SUBSET Entries] /\ Stamped(byAccount, left)
    BY <1>1, PruneKeeps, PruneStamps
  <2> HIDE DEF left
  <2>4. QED
    BY <1>2, <2>2, <2>3 DEF Stamped
<1>6. CASE Restart
  BY <1>6 DEF Restart, Stamped
<1>7. QED
  BY <1>2, <1>3, <1>4, <1>5, <1>6, WhoWritesBuckets

LEMMA MintStamps ==
  ASSUME BaseInv, [Next]_vars
  PROVE  Stamped(byMinter, byMinter')
<1>1. /\ byMinter \in [Users -> SUBSET Entries] /\ WithinCeiling(byMinter)
      /\ now \in Instants
  BY DEF BaseInv, TypeOK
<1>2. Stamped(byMinter, byMinter)
  BY DEF Stamped
<1> DEFINE left == prune(byMinter, TokenMintWindow, now)
<1>3. left \in [Users -> SUBSET Entries] /\ WithinCeiling(left) /\ Stamped(byMinter, left)
  BY <1>1, PruneKeeps, PruneStamps
<1>4. ASSUME NEW r \in Requests, Reserve(r)
      PROVE  Stamped(byMinter, byMinter')
  <2>1. req[r].account \in Users
    BY <1>4 DEF BaseInv, Knows, Reserve
  <2>2. CASE byMinter' = left
    BY <1>3, <2>2
  <2>3. CASE byMinter' \in Reserved(req[r].account)
    <3>1. PICK t \in bound_keys(left, req[r].account, MaxTokenMints, MaxKeys) :
            byMinter' = Push(t, req[r].account, now)
      BY <2>3 DEF Reserved
    <3>2. QED
      BY <1>1, <2>1, <3>1, PushStamps
  <2>4. QED
    BY <1>4, <2>2, <2>3 DEF Reserve
<1>5. ASSUME NEW r \in Requests, Release(r), req[r].account \in Users
      PROVE  Stamped(byMinter, byMinter')
  <2>1. byMinter' = Pop(left, req[r].account, req[r].at)
    BY <1>5 DEF Release
  <2> HIDE DEF left
  <2>2. /\ byMinter' \in [Users -> SUBSET Entries]
        /\ \A u \in Users : byMinter'[u] \subseteq left[u]
    BY <1>3, <1>5, <2>1, PopTakes
  <2>3. QED
    BY <1>3, <2>2 DEF Stamped
<1>6. ASSUME NEW r \in Requests, Step(r), ~Reserve(r)
      PROVE  byMinter' = byMinter \/ (Release(r) /\ req[r].account \in Users)
  <2>1. Knows(r)
    BY DEF BaseInv
  <2>2. CASE InsertToken(r) \/ Timeout(r)
    BY <2>1, <2>2 DEF InsertToken, Timeout, Knows, limiter
  <2>3. CASE ~InsertToken(r) /\ ~Timeout(r)
    BY <1>6, <2>3, OthersLeaveSlots
  <2>4. QED
    BY <2>2, <2>3
<1>7. CASE Tick \/ (\E u \in Users : Deactivate(u)) \/ UNCHANGED vars
  BY <1>2, <1>7 DEF Tick, Deactivate, limiter, vars
<1>8. CASE Restart
  BY <1>8 DEF Restart, Stamped
<1>9. QED
  BY <1>2, <1>4, <1>5, <1>6, <1>7, <1>8 DEF Next

LEMMA ClockStep ==
  ASSUME TypeOK, [Next]_vars
  PROVE  now <= now'
<1>1. now \in Nat
  BY BudgetsAreNumbers DEF TypeOK
<1>2. CASE Tick
  BY <1>1, <1>2 DEF Tick
<1>3. ASSUME ~Tick PROVE now' = now
  BY <1>3 DEF Next, Step, Login, Refuse, Verify, RecordFailure, InsertSession, LoggedIn,
     BeginMint, Reserve, InsertToken, Minted, Logout, Revoke, CountSessions,
     BeginOthers, RevokeOthers, BeginRevoke, Touch, RevokeToken, Timeout, Deactivate,
     Restart, vars
<1>4. QED
  BY <1>1, <1>2, <1>3

LEMMA NoneAheadAlways == Spec => []NoneAhead
<1>1. ASSUME Init PROVE NoneAhead
  <2>1. PICK tables \in Past : byIp = tables.ip /\ byAccount = tables.account
    BY <1>1 DEF Init
  <2>2. now = Dawn /\ \A u \in Users : byMinter[u] = {}
    BY <1>1 DEF Init
  <2>3. QED
    BY <2>1, <2>2, PastAssumption DEF NoneAhead
<1>2. ASSUME BaseInv, BaseInv', NoneAhead, [Next]_vars
      PROVE  NoneAhead'
  <2>1. TypeOK /\ TypeOK'
    BY <1>2 DEF BaseInv
  <2>2. /\ byIp \in [Ips -> SUBSET Entries] /\ byIp' \in [Ips -> SUBSET Entries]
        /\ byAccount \in [Accounts -> SUBSET Entries]
        /\ byAccount' \in [Accounts -> SUBSET Entries]
        /\ byMinter \in [Users -> SUBSET Entries] /\ byMinter' \in [Users -> SUBSET Entries]
        /\ now \in Instants /\ now' \in Instants
    BY <2>1 DEF TypeOK
  <2>3. now <= now'
    BY <1>2, <2>1, ClockStep
  <2>4. /\ Stamped(byIp, byIp') /\ Stamped(byAccount, byAccount')
        /\ Stamped(byMinter, byMinter')
    BY <1>2, LoginStamps, MintStamps
  <2>5. \A i \in Ips : \A e \in byIp'[i] : e[1] <= now'
    BY <1>2, <2>2, <2>3, <2>4, StampedIsNotAhead DEF NoneAhead
  <2>6. \A a \in Accounts : \A e \in byAccount'[a] : e[1] <= now'
    BY <1>2, <2>2, <2>3, <2>4, StampedIsNotAhead DEF NoneAhead
  <2>7. \A u \in Users : \A e \in byMinter'[u] : e[1] <= now'
    BY <1>2, <2>2, <2>3, <2>4, StampedIsNotAhead DEF NoneAhead
  <2>8. QED
    BY <2>5, <2>6, <2>7 DEF NoneAhead
<1>3. QED
  BY <1>1, <1>2, BaseAlways, PTL DEF Spec

\* Only login and the mint budget refuse.
LEMMA WhoRefuses ==
  ASSUME BaseInv, [Next]_vars, NEW r \in Requests,
         req[r].pc # "refused", req'[r].pc = "refused"
  PROVE  Login(r) \/ Reserve(r)
<1>1. TypeOK /\ req \in [Requests -> Request]
  BY DEF BaseInv, TypeOK
<1>2. ASSUME NEW q \in Requests, Step(q) PROVE Login(r) \/ Reserve(r)
  <2>1. CASE ~Reserve(q) /\ ~InsertToken(q) /\ ~Timeout(q)
    BY <1>1, <1>2, <2>1, OnlyMintersMint
  <2>2. CASE Reserve(q)
    BY <1>1, <2>2 DEF Reserve
  <2>3. CASE Answer(q)
    BY <1>1, <2>3, Answered, IdleIsRequest
  <2>4. CASE InsertToken(q) /\ ~Answer(q)
    <3>1. req' = [req EXCEPT ![q].pc = "minted", ![q].new = NewId(tokens)]
      BY <2>4 DEF InsertToken
    <3>2. req'[q] = [req[q] EXCEPT !.pc = "minted", !.new = NewId(tokens)]
      BY <1>1, <3>1
    <3>3. req[q] \in Request
      BY <1>1
    <3>4. req'[q].pc = "minted"
      BY <3>2, <3>3 DEF Request
    <3>5. \A o \in Requests \ {q} : req'[o] = req[o]
      BY <1>1, <3>1
    <3>6. QED
      BY <3>4, <3>5
  <2>5. QED
    BY <1>2, <2>1, <2>2, <2>3, <2>4 DEF Timeout
<1>3. ~Restart
  BY IdleIsRequest DEF Restart
<1>4. QED
  BY <1>2, <1>3 DEF Next, Tick, Deactivate, vars

\* A bucket, and a pause that is less than a second short of its wait.
LEMMA AfterPause ==
  ASSUME NEW bucket \in SUBSET Entries, IsFiniteSet(bucket), bucket # {},
         NEW t \in Nat, NEW window \in Nat \ {0}, LeftIn(bucket, window, t) = bucket,
         NEW pause \in Nat, pause + Second - 1 >= WaitOf(bucket, window, t),
         NEW b, b = [entries |-> bucket, window |-> window]
  PROVE  Cardinality(LeftAt(b, t + pause + Second - 1)) < Cardinality(b.entries)
<1> DEFINE wait == WaitOf(bucket, window, t)
           s == t + pause + Second - 1
<1>1. /\ wait \in Nat
      /\ \A i \in Nat : i >= t + wait =>
           Cardinality(LeftIn(bucket, window, i)) < Cardinality(bucket)
  BY WaitNamesTheInstant
<1> HIDE DEF wait
<1>2. s \in Nat /\ s >= t + wait
  BY <1>1, BudgetsAreNumbers DEF wait
<1>3. LeftAt(b, s) = LeftIn(bucket, window, s)
  BY DEF LeftAt, LeftIn
<1> HIDE DEF s
<1>4. Cardinality(LeftAt(b, s)) < Cardinality(b.entries)
  BY <1>1, <1>2, <1>3
<1>5. QED
  BY <1>4 DEF s

\* And one that is not longer than its wait, or the least there is.
LEMMA BeforePause ==
  ASSUME NEW bucket \in SUBSET Entries, IsFiniteSet(bucket), bucket # {},
         NEW t \in Nat, NEW window \in Nat \ {0}, LeftIn(bucket, window, t) = bucket,
         \A e \in bucket : e[1] <= t, Second <= window, NEW pause \in Nat,
         NEW b, b = [entries |-> bucket, window |-> window]
  PROVE  LET wait == WaitOf(bucket, window, t)
         IN  /\ pause <= wait \/ pause = Second => pause <= b.window
             /\ pause <= wait => LeftAt(b, t + pause - 1) = b.entries
<1> DEFINE wait == WaitOf(bucket, window, t)
           s == t + pause - 1
<1>1. /\ wait \in Nat /\ wait <= window
      /\ \A i \in Int : i < t + wait => LeftIn(bucket, window, i) = bucket
  BY WaitNamesTheInstant
<1> HIDE DEF wait
<1>2. pause <= wait \/ pause = Second => pause <= window
  BY <1>1, BudgetsAreNumbers
<1>3. s \in Int /\ (pause <= wait => s < t + wait)
  BY <1>1
<1>4. LeftAt(b, s) = LeftIn(bucket, window, s)
  BY DEF LeftAt, LeftIn
<1> HIDE DEF s
<1>5. pause <= wait => LeftAt(b, s) = b.entries
  BY <1>1, <1>3, <1>4
<1>6. QED
  BY <1>2, <1>5 DEF s, wait

\* What prune leaves of a full bucket.
LEMMA FullIsThere ==
  ASSUME NEW all \in SUBSET Entries, IsFiniteSet(all), NEW t \in Nat,
         \A e \in all : e[1] <= t, NEW limit \in Nat \ {0}, NEW window \in Nat \ {0},
         NEW bucket, bucket = LeftIn(all, window, t), Full(bucket, limit)
  PROVE  /\ bucket \in SUBSET Entries /\ IsFiniteSet(bucket) /\ bucket # {}
         /\ LeftIn(bucket, window, t) = bucket
         /\ \A e \in bucket : e[1] <= t
<1>1. \A e \in bucket : e[1] <= t
  BY DEF LeftIn
<1>2. QED
  BY <1>1, BlockedFor

\* The promise, with the pause it tells the client to make.
LEMMA PromiseMade ==
  ASSUME NEW blocking, blocking # {}, NEW n \in Nat \ {0}, NEW t \in Nat,
         NEW pause, n * Second = pause,
         \A b \in blocking :
           Cardinality(LeftAt(b, t + pause + Second - 1)) < Cardinality(b.entries),
         \E b \in blocking :
           /\ pause <= b.window
           /\ n > 1 => LeftAt(b, t + pause - 1) = b.entries
  PROVE  Promise(blocking, n, t)
<1>1. Second \in Nat /\ n >= 1
  BY BudgetsAreNumbers
<1>2. \A b \in blocking :
        Cardinality(LeftAt(b, t + n * Second + Second - 1)) < Cardinality(b.entries)
  BY Zenon
<1>3. \E b \in blocking :
        /\ n * Second <= b.window
        /\ n > 1 => LeftAt(b, t + n * Second - 1) = b.entries
  BY Zenon
<1>4. QED
  BY <1>1, <1>2, <1>3 DEF Promise

LEMMA LoginTruthful ==
  ASSUME BaseInv, NoneAhead, NEW r \in Requests, Login(r), req'[r].pc = "refused"
  PROVE  Truthful(r)'
<1>1. TypeOK
  BY DEF BaseInv
<1>2. /\ byIp' = prune(byIp, Window, now) /\ byAccount' = prune(byAccount, Window, now)
      /\ now' = now
  BY <1>1, LoginBegins
<1>3. PICK q \in Request :
        /\ Start(r, q)
        /\ q.op = "login" /\ q.ip \in Ips /\ q.account \in Accounts
        /\ \/ q.pc = "selecting"
           \/ /\ q.pc = "refused" /\ check_login(q.ip, q.account) # {}
              /\ q.retry = retry_after(check_login(q.ip, q.account))
  BY <1>1, LoginBegins
<1>4. req'[r] = q
  BY <1>1, <1>3, Started
<1> DEFINE ips == prune(byIp, Window, now)[q.ip]
           accounts == prune(byAccount, Window, now)[q.account]
           waits == check_login(q.ip, q.account)
           n == retry_after(waits)
           pause == n * Second
           wi == WaitOf(ips, Window, now)
           wa == WaitOf(accounts, Window, now)
           bi == [entries |-> ips, window |-> Window]
           ba == [entries |-> accounts, window |-> Window]
           fi == Full(ips, MaxFailures)
           fa == Full(accounts, MaxAccountFailures)
<1>5. waits # {} /\ req'[r].op = "login" /\ req'[r].retry = n
      /\ req'[r].ip = q.ip /\ req'[r].account = q.account
  BY <1>3, <1>4
<1>6. /\ fi => wi \in waits
      /\ fa => wa \in waits
      /\ \A w \in waits : (fi /\ w = wi) \/ (fa /\ w = wa)
      /\ Longest(waits) \in waits /\ Longest(waits) \in Nat \ {0}
      /\ \A w \in waits : w <= Longest(waits)
  BY <1>1, <1>3, <1>5, CheckLogin
<1>7. /\ n \in Nat \ {0} /\ pause \in Nat
      /\ pause + Second - 1 >= Longest(waits)
      /\ n > 1 => pause <= Longest(waits)
      /\ pause <= Longest(waits) \/ pause = Second
  BY <1>6, RetrySays
<1>8. /\ byIp[q.ip] \in SUBSET Entries /\ IsFiniteSet(byIp[q.ip])
      /\ byAccount[q.account] \in SUBSET Entries /\ IsFiniteSet(byAccount[q.account])
      /\ ips = LeftIn(byIp[q.ip], Window, now)
      /\ accounts = LeftIn(byAccount[q.account], Window, now)
      /\ now \in Nat
      /\ \A e \in byIp[q.ip] : e[1] <= now
      /\ \A e \in byAccount[q.account] : e[1] <= now
  BY <1>1, <1>3, BudgetsAreNumbers DEF TypeOK, WithinCeiling, prune, LeftIn, NoneAhead
<1>9. /\ MaxFailures \in Nat \ {0} /\ MaxAccountFailures \in Nat \ {0}
      /\ Window \in Nat \ {0} /\ Second \in Nat \ {0} /\ Second <= Window
  BY BudgetsAreNumbers
<1>10. Blocking(r)' = (IF fi THEN {bi} ELSE {}) \union (IF fa THEN {ba} ELSE {})
  BY <1>2, <1>5 DEF Blocking, FullBucket
<1> HIDE DEF ips, accounts, waits, n, fi, fa
<1>11. ASSUME fi
       PROVE  /\ ips \in SUBSET Entries /\ IsFiniteSet(ips) /\ ips # {}
              /\ LeftIn(ips, Window, now) = ips /\ \A e \in ips : e[1] <= now
  <2>1. Full(ips, MaxFailures)
    BY <1>11 DEF fi
  <2>2. QED
    BY <1>8, <1>9, <2>1, FullIsThere
<1>12. ASSUME fa
       PROVE  /\ accounts \in SUBSET Entries /\ IsFiniteSet(accounts) /\ accounts # {}
              /\ LeftIn(accounts, Window, now) = accounts /\ \A e \in accounts : e[1] <= now
  <2>1. Full(accounts, MaxAccountFailures)
    BY <1>12 DEF fa
  <2>2. QED
    BY <1>8, <1>9, <2>1, FullIsThere
<1> HIDE DEF pause, bi, ba
<1>13. ASSUME fi
       PROVE  /\ Cardinality(LeftAt(bi, now + pause + Second - 1)) < Cardinality(bi.entries)
              /\ Longest(waits) = wi =>
                   /\ pause <= bi.window
                   /\ n > 1 => LeftAt(bi, now + pause - 1) = bi.entries
  <2>1. wi \in Nat \ {0}
    BY <1>8, <1>9, <1>11, <1>13, WaitNamesTheInstant
  <2>2. pause + Second - 1 >= wi
    BY <1>6, <1>7, <1>9, <1>13, <2>1
  <2>3. Cardinality(LeftAt(bi, now + pause + Second - 1)) < Cardinality(bi.entries)
    BY <1>7, <1>8, <1>9, <1>11, <1>13, <2>2, AfterPause DEF bi
  <2>4. ASSUME Longest(waits) = wi
        PROVE  /\ pause <= bi.window
               /\ n > 1 => LeftAt(bi, now + pause - 1) = bi.entries
    <3>1. (n > 1 => pause <= wi) /\ (pause <= wi \/ pause = Second)
      BY <1>7, <2>4
    <3>2. /\ pause <= wi \/ pause = Second => pause <= bi.window
          /\ pause <= wi => LeftAt(bi, now + pause - 1) = bi.entries
      BY <1>7, <1>8, <1>9, <1>11, <1>13, BeforePause DEF bi
    <3>3. QED
      BY <3>1, <3>2
  <2>5. QED
    BY <2>3, <2>4
<1>14. ASSUME fa
       PROVE  /\ Cardinality(LeftAt(ba, now + pause + Second - 1)) < Cardinality(ba.entries)
              /\ Longest(waits) = wa =>
                   /\ pause <= ba.window
                   /\ n > 1 => LeftAt(ba, now + pause - 1) = ba.entries
  <2>1. wa \in Nat \ {0}
    BY <1>8, <1>9, <1>12, <1>14, WaitNamesTheInstant
  <2>2. pause + Second - 1 >= wa
    BY <1>6, <1>7, <1>9, <1>14, <2>1
  <2>3. Cardinality(LeftAt(ba, now + pause + Second - 1)) < Cardinality(ba.entries)
    BY <1>7, <1>8, <1>9, <1>12, <1>14, <2>2, AfterPause DEF ba
  <2>4. ASSUME Longest(waits) = wa
        PROVE  /\ pause <= ba.window
               /\ n > 1 => LeftAt(ba, now + pause - 1) = ba.entries
    <3>1. (n > 1 => pause <= wa) /\ (pause <= wa \/ pause = Second)
      BY <1>7, <2>4
    <3>2. /\ pause <= wa \/ pause = Second => pause <= ba.window
          /\ pause <= wa => LeftAt(ba, now + pause - 1) = ba.entries
      BY <1>7, <1>8, <1>9, <1>12, <1>14, BeforePause DEF ba
    <3>3. QED
      BY <3>1, <3>2
  <2>5. QED
    BY <2>3, <2>4
<1>15. \A b \in Blocking(r)' :
         Cardinality(LeftAt(b, now + pause + Second - 1)) < Cardinality(b.entries)
  BY <1>10, <1>13, <1>14
<1>16. \E b \in Blocking(r)' :
         /\ pause <= b.window
         /\ n > 1 => LeftAt(b, now + pause - 1) = b.entries
  BY <1>6, <1>10, <1>13, <1>14
<1>17. Blocking(r)' # {} /\ n >= 1
  BY <1>7, <1>16
<1>18. now' = now /\ req'[r].retry = n
  BY <1>2, <1>5
<1>19. QED
  <2>1. Promise(Blocking(r)', n, now)
    BY <1>7, <1>8, <1>9, <1>15, <1>16, <1>17, PromiseMade DEF pause
  <2>2. QED
    BY <1>18, <2>1 DEF Truthful

LEMMA MintTruthful ==
  ASSUME BaseInv, NoneAhead, NEW r \in Requests, Reserve(r), req'[r].pc = "refused"
  PROVE  Truthful(r)'
<1> DEFINE u == req[r].account
           bucket == prune(byMinter, TokenMintWindow, now)[u]
           waits == MintWait(u)
           n == retry_after(waits)
           pause == n * Second
           wait == WaitOf(bucket, TokenMintWindow, now)
           b == [entries |-> bucket, window |-> TokenMintWindow]
<1>1. TypeOK /\ req[r].op = "mint" /\ u \in Users /\ now' = now
  BY DEF BaseInv, Knows, Reserve
<1>2. ~(req' = [req EXCEPT ![r].pc = "minting", ![r].at = now])
  <2>1. started' = started
    BY DEF Reserve
  <2>2. QED
    BY <1>1, <2>1, Slotted
<1>3. /\ waits # {}
      /\ byMinter' = prune(byMinter, TokenMintWindow, now)
      /\ req' = [req EXCEPT ![r].pc = "refused", ![r].retry = retry_after(waits)]
      /\ started' = started
  BY <1>2 DEF Reserve
<1>4. /\ Full(bucket, MaxTokenMints) /\ Longest(waits) = wait /\ wait \in Nat \ {0}
      /\ req'[r].op = "mint" /\ req'[r].account = u /\ req'[r].retry = n
  BY <1>1, <1>3, MintRefused
<1>5. /\ n \in Nat \ {0} /\ pause \in Nat
      /\ pause + Second - 1 >= wait
      /\ n > 1 => pause <= wait
      /\ pause <= wait \/ pause = Second
  BY <1>4, RetrySays
<1>6. /\ byMinter[u] \in SUBSET Entries /\ IsFiniteSet(byMinter[u])
      /\ bucket = LeftIn(byMinter[u], TokenMintWindow, now)
      /\ now \in Nat /\ \A e \in byMinter[u] : e[1] <= now
  BY <1>1, BudgetsAreNumbers DEF TypeOK, WithinCeiling, prune, LeftIn, NoneAhead
<1>7. /\ MaxTokenMints \in Nat \ {0} /\ TokenMintWindow \in Nat \ {0}
      /\ Second \in Nat \ {0} /\ Second <= TokenMintWindow
  BY BudgetsAreNumbers
<1>8. Blocking(r)' = {b}
  BY <1>3, <1>4 DEF Blocking, FullBucket
<1> HIDE DEF u, bucket, waits, n
<1>9. /\ bucket \in SUBSET Entries /\ IsFiniteSet(bucket) /\ bucket # {}
      /\ LeftIn(bucket, TokenMintWindow, now) = bucket /\ \A e \in bucket : e[1] <= now
  BY <1>4, <1>6, <1>7, FullIsThere
<1> HIDE DEF pause, b
<1>10. Cardinality(LeftAt(b, now + pause + Second - 1)) < Cardinality(b.entries)
  BY <1>5, <1>6, <1>7, <1>9, AfterPause DEF b
<1>11. /\ pause <= wait \/ pause = Second => pause <= b.window
       /\ pause <= wait => LeftAt(b, now + pause - 1) = b.entries
  BY <1>5, <1>6, <1>7, <1>9, BeforePause DEF b
<1>12. /\ pause <= b.window
       /\ n > 1 => LeftAt(b, now + pause - 1) = b.entries
  BY <1>5, <1>11
<1>13. now' = now /\ req'[r].retry = n /\ n >= 1
  BY <1>1, <1>4, <1>5
<1>14. QED
  <2>1. Promise(Blocking(r)', n, now)
    BY <1>5, <1>6, <1>8, <1>10, <1>12, PromiseMade DEF pause
  <2>2. QED
    BY <1>13, <2>1 DEF Truthful

\* A client refused by its address, its account, both or the budget of its mints
\* that comes back when Retry-After says, or less than a second later, finds an
\* entry less in every bucket that refused it, and is sent away neither longer
\* than the window nor, but for the least second, than a bucket stays as it is.
THEOREM RetryAfterTrue == Spec => RetryAfterIsTrue
<1> DEFINE Answers == \A r \in Requests :
             req[r].pc # "refused" /\ req'[r].pc = "refused" => Truthful(r)'
<1>1. ASSUME BaseInv, NoneAhead, [Next]_vars PROVE Answers
  BY <1>1, WhoRefuses, LoginTruthful, MintTruthful
<1>2. BaseInv /\ NoneAhead /\ [Next]_vars => [Answers]_vars
  BY <1>1
<1>3. QED
  BY <1>2, BaseAlways, NoneAheadAlways, PTL DEF Spec, RetryAfterIsTrue

-----------------------------------------------------------------------------
(* The budget of mints, kept.                                              *)

\* Nobody is evicted from a table with room for everybody.
LEMMA NobodyEvicted ==
  ASSUME TypeOK, MintersFit, NEW u \in Users, NEW limit,
         NEW table \in [Users -> SUBSET Entries],
         NEW t \in bound_keys(table, u, limit, MaxKeys)
  PROVE  t = table
<1>1. CASE table[u] # {}
  BY <1>1 DEF bound_keys
<1>2. CASE table[u] = {}
  <2>1. IsFiniteSet(Users) /\ Cardinality(Users) <= MaxKeys
    BY DEF MintersFit
  <2>2. Kept(table) \in SUBSET (Users \ {u})
    BY <1>2 DEF Kept
  <2>3. /\ IsFiniteSet(Users \ {u}) /\ Cardinality(Users \ {u}) = Cardinality(Users) - 1
        /\ Cardinality(Users) \in Nat
    BY <2>1, TakeOne
  <2>4. /\ IsFiniteSet(Kept(table))
        /\ Cardinality(Kept(table)) <= Cardinality(Users \ {u})
    BY <2>2, <2>3, FS_Subset
  <2>5. Cardinality(Kept(table)) \in Nat
    BY <2>4, FS_CardinalityType
  <2>6. Cardinality(Kept(table)) < MaxKeys
    BY <2>1, <2>3, <2>4, <2>5, BudgetsAreNumbers
  <2>7. QED
    BY <2>6 DEF bound_keys
<1>3. QED
  BY <1>1, <1>2

\* A release takes one entry of the user, at the instant its slot was taken.
LEMMA ReleaseTakes ==
  ASSUME TypeOK, NEW r \in Requests, req[r].account \in Users, Release(r), now' = now,
         NEW u \in Users
  PROVE  /\ u = req[r].account =>
              Live(u)' = Live(u) \ {<<req[r].at, Cardinality(At(Live(u), req[r].at))>>}
         /\ u # req[r].account => Live(u)' = Live(u)
<1> DEFINE left == prune(byMinter, TokenMintWindow, now)
<1>1. left \in [Users -> SUBSET Entries] /\ WithinCeiling(left)
  BY PruneLoginsKeeps
<1>2. \A v \in Users : left[v] = Live(v)
  BY DEF TypeOK, prune, Live, LeftIn
<1>3. byMinter' = Pop(left, req[r].account, req[r].at)
  BY DEF Release
<1> HIDE DEF left
<1>4. /\ byMinter'[req[r].account] =
           left[req[r].account] \
             {<<req[r].at, Cardinality(At(left[req[r].account], req[r].at))>>}
      /\ \A v \in Users \ {req[r].account} : byMinter'[v] = left[v]
  BY <1>1, <1>3, PopTakes
<1>5. CASE u = req[r].account
  <2>1. byMinter'[u] = Live(u) \ {<<req[r].at, Cardinality(At(Live(u), req[r].at))>>}
    BY <1>2, <1>4, <1>5
  <2>2. LeftIn(Live(u) \ {<<req[r].at, Cardinality(At(Live(u), req[r].at))>>},
               TokenMintWindow, now)
          = Live(u) \ {<<req[r].at, Cardinality(At(Live(u), req[r].at))>>}
    BY DEF Live, LeftIn
  <2>3. Live(u)' = LeftIn(byMinter'[u], TokenMintWindow, now)
    BY DEF Live
  <2>4. QED
    BY <1>5, <2>1, <2>2, <2>3
<1>6. CASE u # req[r].account
  <2>1. byMinter'[u] = Live(u)
    BY <1>2, <1>4, <1>6
  <2>2. LeftIn(Live(u), TokenMintWindow, now) = Live(u)
    BY DEF Live, LeftIn
  <2>3. Live(u)' = LeftIn(byMinter'[u], TokenMintWindow, now)
    BY DEF Live
  <2>4. QED
    BY <1>6, <2>1, <2>2, <2>3
<1>7. QED
  BY <1>5, <1>6

\* A user of whom r is not.
LEMMA OtherUser ==
  ASSUME MintInv, NEW r \in Requests, NEW u \in Users, u # req[r].account, now' = now,
         Live(u)' = Live(u),
         \A q \in Requests \ {r} : req'[q] = req[q],
         req'[r].pc = "minting" => req'[r].account = req[r].account,
         \A k \in Tokens :
           \/ tokens'[k] = tokens[k]
           \/ /\ tokens[k].state = "unused" \/ tokens[k].user = req[r].account
              /\ tokens'[k].user = req[r].account
  PROVE  NumberedFor(u)' /\ BudgetFor(u)'
<1>1. NumberedFor(u) /\ BudgetFor(u)
  BY DEF MintInv
<1>2. \A k \in Tokens : k \in list_tokens(u)' <=> k \in list_tokens(u)
  BY DEF list_tokens
<1>3. \A k \in list_tokens(u) : /\ tokens'[k].minted = tokens[k].minted
                                /\ tokens'[k].lost = tokens[k].lost
  BY DEF list_tokens
<1>4. \A q \in Requests :
        /\ (req'[q].pc = "minting" /\ req'[q].account = u)
             <=> (req[q].pc = "minting" /\ req[q].account = u)
        /\ req[q].pc = "minting" /\ req[q].account = u => req'[q].at = req[q].at
  OBVIOUS
<1>5. QED
  BY <1>1, <1>2, <1>3, <1>4, SameUser

LEMMA ReserveMints ==
  ASSUME BaseInv, BaseInv', MintersFit, MintInv, NEW r \in Requests, Reserve(r)
  PROVE  MintInv'
<1>1. TypeOK /\ TypeOK' /\ req[r].account \in Users
  BY DEF BaseInv, Knows, Reserve
<1>2. /\ req[r].pc = "reserving" /\ now' = now /\ tokens' = tokens
  BY DEF Reserve, rows
<1> DEFINE left == prune(byMinter, TokenMintWindow, now)
<1>3. CASE /\ MintWait(req[r].account) # {}
           /\ byMinter' = left
           /\ req' = [req EXCEPT ![r].pc = "refused",
                                 ![r].retry = retry_after(MintWait(req[r].account))]
           /\ started' = started
  <2>1. /\ \A q \in Requests \ {r} : req'[q] = req[q]
        /\ req'[r].pc # "minting" /\ req[r].pc # "minting"
    BY <1>1, <1>2, <1>3, MintRefused
  <2>2. \A u \in Users : Live(u)' = Live(u)
    BY <1>1, <1>2, <1>3, LiveStays
  <2>3. QED
    BY <1>2, <2>1, <2>2, MintQuiet
<1>4. CASE /\ MintWait(req[r].account) = {}
           /\ byMinter' \in Reserved(req[r].account)
           /\ req' = [req EXCEPT ![r].pc = "minting", ![r].at = now]
           /\ started' = started
  <2>1. PICK v \in Users : v = req[r].account
    BY <1>1
  <2>2. /\ left \in [Users -> SUBSET Entries] /\ WithinCeiling(left) /\ now \in Instants
        /\ \A w \in Users : left[w] = Live(w)
    BY <1>1, PruneLoginsKeeps DEF TypeOK, prune, Live, LeftIn
  <2>3. /\ ~Full(left[v], MaxTokenMints)
        /\ \E t \in bound_keys(left, v, MaxTokenMints, MaxKeys) : byMinter' = Push(t, v, now)
    <3>1. ~Full(left[v], MaxTokenMints)
      BY <1>4, <2>1 DEF MintWait, blocked_for
    <3>2. QED
      BY <1>4, <2>1, <3>1 DEF Reserved
  <2> HIDE DEF left
  <2>4. PICK t \in bound_keys(left, v, MaxTokenMints, MaxKeys) : byMinter' = Push(t, v, now)
    BY <2>3
  <2>5. t = left
    BY <1>1, <2>2, NobodyEvicted
  <2>6. /\ IsFiniteSet(Kept(left) \union {v})
        /\ Cardinality(Kept(left) \union {v}) <= MaxKeys
    BY <2>2, <2>4, <2>5, BoundKeysMakesRoom
  <2>7. /\ byMinter'[v] = left[v] \union {<<now, Cardinality(At(left[v], now)) + 1>>}
        /\ \A w \in Users \ {v} : byMinter'[w] = left[w]
    BY <2>2, <2>4, <2>5, <2>6, PushAdds
  <2>8. /\ now \in Nat /\ now - now < TokenMintWindow
    BY <2>2, BudgetsAreNumbers
  <2>9. Live(v)' = Live(v) \union {<<now, Cardinality(At(Live(v), now)) + 1>>}
    <3>1. Live(v)' = LeftIn(byMinter'[v], TokenMintWindow, now)
      BY <1>2 DEF Live
    <3>2. LeftIn(Live(v) \union {<<now, Cardinality(At(Live(v), now)) + 1>>},
                 TokenMintWindow, now)
            = Live(v) \union {<<now, Cardinality(At(Live(v), now)) + 1>>}
      BY <2>8 DEF Live, LeftIn
    <3>3. byMinter'[v] = Live(v) \union {<<now, Cardinality(At(Live(v), now)) + 1>>}
      BY <2>2, <2>7
    <3>4. QED
      BY <3>1, <3>2, <3>3
  <2>10. \A w \in Users \ {v} : Live(w)' = Live(w)
    <3>1. ASSUME NEW w \in Users \ {v} PROVE Live(w)' = Live(w)
      <4>1. Live(w)' = LeftIn(byMinter'[w], TokenMintWindow, now) /\ byMinter'[w] = Live(w)
        BY <1>2, <2>2, <2>7 DEF Live
      <4>2. LeftIn(Live(w), TokenMintWindow, now) = Live(w)
        BY DEF Live, LeftIn
      <4>3. QED
        BY <4>1, <4>2
    <3>2. QED
      BY <3>1
  <2>11. /\ req'[r].pc = "minting" /\ req'[r].account = v /\ req'[r].at = now
         /\ \A o \in Requests \ {r} : req'[o] = req[o]
    BY <1>1, <1>4, <2>1, Slotted
  <2>12. Cardinality(Live(v)) < MaxTokenMints
    <3>1. ~(Cardinality(Live(v)) >= MaxTokenMints)
      BY <2>2, <2>3 DEF Full
    <3>2. Cardinality(Live(v)) \in Nat
      BY <1>1, MintSetsAreFinite DEF MintSetsFinite
    <3>3. QED
      BY <3>1, <3>2, BudgetsAreNumbers
  <2>13. NumberedFor(v)' /\ BudgetFor(v)'
    <3>1. NumberedFor(v) /\ BudgetFor(v) /\ req[r].pc # "minting"
      BY <1>2 DEF MintInv
    <3>2. QED
      BY <1>1, <1>2, <2>9, <2>11, <2>12, <3>1, SlotTaken
  <2>14. ASSUME NEW w \in Users, w # v
         PROVE  NumberedFor(w)' /\ BudgetFor(w)'
    BY <1>2, <2>1, <2>10, <2>11, <2>14, OtherUser
  <2>15. QED
    BY <2>13, <2>14 DEF MintInv
<1>5. QED
  BY <1>3, <1>4 DEF Reserve

\* A create that holds a slot and gives it back without having inserted.
LEMMA CreateReleased ==
  ASSUME BaseInv, BaseInv', MintInv, NEW r \in Requests, req[r].pc = "minting",
         Release(r), Answer(r), now' = now, tokens' = tokens
  PROVE  MintInv'
<1>1. TypeOK /\ TypeOK' /\ req[r].account \in Users /\ req[r].at \in Instants
  BY DEF BaseInv, Knows
<1>2. PICK u \in Users, i \in Instants : u = req[r].account /\ i = req[r].at
  BY <1>1
<1>3. /\ req'[r].pc # "minting" /\ \A o \in Requests \ {r} : req'[o] = req[o]
  BY <1>1, Answered, IdleIsRequest
<1>4. /\ Live(u)' = Live(u) \ {<<i, Cardinality(At(Live(u), i))>>}
      /\ \A w \in Users \ {u} : Live(w)' = Live(w)
  BY <1>1, <1>2, ReleaseTakes
<1>5. /\ CountedTokens(u)' = CountedTokens(u)
      /\ \A t : TokensOf(u, t)' = TokensOf(u, t)
  BY DEF CountedTokens, TokensOf, list_tokens
<1>6. /\ Loses(CreatesOf(u, i), CreatesOf(u, i)', r)
      /\ \A t : t # i => CreatesOf(u, t)' = CreatesOf(u, t)
  BY <1>2, <1>3 DEF CreatesOf, Loses
<1>7. /\ now - i < TokenMintWindow => Loses(Creating(u), Creating(u)', r)
      /\ ~(now - i < TokenMintWindow) => Creating(u)' = Creating(u)
  BY <1>2, <1>3 DEF Creating, Loses
<1>8. \A t \in Instants : t # i => Slots(u, t)' = Slots(u, t)
  BY <1>5, <1>6 DEF Slots
<1>9. Slots(u, i) = Slots(u, i)' + 1
  <2>1. Cardinality(CreatesOf(u, i)') = Cardinality(CreatesOf(u, i)) - 1
    BY <1>1, <1>6, TakeOne, MintSetsAreFinite DEF Loses, MintSetsFinite
  <2>2. Cardinality(TokensOf(u, i)) \in Nat /\ Cardinality(CreatesOf(u, i)) \in Nat
    BY <1>1, MintSetsAreFinite DEF MintSetsFinite
  <2>3. QED
    BY <1>5, <2>1, <2>2 DEF Slots
<1>10. now - i < TokenMintWindow =>
         Cardinality(Creating(u)) = Cardinality(Creating(u)') + 1
  <2>1. IsFiniteSet(Creating(u))
    BY <1>1, MintSetsAreFinite DEF MintSetsFinite
  <2>2. QED
    BY <1>7, <2>1, LosesOne
<1>11. NumberedFor(u)' /\ BudgetFor(u)'
  <2>1. NumberedFor(u) /\ BudgetFor(u)
    BY DEF MintInv
  <2>2. QED
    BY <1>1, <1>4, <1>5, <1>7, <1>8, <1>9, <1>10, <2>1, SlotReleased
<1>12. ASSUME NEW w \in Users, w # u
       PROVE  NumberedFor(w)' /\ BudgetFor(w)'
  BY <1>2, <1>3, <1>4, <1>12, OtherUser
<1>13. QED
  BY <1>11, <1>12 DEF MintInv

\* A create dropped after its insert: its token no longer counts.
LEMMA MintedDropped ==
  ASSUME BaseInv, BaseInv', MintInv, NEW r \in Requests, req[r].pc = "minted",
         Timeout(r)
  PROVE  MintInv'
<1>1. /\ TypeOK /\ TypeOK' /\ req[r].account \in Users /\ req[r].at \in Instants
      /\ Inserted(r)
  BY DEF BaseInv, Knows
<1>2. PICK u \in Users, i \in Instants : u = req[r].account /\ i = req[r].at
  BY <1>1
<1>3. PICK k \in Tokens : k = req[r].new
  BY <1>1 DEF Inserted
<1>4. /\ tokens[k].state # "unused" /\ ~tokens[k].lost
      /\ tokens[k].user = u /\ tokens[k].minted = i
  BY <1>1, <1>2, <1>3 DEF Inserted
<1>5. /\ Release(r) /\ Answer(r) /\ now' = now
      /\ tokens' = [tokens EXCEPT ![req[r].new].lost = TRUE]
  BY DEF Timeout
<1>6. /\ req'[r].pc # "minting" /\ \A o \in Requests \ {r} : req'[o] = req[o]
  BY <1>1, <1>5, Answered, IdleIsRequest
<1>7. tokens \in [Tokens -> Token]
  BY <1>1 DEF TypeOK
<1>8. /\ \A o \in Tokens \ {k} : tokens'[o] = tokens[o]
      /\ tokens'[k] = [tokens[k] EXCEPT !.lost = TRUE]
  BY <1>3, <1>5, <1>7
<1>9. /\ tokens'[k].state = tokens[k].state /\ tokens'[k].user = tokens[k].user
      /\ tokens'[k].minted = tokens[k].minted
  BY <1>7, <1>8 DEF Token
<1>10. tokens'[k].lost
  BY <1>7, <1>8 DEF Token
<1>11. list_tokens(u)' = list_tokens(u) /\ k \in list_tokens(u)
  BY <1>4, <1>8, <1>9 DEF list_tokens
<1>12. /\ Live(u)' = Live(u) \ {<<i, Cardinality(At(Live(u), i))>>}
       /\ \A w \in Users \ {u} : Live(w)' = Live(w)
  BY <1>1, <1>2, <1>5, ReleaseTakes
<1>13. /\ Creating(u)' = Creating(u)
       /\ \A t : CreatesOf(u, t)' = CreatesOf(u, t)
  BY <1>5, <1>6 DEF Creating, CreatesOf
<1>14. /\ Loses(TokensOf(u, i), TokensOf(u, i)', k)
       /\ \A t : t # i => TokensOf(u, t)' = TokensOf(u, t)
  <2>1. list_tokens(u) \in SUBSET Tokens
    BY DEF list_tokens
  <2>2. \A o \in list_tokens(u) :
          /\ tokens'[o].minted = tokens[o].minted
          /\ o # k => tokens'[o].lost = tokens[o].lost
    BY <1>8, <1>9, <2>1
  <2>3. TokensOf(u, i)' = TokensOf(u, i) \ {k}
    BY <1>10, <1>11, <2>2 DEF TokensOf
  <2>4. k \in TokensOf(u, i)
    BY <1>4, <1>11 DEF TokensOf
  <2>5. ASSUME NEW t, t # i PROVE TokensOf(u, t)' = TokensOf(u, t)
    BY <1>4, <1>11, <2>2, <2>5 DEF TokensOf
  <2>6. QED
    BY <2>3, <2>4, <2>5 DEF Loses
<1>15. /\ now - i < TokenMintWindow => Loses(CountedTokens(u), CountedTokens(u)', k)
       /\ ~(now - i < TokenMintWindow) => CountedTokens(u)' = CountedTokens(u)
  BY <1>4, <1>5, <1>8, <1>9, <1>10, <1>11 DEF CountedTokens, Loses, list_tokens
<1>16. \A t \in Instants : t # i => Slots(u, t)' = Slots(u, t)
  BY <1>13, <1>14 DEF Slots
<1>17. Slots(u, i) = Slots(u, i)' + 1
  <2>1. Cardinality(TokensOf(u, i)') = Cardinality(TokensOf(u, i)) - 1
    BY <1>1, <1>14, TakeOne, MintSetsAreFinite DEF Loses, MintSetsFinite
  <2>2. Cardinality(TokensOf(u, i)) \in Nat /\ Cardinality(CreatesOf(u, i)) \in Nat
    BY <1>1, MintSetsAreFinite DEF MintSetsFinite
  <2>3. QED
    BY <1>13, <2>1, <2>2 DEF Slots
<1>18. now - i < TokenMintWindow =>
         Cardinality(CountedTokens(u)) = Cardinality(CountedTokens(u)') + 1
  <2>1. IsFiniteSet(CountedTokens(u))
    BY <1>1, MintSetsAreFinite DEF MintSetsFinite
  <2>2. QED
    BY <1>15, <2>1, LosesOne
<1>19. NumberedFor(u)' /\ BudgetFor(u)'
  <2>1. NumberedFor(u) /\ BudgetFor(u)
    BY DEF MintInv
  <2>2. QED
    BY <1>1, <1>5, <1>12, <1>13, <1>15, <1>16, <1>17, <1>18, <2>1, SlotReleased
<1>20. ASSUME NEW w \in Users, w # u
       PROVE  NumberedFor(w)' /\ BudgetFor(w)'
  <2>1. \A o \in Tokens : \/ tokens'[o] = tokens[o]
                          \/ /\ tokens[o].state = "unused" \/ tokens[o].user = req[r].account
                             /\ tokens'[o].user = req[r].account
    BY <1>2, <1>4, <1>8, <1>9
  <2>2. QED
    BY <1>2, <1>5, <1>6, <1>12, <1>20, <2>1, OtherUser
<1>21. QED
  BY <1>19, <1>20 DEF MintInv

LEMMA TimeoutMints ==
  ASSUME BaseInv, BaseInv', MintInv, NEW r \in Requests, Timeout(r)
  PROVE  MintInv'
<1>1. TypeOK /\ Answer(r) /\ now' = now
  BY DEF BaseInv, Timeout
<1>2. CASE req[r].pc = "minted"
  BY <1>2, MintedDropped
<1>3. CASE req[r].pc = "minting"
  <2>1. Release(r) /\ tokens' = tokens
    BY <1>3 DEF Timeout
  <2>2. QED
    BY <1>1, <1>3, <2>1, CreateReleased
<1>4. CASE req[r].pc \notin {"minting", "minted"}
  <2>1. byMinter' = byMinter /\ tokens' = tokens
    BY <1>4 DEF Timeout, limiter
  <2>2. /\ \A q \in Requests \ {r} : req'[q] = req[q]
        /\ req'[r].pc # "minting" /\ req[r].pc # "minting"
    BY <1>1, <1>4, Answered, IdleIsRequest
  <2>3. \A u \in Users : Live(u)' = Live(u)
    BY <1>1, <2>1, LiveStays
  <2>4. QED
    BY <1>1, <2>1, <2>2, <2>3, MintQuiet
<1>5. QED
  BY <1>2, <1>3, <1>4

LEMMA InsertTokenMints ==
  ASSUME BaseInv, BaseInv', MintInv, NEW r \in Requests, InsertToken(r)
  PROVE  MintInv'
<1>1. /\ TypeOK /\ TypeOK' /\ req[r].account \in Users /\ req[r].at \in Instants
      /\ req[r].pc = "minting" /\ now' = now
  BY DEF BaseInv, Knows, InsertToken
<1>2. CASE NameTaken(req[r].account, req[r].name)
  <2>1. Release(r) /\ Answer(r) /\ tokens' = tokens
    BY <1>2 DEF InsertToken
  <2>2. QED
    BY <1>1, <2>1, CreateReleased
<1>3. CASE ~NameTaken(req[r].account, req[r].name)
  <2>1. /\ \E k \in Tokens :
             /\ tokens[k].state = "unused"
             /\ tokens'[k].state = "live" /\ tokens'[k].user = req[r].account
             /\ tokens'[k].minted = req[r].at /\ ~tokens'[k].lost
             /\ \A o \in Tokens \ {k} : tokens'[o] = tokens[o]
        /\ req'[r].pc = "minted"
        /\ \A o \in Requests \ {r} : req'[o] = req[o]
        /\ byMinter' = byMinter
    BY <1>1, <1>3, InsertedKeeps DEF InsertToken, limiter
  <2>2. PICK k \in Tokens :
             /\ tokens[k].state = "unused"
             /\ tokens'[k].state = "live" /\ tokens'[k].user = req[r].account
             /\ tokens'[k].minted = req[r].at /\ ~tokens'[k].lost
             /\ \A o \in Tokens \ {k} : tokens'[o] = tokens[o]
    BY <2>1
  <2>3. PICK u \in Users, i \in Instants : u = req[r].account /\ i = req[r].at
    BY <1>1
  <2>4. \A w \in Users : Live(w)' = Live(w)
    BY <1>1, <2>1, LiveStays
  <2>5. Gains(list_tokens(u), list_tokens(u)', k)
    BY <2>2, <2>3 DEF list_tokens, Gains
  <2>6. \A o \in list_tokens(u) : tokens'[o] = tokens[o]
    BY <2>2 DEF list_tokens
  <2>7. /\ Gains(TokensOf(u, i), TokensOf(u, i)', k)
        /\ \A t : t # i => TokensOf(u, t)' = TokensOf(u, t)
    BY <2>2, <2>3, <2>5, <2>6 DEF TokensOf, Gains
  <2>8. /\ now - i < TokenMintWindow => Gains(CountedTokens(u), CountedTokens(u)', k)
        /\ ~(now - i < TokenMintWindow) => CountedTokens(u)' = CountedTokens(u)
    BY <1>1, <2>2, <2>3, <2>5, <2>6 DEF CountedTokens, Gains
  <2>9. /\ Loses(CreatesOf(u, i), CreatesOf(u, i)', r)
        /\ \A t : t # i => CreatesOf(u, t)' = CreatesOf(u, t)
    BY <1>1, <2>1, <2>3 DEF CreatesOf, Loses
  <2>10. /\ now - i < TokenMintWindow => Loses(Creating(u), Creating(u)', r)
         /\ ~(now - i < TokenMintWindow) => Creating(u)' = Creating(u)
    BY <1>1, <2>1, <2>3 DEF Creating, Loses
  <2>11. \A t \in Instants : t # i => Slots(u, t)' = Slots(u, t)
    BY <2>7, <2>9 DEF Slots
  <2>12. NumberedFor(u)' /\ BudgetFor(u)'
    <3>1. NumberedFor(u) /\ BudgetFor(u) /\ Live(u)' = Live(u)
      BY <2>4 DEF MintInv
    <3>2. QED
      BY <1>1, <2>7, <2>8, <2>9, <2>10, <2>11, <3>1, SlotHandedOn
  <2>13. ASSUME NEW w \in Users, w # u
         PROVE  NumberedFor(w)' /\ BudgetFor(w)'
    BY <1>1, <2>1, <2>2, <2>3, <2>4, <2>13, OtherUser
  <2>14. QED
    BY <2>12, <2>13 DEF MintInv
<1>4. QED
  BY <1>2, <1>3

\* A new process has no entry, no create, and no token that counts.
LEMMA RestartMints ==
  ASSUME BaseInv, Restart
  PROVE  MintInv'
<1>1. TypeOK /\ RowsInv
  BY DEF BaseInv
<1>2. /\ byMinter' = [u \in Users |-> {}] /\ \A r \in Requests : req'[r] = IdleRequest
      /\ tokens' = [k \in Tokens |-> IF tokens[k].minted = None THEN tokens[k]
                                     ELSE [tokens[k] EXCEPT !.lost = TRUE]]
  BY DEF Restart
<1>3. tokens \in [Tokens -> Token]
  BY <1>1 DEF TypeOK
<1>4. ASSUME NEW k \in Tokens, tokens'[k].state # "unused"
      PROVE  tokens'[k].lost
  <2>1. CASE tokens[k].minted = None
    <3>1. tokens[k].state # "unused"
      BY <1>2, <1>4, <2>1
    <3>2. tokens[k].minted \in Instants
      BY <1>1, <3>1 DEF RowsInv
    <3>3. QED
      BY <2>1, <3>2, AddressesAreNumbers
  <2>2. CASE tokens[k].minted # None
    <3>1. tokens'[k] = [tokens[k] EXCEPT !.lost = TRUE]
      BY <1>2, <2>2
    <3>2. QED
      BY <1>3, <3>1 DEF Token
  <2>3. QED
    BY <2>1, <2>2
<1>5. Cardinality({}) = 0 /\ 1 .. 0 = {}
  BY FS_EmptySet
<1>6. ASSUME NEW u \in Users
      PROVE  NumberedFor(u)' /\ BudgetFor(u)'
  <2>1. Live(u)' = {}
    BY <1>2 DEF Live, LeftIn
  <2>2. CountedTokens(u)' = {} /\ \A t : TokensOf(u, t)' = {}
    BY <1>4 DEF CountedTokens, TokensOf, list_tokens
  <2>3. Creating(u)' = {} /\ \A t : CreatesOf(u, t)' = {}
    BY <1>2, IdleIsRequest DEF Creating, CreatesOf
  <2>4. \A t : Slots(u, t)' = 0
    BY <1>5, <2>2, <2>3 DEF Slots
  <2>5. \A t : At({}, t) = Numbered(t, 0)
    BY <1>5 DEF At, Numbered
  <2>6. NumberedFor(u)'
    BY <2>1, <2>4, <2>5 DEF NumberedFor
  <2>7. BudgetFor(u)'
    BY <1>5, <2>1, <2>2, <2>3, BudgetsAreNumbers DEF BudgetFor
  <2>8. QED
    BY <2>6, <2>7
<1>7. QED
  BY <1>6 DEF MintInv

LEMMA MintsInit ==
  ASSUME Init
  PROVE  MintInv
<1>1. /\ byMinter = [u \in Users |-> {}] /\ \A r \in Requests : req[r] = IdleRequest
      /\ \A k \in Tokens : tokens[k].state = "unused"
  BY DEF Init, NoToken
<1>2. Cardinality({}) = 0 /\ 1 .. 0 = {}
  BY FS_EmptySet
<1>3. ASSUME NEW u \in Users
      PROVE  NumberedFor(u) /\ BudgetFor(u)
  <2>1. Live(u) = {}
    BY <1>1 DEF Live, LeftIn
  <2>2. CountedTokens(u) = {} /\ \A t : TokensOf(u, t) = {}
    BY <1>1 DEF CountedTokens, TokensOf, list_tokens
  <2>3. Creating(u) = {} /\ \A t : CreatesOf(u, t) = {}
    BY <1>1, IdleIsRequest DEF Creating, CreatesOf
  <2>4. \A t : Slots(u, t) = 0
    BY <1>2, <2>2, <2>3 DEF Slots
  <2>5. \A t : At({}, t) = Numbered(t, 0)
    BY <1>2 DEF At, Numbered
  <2>6. NumberedFor(u)
    BY <2>1, <2>4, <2>5 DEF NumberedFor
  <2>7. BudgetFor(u)
    BY <1>2, <2>1, <2>2, <2>3, BudgetsAreNumbers DEF BudgetFor
  <2>8. QED
    BY <2>6, <2>7
<1>4. QED
  BY <1>3 DEF MintInv

LEMMA MintsStep ==
  ASSUME BaseInv, BaseInv', MintersFit, MintInv, [Next]_vars
  PROVE  MintInv'
<1>1. TypeOK
  BY DEF BaseInv
<1>2. ASSUME NEW r \in Requests, Step(r) PROVE MintInv'
  <2>1. CASE Reserve(r) \/ InsertToken(r) \/ Timeout(r)
    BY <2>1, ReserveMints, InsertTokenMints, TimeoutMints
  <2>2. CASE ~Reserve(r) /\ ~InsertToken(r) /\ ~Timeout(r)
    <3>1. /\ byMinter' = byMinter /\ now' = now
          /\ \A k \in Tokens :
               /\ tokens'[k].state # "unused" <=> tokens[k].state # "unused"
               /\ tokens'[k].user = tokens[k].user
               /\ tokens'[k].minted = tokens[k].minted
               /\ tokens'[k].lost = tokens[k].lost
      BY <1>2, <2>2, OthersLeaveSlots
    <3>2. /\ \A q \in Requests \ {r} : req'[q] = req[q]
          /\ \/ req'[r] = req[r]
             \/ req'[r].pc # "minting" /\ req[r].pc # "minting"
      BY <1>1, <1>2, <2>2, OnlyMintersMint
    <3>3. \A u \in Users : Live(u)' = Live(u)
      BY <1>1, <3>1, LiveStays
    <3>4. QED
      BY <3>1, <3>2, <3>3, MintQuiet
  <2>3. QED
    BY <2>1, <2>2
<1>3. CASE Tick
  BY <1>3, SlotsExpire DEF MintInv
<1>4. CASE Restart
  BY <1>4, RestartMints
<1>5. CASE UNCHANGED vars \/ \E u \in Users : Deactivate(u)
  <2>1. byMinter' = byMinter /\ now' = now /\ tokens' = tokens /\ req' = req
    BY <1>5 DEF vars, Deactivate, limiter
  <2>2. \A u \in Users : Live(u)' = Live(u)
    BY <1>1, <2>1, LiveStays
  <2>3. QED
    BY <2>1, <2>2, MintQuiet
<1>6. QED
  BY <1>2, <1>3, <1>4, <1>5 DEF Next

\* With room for every minter, the slots are in order for ever.
LEMMA MintsAlways ==
  ASSUME MintersFit
  PROVE  Spec => []MintInv
<1>1. Init => MintInv
  BY MintsInit
<1>2. BaseInv /\ BaseInv' /\ MintInv /\ [Next]_vars => MintInv'
  BY MintsStep
<1>3. QED
  BY <1>1, <1>2, BaseAlways, PTL DEF Spec

\* AccessInv is an inductive invariant: the types, the ceiling of the tables,
\* what the handlers know, the logouts, and the slots of the minters.
THEOREM AccessInvHolds == Spec => []AccessInv
<1>1. CASE MintersFit
  <2>1. BaseInv /\ NoneAhead /\ MintInv => AccessInv
    BY <1>1, MintInvSays DEF BaseInv, AccessInv
  <2>2. Spec => []MintInv
    BY <1>1, MintsAlways
  <2>3. QED
    BY <2>1, <2>2, BaseAlways, NoneAheadAlways, PTL
<1>2. CASE ~MintersFit
  <2>1. BaseInv /\ NoneAhead => AccessInv
    BY <1>2 DEF BaseInv, AccessInv
  <2>2. QED
    BY <2>1, BaseAlways, NoneAheadAlways, PTL
<1>3. QED
  BY <1>1, <1>2

\* However creates of one user overlap, fail and time out, the slots taken in a
\* window never exceed the budget and are exactly those of the tokens created in
\* it and of the creates in flight, as long as there is room for every user in
\* the table of minters.
THEOREM MintBudgetHolds ==
  ASSUME MintersFit
  PROVE  Spec => []MintBudgetIsExact
<1>1. AccessInv => MintBudgetIsExact
  BY DEF AccessInv
<1>2. QED
  BY <1>1, AccessInvHolds, PTL
==============================================================================
