----------------------------- MODULE AssetsProofs -----------------------------
(***************************************************************************)
(* Assets, their valuations and the connections their handlers hold, for   *)
(* any number of assets, accounts, requests and connections: the invariant *)
(* of AssetInvariant is kept by every step, and the properties of Assets   *)
(* follow from it.                                                         *)
(***************************************************************************)
EXTENDS AssetInvariant, NumberLemmas

-----------------------------------------------------------------------------
(* What a step of one request leaves to the others.                        *)

\* The row that q has locked is as it was.
SameRow(q) ==
  Holding(q) =>
    LET a == req[q].asset
    IN  /\ assets'[a].state = assets[a].state
        /\ assets'[a].currency = assets[a].currency
        /\ valuations'[a] = valuations[a]
SameHolds(q) ==
  /\ held'[q] = held[q]
  /\ \A a \in Assets : lock'[a] = q <=> lock[a] = q

LEMMA OthersKeep ==
  ASSUME NEW q \in Requests, RequestInv(q), req'[q] = req[q],
         SameHolds(q), SameRow(q)
  PROVE  RequestInv(q)'
<1>1. Holding(q)' = Holding(q) /\ Connected(q)' = Connected(q)
  BY DEF Holding, Connected
<1>2. Asked(q)'
  BY DEF RequestInv, Asked
<1>3. HoldsOnly(q)'
  BY <1>1 DEF RequestInv, HoldsOnly, SameHolds
<1>4. ASSUME Holding(q)
      PROVE  /\ req[q].asset \in Assets
             /\ lock'[req[q].asset] = q /\ req[q].asset \in list_assets'
             /\ Recorded(req[q].asset)' = Recorded(req[q].asset)
             /\ assets'[req[q].asset].currency = assets[req[q].asset].currency
  BY <1>4
  DEF RequestInv, ChecksHold, SameHolds, SameRow, list_assets, Recorded
<1>5. req[q].pc = "update" => GuardHolds(q)'
  <2> SUFFICES ASSUME req[q].pc = "update"
               PROVE  GuardHolds(q)'
    OBVIOUS
  <2>1. GuardHolds(q) /\ Holding(q)
    BY DEF RequestInv, ChecksHold, Holding
  <2>2. Recorded(req[q].asset)' = Recorded(req[q].asset)
    BY <1>4, <2>1
  <2>3. QED
    BY <1>4, <2>1, <2>2 DEF GuardHolds, Newest
<1>6. ChecksHold(q)'
  BY <1>1, <1>4, <1>5 DEF ChecksHold
<1>7. QED
  BY <1>2, <1>3, <1>6 DEF RequestInv

\* One request moves; the others keep what they hold.
LEMMA OwnStep ==
  ASSUME AssetInv, NEW r \in Requests, NEW p \in Request,
         req' = [req EXCEPT ![r] = p],
         held' \in [Requests -> 0 .. 1],
         lock' \in [Assets -> Requests \union {None}],
         accounts' \subseteq Accounts, assets' \in [Assets -> Asset],
         valuations' \in [Assets -> [Dates -> Values \union {None}]],
         \A q \in Requests \ {r} : SameHolds(q) /\ SameRow(q),
         RequestInv(r)', ValuesInv'
  PROVE  AssetInv'
<1>1. TypeOK'
  BY DEF AssetInv, TypeOK
<1>2. ASSUME NEW q \in Requests
      PROVE  RequestInv(q)'
  <2>1. CASE q = r
    BY <2>1
  <2>2. CASE q # r
    <3>1. RequestInv(q) /\ req'[q] = req[q] /\ SameHolds(q) /\ SameRow(q)
      BY <2>2 DEF AssetInv, TypeOK
    <3>2. QED
      BY <3>1, OthersKeep
  <2>3. QED
    BY <2>1, <2>2
<1>3. QED
  BY <1>1, <1>2 DEF AssetInv

LEMMA SameValues ==
  ASSUME ValuesInv, UNCHANGED valuations,
         \A a \in Assets : /\ assets'[a].value = assets[a].value
                           /\ assets'[a].state = "unused" => assets[a].state = "unused"
  PROVE  ValuesInv'
<1>1. \A a : Recorded(a)' = Recorded(a) /\ Newest(a)' = Newest(a)
  BY DEF Recorded, Newest
<1>2. QED
  BY <1>1 DEF ValuesInv

\* The tables stay as they are.
LEMMA QuietStep ==
  ASSUME AssetInv, NEW r \in Requests, NEW p \in Request,
         req' = [req EXCEPT ![r] = p],
         held' \in [Requests -> 0 .. 1],
         lock' \in [Assets -> Requests \union {None}],
         UNCHANGED <<accounts, assets, valuations>>,
         \A q \in Requests \ {r} : SameHolds(q),
         RequestInv(r)'
  PROVE  AssetInv'
<1>1. ValuesInv'
  BY SameValues DEF AssetInv
<1>2. \A q \in Requests : SameRow(q)
  BY DEF SameRow
<1>3. /\ accounts' \subseteq Accounts /\ assets' \in [Assets -> Asset]
      /\ valuations' \in [Assets -> [Dates -> Values \union {None}]]
  BY DEF AssetInv, TypeOK
<1>4. QED
  BY <1>1, <1>2, <1>3, OwnStep

LEMMA IdleRequestType == IdleRequest \in Request
BY DEF IdleRequest, Request, Pcs, Ops, Body, NoBody

\* A handler returns: it holds nothing any more.
LEMMA EndHolds ==
  ASSUME AssetInv, NEW r \in Requests, End(r)
  PROVE  /\ req' = [req EXCEPT ![r] = IdleRequest]
         /\ held' \in [Requests -> 0 .. 1]
         /\ lock' \in [Assets -> Requests \union {None}]
         /\ \A q \in Requests \ {r} : SameHolds(q)
         /\ RequestInv(r)'
<1>1. /\ TypeOK /\ req' = [req EXCEPT ![r] = IdleRequest]
      /\ held' = [held EXCEPT ![r] = 0]
      /\ lock' = [a \in Assets |-> IF lock[a] = r THEN None ELSE lock[a]]
  BY DEF AssetInv, End, GiveBack
<1>2. req'[r] = IdleRequest /\ held'[r] = 0 /\ \A a \in Assets : lock'[a] # r
  BY <1>1, AssetsAssumption DEF TypeOK
<1>3. RequestInv(r)'
  BY <1>2 DEF RequestInv, Asked, HoldsOnly, ChecksHold, Holding, Connected,
              IdleRequest, StepsOf
<1>4. \A q \in Requests \ {r} : SameHolds(q)
  BY <1>1, AssetsAssumption DEF TypeOK, SameHolds
<1>5. QED
  BY <1>1, <1>3, <1>4 DEF TypeOK

LEMMA QuietEnd ==
  ASSUME AssetInv, NEW r \in Requests, End(r), UNCHANGED db
  PROVE  AssetInv'
BY EndHolds, IdleRequestType, QuietStep DEF db

\* A handler ends with a write that leaves the rows others hold alone.
LEMMA WritingEnd ==
  ASSUME AssetInv, NEW r \in Requests, End(r), UNCHANGED accounts,
         assets' \in [Assets -> Asset],
         valuations' \in [Assets -> [Dates -> Values \union {None}]],
         \A q \in Requests \ {r} : SameRow(q), ValuesInv'
  PROVE  AssetInv'
<1>1. accounts' \subseteq Accounts
  BY DEF AssetInv, TypeOK
<1>2. QED
  BY <1>1, EndHolds, IdleRequestType, OwnStep

\* A handler goes on to its next step without taking anything.
LEMMA GotoStep ==
  ASSUME AssetInv, NEW r \in Requests, NEW pc \in Pcs, Goto(r, pc),
         UNCHANGED <<held, db, lock>>,
         pc \in StepsOf(req[r].op),
         Connected(r) <=> pc \in {"archive", "lock", "second", "guard", "update"},
         Holding(r) <=> pc \in {"second", "guard", "update"},
         pc = "second" => req[r].body.account # None,
         pc = "update" => GuardHolds(r)
  PROVE  AssetInv'
<1> DEFINE p == [req[r] EXCEPT !.pc = pc]
<1>1. /\ TypeOK /\ RequestInv(r) /\ req[r] \in Request
      /\ req' = [req EXCEPT ![r] = p]
  BY DEF AssetInv, TypeOK, Goto
<1>2. /\ p \in Request /\ p.pc = pc /\ p.op = req[r].op /\ p.asset = req[r].asset
      /\ p.body = req[r].body
  BY <1>1 DEF Request
<1> HIDE DEF p
<1>3. req'[r] = p
  BY <1>1 DEF TypeOK
<1>4. Holding(r)' = Holding(r) /\ Connected(r)' = Connected(r)
  BY <1>2, <1>3 DEF Holding, Connected
<1>5. Asked(r)'
  BY <1>1, <1>2, <1>3 DEF RequestInv, Asked
<1>6. HoldsOnly(r)'
  BY <1>1, <1>2, <1>3, <1>4 DEF RequestInv, HoldsOnly
<1>7. pc = "update" => GuardHolds(r)'
  BY <1>2, <1>3 DEF GuardHolds, Recorded, Newest, db
<1>8. ChecksHold(r)'
  BY <1>1, <1>2, <1>3, <1>4, <1>7 DEF RequestInv, ChecksHold, list_assets, db
<1>9. RequestInv(r)'
  BY <1>5, <1>6, <1>8 DEF RequestInv
<1>10. \A q \in Requests : SameHolds(q)
  BY DEF SameHolds
<1>11. QED
  BY <1>1, <1>2, <1>9, <1>10, QuietStep DEF TypeOK, db

-----------------------------------------------------------------------------
(* Requests begin, look up and wait.                                       *)

LEMMA BeginStep ==
  ASSUME AssetInv, NEW r \in Requests, NEW op \in Ops \ {"none"},
         NEW pc \in {"account", "insert", "probe", "begin"}, pc \in StepsOf(op),
         NEW a \in Assets \union {None}, NEW body \in Body,
         op # "create" => a \in Assets,
         op = "value" => body.value \in Values /\ body.on \in Dates,
         Begin(r, op, pc, a, body)
  PROVE  AssetInv'
<1> DEFINE p == [pc |-> pc, op |-> op, asset |-> a, body |-> body]
<1>1. /\ TypeOK /\ RequestInv(r) /\ req[r].pc = "idle"
      /\ req' = [req EXCEPT ![r] = p]
      /\ UNCHANGED <<held, accounts, assets, valuations, lock>>
  BY DEF AssetInv, Begin, db
<1>2. /\ p \in Request /\ p.pc = pc /\ p.op = op /\ p.asset = a /\ p.body = body
  BY DEF Request, Pcs
<1> HIDE DEF p
<1>3. req'[r] = p
  BY <1>1 DEF TypeOK
<1>4. ~Holding(r) /\ ~Connected(r) /\ ~Holding(r)' /\ ~Connected(r)'
  BY <1>1, <1>2, <1>3 DEF Holding, Connected
<1>5. RequestInv(r)'
  BY <1>1, <1>2, <1>3, <1>4 DEF RequestInv, Asked, HoldsOnly, ChecksHold, Ops
<1>6. \A q \in Requests : SameHolds(q)
  BY <1>1 DEF SameHolds
<1>7. QED
  BY <1>1, <1>2, <1>5, <1>6, QuietStep DEF TypeOK

LEMMA StartsStep ==
  ASSUME AssetInv, NEW r \in Requests, Starts(r)
  PROVE  AssetInv'
<1>1. NoBody \in Body
  BY DEF NoBody, Body
<1>2. CASE create_asset(r)
  <2>1. PICK c \in Currencies, x \in Accounts \union {None} :
          Begin(r, "create", IF x = None THEN "insert" ELSE "account", None,
                [NoBody EXCEPT !.account = x, !.currency = c])
    BY <1>2 DEF create_asset
  <2>2. [NoBody EXCEPT !.account = x, !.currency = c] \in Body
    BY <1>1 DEF Body, NoBody
  <2>3. (IF x = None THEN "insert" ELSE "account") \in {"account", "insert"}
    OBVIOUS
  <2>4. QED
    BY <2>1, <2>2, <2>3, BeginStep DEF Ops, StepsOf
<1>3. CASE delete_asset(r)
  BY <1>1, <1>3, BeginStep DEF delete_asset, Ops, StepsOf
<1>4. CASE patch_asset(r)
  <2>1. PICK a \in Assets, p \in Patches :
          Begin(r, "patch", "probe", a,
                [NoBody EXCEPT !.account = p.account, !.currency = p.currency])
    BY <1>4 DEF patch_asset
  <2>2. p.account \in Accounts \union {None} /\ p.currency \in Currencies \union {None}
    BY AssetsAssumption
  <2>3. [NoBody EXCEPT !.account = p.account, !.currency = p.currency] \in Body
    BY <2>2 DEF Body, NoBody
  <2>4. QED
    BY <2>1, <2>3, BeginStep DEF Ops, StepsOf
<1>5. CASE create_valuation(r)
  <2>1. PICK a \in Assets, v \in Values, d \in Dates :
          Begin(r, "value", "begin", a, [NoBody EXCEPT !.value = v, !.on = d])
    BY <1>5 DEF create_valuation
  <2> DEFINE body == [NoBody EXCEPT !.value = v, !.on = d]
  <2>2. body \in Body /\ body.value = v /\ body.on = d
    BY DEF Body, NoBody
  <2> HIDE DEF body
  <2>3. Begin(r, "value", "begin", a, body)
    BY <2>1 DEF body
  <2>4. QED
    BY <2>2, <2>3, BeginStep DEF Ops, StepsOf
<1>6. QED
  BY <1>2, <1>3, <1>4, <1>5 DEF Starts

\* Lookups outside the row lock, and the second connection under it.
LEMMA LookUpSteps ==
  ASSUME AssetInv, NEW r \in Requests,
         LookUpAccount(r) \/ Probe(r) \/ SecondConnection(r)
  PROVE  AssetInv'
<1>1. RequestInv(r) /\ req[r].pc \in StepsOf(req[r].op) /\ req[r] \in Request
  BY DEF AssetInv, RequestInv, Asked, TypeOK
<1>2. req[r].op \in Ops
  BY <1>1 DEF Request
<1>3. CASE LookUpAccount(r)
  <2>1. req[r].pc = "account" /\ UNCHANGED db
        /\ (\/ Goto(r, "insert") /\ UNCHANGED <<held, lock>>
            \/ End(r))
    BY <1>3 DEF LookUpAccount, Statement
  <2>2. "insert" \in StepsOf(req[r].op)
    BY <1>1, <1>2, <2>1 DEF StepsOf, Ops
  <2>3. QED
    BY <2>1, <2>2, QuietEnd, GotoStep DEF Pcs, Holding, Connected
<1>4. CASE Probe(r)
  <2>1. req[r].pc = "probe" /\ UNCHANGED db
        /\ (\/ Goto(r, "begin") /\ UNCHANGED <<held, lock>>
            \/ End(r))
    BY <1>4 DEF Probe, Statement
  <2>2. "begin" \in StepsOf(req[r].op)
    BY <1>1, <1>2, <2>1 DEF StepsOf, Ops
  <2>3. QED
    BY <2>1, <2>2, QuietEnd, GotoStep DEF Pcs, Holding, Connected
<1>5. CASE SecondConnection(r)
  <2>1. req[r].pc = "second" /\ UNCHANGED db
        /\ (\/ Goto(r, "guard") /\ UNCHANGED <<held, lock>>
            \/ End(r))
    BY <1>5 DEF SecondConnection, Statement
  <2>2. "guard" \in StepsOf(req[r].op)
    BY <1>1, <1>2, <2>1 DEF StepsOf, Ops
  <2>3. QED
    BY <2>1, <2>2, QuietEnd, GotoStep DEF Pcs, Holding, Connected
<1>6. QED
  BY <1>3, <1>4, <1>5

LEMMA GuardStep ==
  ASSUME AssetInv, NEW r \in Requests, Guard(r)
  PROVE  AssetInv'
<1>1. /\ req[r].pc = "guard" /\ UNCHANGED db
      /\ \/ GuardHolds(r) /\ Goto(r, "update") /\ UNCHANGED <<held, lock>>
         \/ End(r)
      /\ req[r].pc \in StepsOf(req[r].op) /\ req[r].op \in Ops
  BY DEF Guard, AssetInv, RequestInv, Asked, TypeOK, Request
<1>2. "update" \in StepsOf(req[r].op)
  BY <1>1 DEF StepsOf, Ops
<1>3. QED
  BY <1>1, <1>2, QuietEnd, GotoStep DEF Pcs, Holding, Connected

\* A transaction begins: it has a connection.
LEMMA OpenStep ==
  ASSUME AssetInv, NEW r \in Requests, Open(r)
  PROVE  AssetInv'
<1> DEFINE pc == IF req[r].op = "archive" THEN "archive" ELSE "lock"
           p == [req[r] EXCEPT !.pc = pc]
<1>1. /\ TypeOK /\ RequestInv(r) /\ req[r] \in Request /\ req[r].pc = "begin"
      /\ held' = [held EXCEPT ![r] = @ + 1] /\ req' = [req EXCEPT ![r] = p]
      /\ UNCHANGED <<accounts, assets, valuations, lock>>
  BY DEF AssetInv, TypeOK, Open, Acquire, Goto, db
<1>2. /\ p \in Request /\ p.pc = pc /\ p.op = req[r].op /\ p.asset = req[r].asset
      /\ p.body = req[r].body
  BY <1>1 DEF Request, Pcs
<1>3. pc \in StepsOf(req[r].op) /\ pc \in {"archive", "lock"}
  BY <1>1 DEF RequestInv, Asked, StepsOf, Request, Ops
<1> HIDE DEF p, pc
<1>4. req'[r] = p
  BY <1>1 DEF TypeOK
<1>5. held[r] = 0 /\ ~Holding(r)
  BY <1>1 DEF RequestInv, HoldsOnly, Holding, Connected
<1>6. /\ held' \in [Requests -> 0 .. 1] /\ held'[r] = 1
      /\ \A q \in Requests \ {r} : held'[q] = held[q]
  BY <1>1, <1>5 DEF TypeOK
<1>7. RequestInv(r)'
  BY <1>1, <1>2, <1>3, <1>4, <1>5, <1>6
  DEF RequestInv, Asked, HoldsOnly, ChecksHold, Holding, Connected
<1>8. \A q \in Requests \ {r} : SameHolds(q)
  BY <1>1, <1>6 DEF SameHolds
<1>9. QED
  BY <1>1, <1>2, <1>6, <1>7, <1>8, QuietStep DEF TypeOK

\* The row is locked while it is live.
LEMMA LockAssetStep ==
  ASSUME AssetInv, NEW r \in Requests, LockAsset(r)
  PROVE  AssetInv'
<1> DEFINE a == req[r].asset
           pc == AfterLock(r)
           p == [req[r] EXCEPT !.pc = pc]
<1>1. CASE a \notin list_assets
  BY <1>1, QuietEnd DEF LockAsset
<1>2. CASE a \in list_assets
  <2>1. /\ TypeOK /\ RequestInv(r) /\ req[r] \in Request /\ req[r].pc = "lock"
        /\ a \in Assets /\ lock[a] = None /\ lock' = [lock EXCEPT ![a] = r]
        /\ req' = [req EXCEPT ![r] = p]
        /\ UNCHANGED <<held, accounts, assets, valuations>>
    BY <1>2 DEF AssetInv, TypeOK, LockAsset, Goto, db, list_assets
  <2>2. /\ pc \in {"second", "guard"} /\ pc \in StepsOf(req[r].op)
        /\ pc = "second" => req[r].body.account # None
    BY <2>1 DEF AfterLock, RequestInv, Asked, StepsOf, Request, Ops
  <2>3. /\ p \in Request /\ p.pc = pc /\ p.op = req[r].op /\ p.asset = a
        /\ p.body = req[r].body
    BY <2>1, <2>2 DEF Request, Pcs
  <2> HIDE DEF p, pc, a
  <2>4. req'[r] = p
    BY <2>1 DEF TypeOK
  <2>5. Holding(r)' /\ Connected(r)' /\ Connected(r) /\ ~Holding(r)
    BY <2>1, <2>2, <2>3, <2>4 DEF Holding, Connected
  <2>6. Asked(r)'
    BY <2>1, <2>2, <2>3, <2>4 DEF RequestInv, Asked, a
  <2>7. HoldsOnly(r)'
    BY <2>1, <2>3, <2>4, <2>5 DEF RequestInv, HoldsOnly, TypeOK
  <2>8. ChecksHold(r)'
    BY <1>2, <2>1, <2>2, <2>3, <2>4, <2>5 DEF ChecksHold, list_assets, TypeOK
  <2>9. \A q \in Requests \ {r} : SameHolds(q)
    BY <2>1, AssetsAssumption DEF SameHolds, TypeOK
  <2>10. RequestInv(r)'
    BY <2>6, <2>7, <2>8 DEF RequestInv
  <2>11. QED
    BY <2>1, <2>3, <2>9, <2>10, QuietStep DEF TypeOK
<1>3. QED
  BY <1>1, <1>2

-----------------------------------------------------------------------------
(* Requests write.                                                         *)

\* A row that nobody holds is in nobody's way.
LEMMA FreeRow ==
  ASSUME AssetInv, NEW a \in Assets, lock[a] \notin Requests, NEW q \in Requests
  PROVE  Holding(q) => req[q].asset \in Assets /\ req[q].asset # a
BY DEF AssetInv, RequestInv, ChecksHold, list_assets

LEMMA InsertAssetStep ==
  ASSUME AssetInv, NEW r \in Requests, InsertAsset(r)
  PROVE  AssetInv'
<1>1. TypeOK /\ End(r) /\ UNCHANGED <<accounts, valuations>> /\ req[r] \in Request
  BY DEF InsertAsset, AssetInv, TypeOK
<1>2. CASE assets' = assets
  BY <1>1, <1>2, QuietEnd DEF db
<1>3. CASE \E a \in Assets :
             /\ assets[a].state = "unused"
             /\ assets' = [assets EXCEPT ![a] =
                  [state |-> "live", account |-> req[r].body.account,
                   currency |-> req[r].body.currency, value |-> 0]]
  <2> DEFINE row == [state |-> "live", account |-> req[r].body.account,
                     currency |-> req[r].body.currency, value |-> 0]
  <2>1. PICK a \in Assets :
          assets[a].state = "unused" /\ assets' = [assets EXCEPT ![a] = row]
    BY <1>3
  <2>2. row \in Asset /\ row.value = 0 /\ row.state = "live"
    BY <1>1 DEF Asset, Request, Body
  <2> HIDE DEF row
  <2>3. /\ assets' \in [Assets -> Asset] /\ assets'[a] = row
        /\ \A b \in Assets \ {a} : assets'[b] = assets[b]
    BY <1>1, <2>1, <2>2 DEF TypeOK
  <2>4. ValuesInv'
    <3>1. assets[a].value = 0
      BY <2>1 DEF AssetInv, ValuesInv
    <3>2. QED
      BY <1>1, <2>2, <2>3, <3>1, SameValues DEF AssetInv
  <2>5. ASSUME NEW q \in Requests
        PROVE  SameRow(q)
    <3>1. Holding(q) => req[q].asset \in Assets \ {a}
      BY <2>1 DEF AssetInv, RequestInv, ChecksHold, list_assets
    <3>2. QED
      BY <1>1, <2>3, <3>1 DEF SameRow
  <2>6. valuations' \in [Assets -> [Dates -> Values \union {None}]]
    BY <1>1 DEF TypeOK
  <2>7. QED
    BY <1>1, <2>3, <2>4, <2>5, <2>6, WritingEnd
<1>4. QED
  BY <1>2, <1>3 DEF InsertAsset

LEMMA ArchiveStep ==
  ASSUME AssetInv, NEW r \in Requests, Archive(r)
  PROVE  AssetInv'
<1> DEFINE a == req[r].asset
           row == [assets[a] EXCEPT !.state = "archived"]
<1>1. /\ TypeOK /\ End(r) /\ UNCHANGED <<accounts, valuations>> /\ lock[a] = None
      /\ (a \in list_assets /\ assets' = [assets EXCEPT ![a] = row])
         \/ assets' = assets
  BY DEF Archive, AssetInv
<1>2. CASE assets' = assets
  BY <1>1, <1>2, QuietEnd DEF db
<1>3. CASE a \in list_assets /\ assets' = [assets EXCEPT ![a] = row]
  <2>1. a \in Assets /\ assets[a] \in Asset
    BY <1>1, <1>3 DEF TypeOK, list_assets
  <2>2. row \in Asset /\ row.value = assets[a].value /\ row.state = "archived"
    BY <2>1 DEF Asset
  <2> HIDE DEF row, a
  <2>3. /\ assets' \in [Assets -> Asset] /\ assets'[a] = row
        /\ \A b \in Assets \ {a} : assets'[b] = assets[b]
    BY <1>1, <1>3, <2>1, <2>2 DEF TypeOK
  <2>4. ValuesInv'
    BY <1>1, <2>1, <2>2, <2>3, SameValues DEF AssetInv
  <2>5. ASSUME NEW q \in Requests
        PROVE  SameRow(q)
    <3>1. Holding(q) => req[q].asset \in Assets \ {a}
      BY <1>1, <2>1, FreeRow, AssetsAssumption
    <3>2. QED
      BY <1>1, <2>3, <3>1 DEF SameRow
  <2>6. valuations' \in [Assets -> [Dates -> Values \union {None}]]
    BY <1>1 DEF TypeOK
  <2>7. QED
    BY <1>1, <2>3, <2>4, <2>5, <2>6, WritingEnd
<1>4. QED
  BY <1>1, <1>2, <1>3

\* A row that one request holds is held by no other.
LEMMA HeldAlone ==
  ASSUME AssetInv, NEW r \in Requests, Holding(r)
  PROVE  /\ req[r].asset \in list_assets /\ req[r].asset \in Assets
         /\ assets[req[r].asset] \in Asset
         /\ \A q \in Requests \ {r} :
              Holding(q) => req[q].asset \in Assets \ {req[r].asset}
BY DEF AssetInv, TypeOK, RequestInv, ChecksHold, list_assets

LEMMA UpdateAssetStep ==
  ASSUME AssetInv, NEW r \in Requests, UpdateAsset(r)
  PROVE  AssetInv'
<1> DEFINE a == req[r].asset
           body == req[r].body
           row == [assets[a] EXCEPT !.account = Given(body.account, @),
                                    !.currency = Given(body.currency, @)]
<1>1. /\ TypeOK /\ End(r) /\ UNCHANGED <<accounts, valuations>>
      /\ req[r].pc = "update" /\ Holding(r) /\ req[r] \in Request
      /\ \/ assets' = [assets EXCEPT ![a].account = Given(body.account, @),
                                     ![a].currency = Given(body.currency, @)]
         \/ assets' = assets
  BY DEF UpdateAsset, AssetInv, TypeOK, Holding
<1>2. CASE assets' = assets
  BY <1>1, <1>2, QuietEnd DEF db
<1>3. CASE assets' = [assets EXCEPT ![a].account = Given(body.account, @),
                                    ![a].currency = Given(body.currency, @)]
  <2>1. /\ a \in Assets /\ assets[a] \in Asset
        /\ \A q \in Requests \ {r} : Holding(q) => req[q].asset \in Assets \ {a}
    BY <1>1, HeldAlone
  <2>2. assets' = [assets EXCEPT ![a] = row]
    BY <1>1, <1>3, <2>1 DEF TypeOK, Asset
  <2>3. row \in Asset /\ row.value = assets[a].value /\ row.state = assets[a].state
    BY <1>1, <2>1 DEF Asset, Given, Request, Body
  <2> HIDE DEF row, a
  <2>4. /\ assets' \in [Assets -> Asset] /\ assets'[a] = row
        /\ \A b \in Assets \ {a} : assets'[b] = assets[b]
    BY <1>1, <2>1, <2>2, <2>3 DEF TypeOK
  <2>5. ValuesInv'
    BY <1>1, <2>1, <2>3, <2>4, SameValues DEF AssetInv
  <2>6. \A q \in Requests \ {r} : SameRow(q)
    BY <1>1, <2>1, <2>4 DEF SameRow
  <2>7. valuations' \in [Assets -> [Dates -> Values \union {None}]]
    BY <1>1 DEF TypeOK
  <2>8. QED
    BY <1>1, <2>4, <2>5, <2>6, <2>7, WritingEnd
<1>4. QED
  BY <1>1, <1>2, <1>3

\* The valuation that is inserted is the newest one: the guard still holds.
LEMMA InsertValuationStep ==
  ASSUME AssetInv, NEW r \in Requests, InsertValuation(r)
  PROVE  AssetInv'
<1> DEFINE value == req[r].body.value
           on == req[r].body.on
<1>0. PICK a \in Assets : a = req[r].asset
  BY DEF InsertValuation, AssetInv, RequestInv, Asked
<1>1. /\ TypeOK /\ End(r) /\ UNCHANGED accounts /\ Holding(r)
      /\ value \in Values /\ on \in Dates
      /\ Recorded(a) = {} \/ on > Newest(a)
  BY <1>0
  DEF InsertValuation, AssetInv, RequestInv, Asked, ChecksHold, Holding, GuardHolds
<1>2. /\ assets[a] \in Asset /\ a \in list_assets
      /\ \A q \in Requests \ {r} : Holding(q) => req[q].asset \in Assets \ {a}
  BY <1>0, <1>1, HeldAlone
<1>3. CASE assets' = assets /\ valuations' = valuations
  BY <1>1, <1>3, QuietEnd DEF db
<1>4. CASE /\ valuations' = [valuations EXCEPT ![a][on] = value]
           /\ assets' = [assets EXCEPT ![a].value = value]
  <2>1. value \in Nat /\ value # None /\ on \in Nat /\ \A d \in Dates : d \in Nat
    BY <1>1, AssetsAssumption DEF IsValue
  <2> DEFINE row == [assets[a] EXCEPT !.value = value]
             dated == [valuations[a] EXCEPT ![on] = value]
  <2>2. row \in Asset /\ row.value = value /\ row.state = "live"
        /\ row.currency = assets[a].currency
    BY <1>2, <2>1 DEF Asset, list_assets
  <2>3. dated \in [Dates -> Values \union {None}] /\ dated[on] = value
        /\ \A d \in Dates \ {on} : dated[d] = valuations[a][d]
    BY <1>1, <1>2 DEF TypeOK
  <2>4. assets' = [assets EXCEPT ![a] = row]
        /\ valuations' = [valuations EXCEPT ![a] = dated]
    BY <1>1, <1>2, <1>4 DEF TypeOK, Asset
  <2> HIDE DEF row, dated, on, value
  <2>5. /\ assets' \in [Assets -> Asset] /\ assets'[a] = row
        /\ \A b \in Assets \ {a} : assets'[b] = assets[b]
        /\ valuations' \in [Assets -> [Dates -> Values \union {None}]]
        /\ valuations'[a] = dated
        /\ \A b \in Assets \ {a} : valuations'[b] = valuations[b]
    BY <1>1, <1>2, <2>2, <2>3, <2>4 DEF TypeOK
  <2>6. Recorded(a)' = Recorded(a) \union {on}
    BY <1>1, <2>1, <2>3, <2>5 DEF Recorded
  <2>7. \A d \in Recorded(a) : d \in Nat /\ d <= on
    <3>1. ASSUME NEW d \in Recorded(a)
          PROVE  d \in Nat /\ d <= on
      <4>1. Newest(a) \in Recorded(a) /\ d <= Newest(a) /\ on > Newest(a)
        BY <1>1, <1>2, <3>1 DEF AssetInv, ValuesInv
      <4>2. d \in Nat /\ Newest(a) \in Nat
        BY <2>1, <3>1, <4>1 DEF Recorded
      <4>3. QED
        BY <2>1, <4>1, <4>2
    <3>2. QED
      BY <3>1
  <2>8. Newest(a)' = on
    <3>1. Newest(a)' = Max(Recorded(a) \union {on})
      BY <2>6 DEF Newest
    <3> DEFINE S == Recorded(a) \union {on}
    <3>2. on \in S /\ (\A d \in S : on >= d) /\ (\A d \in S : d >= on => d = on)
      BY <2>1, <2>7
    <3> HIDE DEF S
    <3>3. Max(S) = on
      BY <3>2 DEF Max
    <3>4. QED
      BY <3>1, <3>3 DEF S
  <2>9. ValuesInv'
    <3>1. ASSUME NEW b \in Assets \ {a}
          PROVE  Recorded(b)' = Recorded(b) /\ Newest(b)' = Newest(b)
      BY <2>5 DEF Recorded, Newest
    <3>2. /\ assets'[a].state # "unused" /\ Recorded(a)' # {}
          /\ Newest(a)' \in Recorded(a)'
          /\ \A d \in Recorded(a)' : d <= Newest(a)'
          /\ assets'[a].value = valuations'[a][Newest(a)']
      BY <2>1, <2>2, <2>3, <2>5, <2>6, <2>7, <2>8
    <3>3. ASSUME NEW b \in Assets \ {a}
          PROVE  /\ assets'[b].state = "unused" => Recorded(b)' = {}
                 /\ Recorded(b)' = {} => assets'[b].value = 0
                 /\ Recorded(b)' # {} =>
                      /\ Newest(b)' \in Recorded(b)'
                      /\ \A d \in Recorded(b)' : d <= Newest(b)'
                      /\ assets'[b].value = valuations'[b][Newest(b)']
      BY <2>5, <3>1 DEF AssetInv, ValuesInv
    <3>4. QED
      BY <3>2, <3>3 DEF ValuesInv
  <2>10. \A q \in Requests \ {r} : SameRow(q)
    BY <1>2, <2>5 DEF SameRow
  <2>11. QED
    BY <1>1, <2>5, <2>9, <2>10, WritingEnd
<1>5. QED
  BY <1>0, <1>3, <1>4 DEF InsertValuation

LEMMA DeleteAccountStep ==
  ASSUME AssetInv, DeleteAccount
  PROVE  AssetInv'
<1>1. PICK x \in accounts :
        /\ \A a \in Assets : assets[a].account = x => lock[a] = None
        /\ accounts' = accounts \ {x}
        /\ assets' = [a \in Assets |-> IF assets[a].account = x
                                       THEN [assets[a] EXCEPT !.account = None]
                                       ELSE assets[a]]
        /\ UNCHANGED <<held, valuations, lock, req>>
  BY DEF DeleteAccount
<1>2. ASSUME NEW a \in Assets
      PROVE  /\ assets'[a] \in Asset /\ assets'[a].value = assets[a].value
             /\ assets'[a].state = assets[a].state
             /\ assets'[a].currency = assets[a].currency
  <2>1. assets[a] \in Asset
    BY DEF AssetInv, TypeOK
  <2>2. QED
    BY <1>1, <2>1 DEF Asset
<1>3. TypeOK'
  BY <1>1, <1>2 DEF AssetInv, TypeOK
<1>4. ValuesInv'
  BY <1>1, <1>2, SameValues DEF AssetInv
<1>5. ASSUME NEW q \in Requests
      PROVE  RequestInv(q)'
  <2>1. RequestInv(q) /\ SameHolds(q) /\ req'[q] = req[q]
    BY <1>1 DEF AssetInv, SameHolds
  <2>2. SameRow(q)
    BY <1>1, <1>2, <2>1 DEF SameRow, RequestInv, ChecksHold, list_assets
  <2>3. QED
    BY <2>1, <2>2, OthersKeep
<1>6. QED
  BY <1>3, <1>4, <1>5 DEF AssetInv

-----------------------------------------------------------------------------
(* The invariant and what follows from it.                                 *)

LEMMA InitAssetInv ==
  ASSUME Init
  PROVE  AssetInv
<1>1. TypeOK
  <2>1. assets \in [Assets -> Asset]
    <3>1. NoAsset \in Asset
      BY DEF NoAsset, Asset
    <3>2. [state : {"live"}, account : {None}, currency : Currencies, value : {0}]
            \subseteq Asset
      BY DEF Asset
    <3>3. QED
      BY <3>1, <3>2 DEF Init
  <2>2. req \in [Requests -> Request] /\ held \in [Requests -> 0 .. 1]
    BY IdleRequestType DEF Init
  <2>3. /\ valuations \in [Assets -> [Dates -> Values \union {None}]]
        /\ lock \in [Assets -> Requests \union {None}] /\ accounts \subseteq Accounts
    BY DEF Init
  <2>4. QED
    BY <2>1, <2>2, <2>3 DEF TypeOK
<1>2. ValuesInv
  <2>1. \A a \in Assets : Recorded(a) = {} /\ assets[a].value = 0
    BY DEF Init, Recorded, NoAsset
  <2>2. QED
    BY <2>1 DEF ValuesInv
<1>3. ASSUME NEW r \in Requests
      PROVE  RequestInv(r)
  <2>1. /\ req[r] = IdleRequest /\ held[r] = 0
        /\ \A a \in Assets : lock[a] # r
    BY AssetsAssumption DEF Init
  <2>2. QED
    BY <2>1 DEF RequestInv, Asked, HoldsOnly, ChecksHold, Holding, Connected,
                IdleRequest, StepsOf
<1>4. QED
  BY <1>1, <1>2, <1>3 DEF AssetInv

LEMMA QuietAssets ==
  ASSUME AssetInv, UNCHANGED vars
  PROVE  AssetInv'
<1>1. UNCHANGED <<held, accounts, assets, valuations, lock, req>>
  BY DEF vars, db
<1>2. TypeOK'
  BY <1>1 DEF AssetInv, TypeOK
<1>3. ValuesInv'
  BY <1>1, SameValues DEF AssetInv
<1>4. ASSUME NEW q \in Requests
      PROVE  RequestInv(q)'
  BY <1>1, OthersKeep DEF AssetInv, SameHolds, SameRow
<1>5. QED
  BY <1>2, <1>3, <1>4 DEF AssetInv

LEMMA NextKeepsInv ==
  ASSUME AssetInv, [Next]_vars
  PROVE  AssetInv'
<1>1. ASSUME NEW r \in Requests, Starts(r)
      PROVE  AssetInv'
  BY <1>1, StartsStep
<1>2. ASSUME NEW r \in Requests, Waits(r)
      PROVE  AssetInv'
  BY <1>2, LookUpSteps, InsertAssetStep, OpenStep, LockAssetStep, ArchiveStep DEF Waits
<1>3. ASSUME NEW r \in Requests, Moves(r)
      PROVE  AssetInv'
  BY <1>3, GuardStep, UpdateAssetStep, InsertValuationStep DEF Moves
<1>4. ASSUME NEW r \in Requests, AcquireTimeout(r) \/ Abandon(r)
      PROVE  AssetInv'
  BY <1>4, QuietEnd DEF AcquireTimeout, Abandon
<1>5. CASE DeleteAccount
  BY <1>5, DeleteAccountStep
<1>6. CASE UNCHANGED vars
  BY <1>6, QuietAssets
<1>7. QED
  BY <1>1, <1>2, <1>3, <1>4, <1>5, <1>6 DEF Next

\* Whatever valuations, edits, archivings and account deletions interleave, and
\* wherever they time out, a writer that passed its guard may still write, and
\* every row carries its newest valuation.
THEOREM AssetInvHolds == Spec => []AssetInv
<1>1. Init => AssetInv
  BY InitAssetInv
<1>2. AssetInv /\ [Next]_vars => AssetInv'
  BY NextKeepsInv
<1>3. QED
  BY <1>1, <1>2, PTL DEF Spec

\* NET_WORTH_SQL adds what the newest valuations say (assets.rs, 0003 trigger).
THEOREM NetWorthIsTrue == Spec => []NetWorthIsNewest
<1>1. AssetInv => NetWorthIsNewest
  <2> SUFFICES ASSUME AssetInv, NEW c \in Currencies
               PROVE  get_net_worth(c) =
                        SumOver([a \in Assets |->
                          IF a \in list_assets /\ assets[a].currency = c
                             /\ Recorded(a) # {}
                          THEN valuations[a][Newest(a)] ELSE 0], Assets)
    BY DEF NetWorthIsNewest
  <2> DEFINE f == [a \in Assets |-> IF a \in list_assets /\ assets[a].currency = c
                                    THEN assets[a].value ELSE 0]
             h == [a \in Assets |-> IF a \in list_assets /\ assets[a].currency = c
                                       /\ Recorded(a) # {}
                                    THEN valuations[a][Newest(a)] ELSE 0]
  <2>1. ASSUME NEW a \in Assets
        PROVE  f[a] \in Int /\ f[a] = h[a]
    <3>1. assets[a].value \in Nat
      BY DEF AssetInv, TypeOK, Asset
    <3>2. /\ Recorded(a) = {} => assets[a].value = 0
          /\ Recorded(a) # {} => assets[a].value = valuations[a][Newest(a)]
      BY DEF AssetInv, ValuesInv
    <3>3. QED
      BY <3>1, <3>2
  <2>2. IsFiniteSet(Assets)
    BY AssetsAssumption
  <2> HIDE DEF f, h
  <2>3. SumOver(h, Assets) = SumOver(f, Assets)
    BY <2>1, <2>2, SumOverEqual
  <2>4. QED
    BY <2>3 DEF get_net_worth, f, h
<1>2. QED
  BY <1>1, AssetInvHolds, PTL

\* A stall of the pool needs a PATCH that names an account: every other holder
\* of a connection waits for a row, and whoever holds a row can move unless it
\* asks for the second connection (ensure_account_owned in patch_asset_handler).
THEOREM StallsNeedAccountPatch == Spec => []StallNeedsAccountPatch
<1>1. AssetInv => StallNeedsAccountPatch
  <2> SUFFICES ASSUME AssetInv, Stalled
               PROVE  \E r \in Requests :
                        req[r].pc = "second" /\ req[r].body.account # None
    BY DEF StallNeedsAccountPatch
  <2>1. \E r \in Requests : held[r] # 0
    <3> SUFFICES ASSUME \A r \in Requests : held[r] = 0
                 PROVE  FALSE
      OBVIOUS
    <3>1. SumOver(held, Requests) = 0
      BY SumOverZero, PoolAssumption
    <3>2. QED
      BY <3>1, PoolAssumption DEF Stalled, Available, InUse
  <2>2. PICK r \in Requests : held[r] > 0
    BY <2>1 DEF AssetInv, TypeOK
  <2>3. Stuck(r) /\ RequestInv(r)
    BY <2>2 DEF Stalled, AssetInv
  <2>4. CASE req[r].pc = "second"
    BY <2>3, <2>4 DEF RequestInv, Asked
  <2>5. CASE req[r].pc # "second"
    <3> DEFINE q == lock[req[r].asset]
    <3>1. req[r].pc \in {"lock", "archive"} /\ q # None
      BY <2>3, <2>5 DEF Stuck
    <3>2. req[r].asset \in Assets
      BY <2>3, <3>1 DEF RequestInv, Asked, StepsOf, AssetInv, TypeOK, Request, Ops
    <3>3. q \in Requests /\ RequestInv(q)
      BY <3>1, <3>2 DEF AssetInv, TypeOK
    <3>4. Holding(q) /\ held[q] = 1
      BY <3>2, <3>3 DEF RequestInv, HoldsOnly, Connected
    <3>5. Stuck(q)
      BY <3>3, <3>4 DEF Stalled
    <3>6. req[q].pc = "second"
      BY <3>4, <3>5 DEF Stuck, Holding
    <3>7. QED
      BY <3>3, <3>6 DEF RequestInv, Asked
  <2>6. QED
    BY <2>4, <2>5
<1>2. QED
  BY <1>1, AssetInvHolds, PTL

\* Only a row without valuations changes its currency: the guard of PATCH, and
\* the row lock that keeps a valuation from slipping in behind it.
THEOREM DenominationHolds == Spec => DenominationKept
<1>1. ASSUME AssetInv, [Next]_vars
      PROVE  [\A a \in Assets :
                Recorded(a) # {} => assets'[a].currency = assets[a].currency]_vars
  <2> SUFFICES ASSUME NEW a \in Assets, Recorded(a) # {}
               PROVE  assets'[a].currency = assets[a].currency
    OBVIOUS
  <2>0. assets \in [Assets -> Asset] /\ assets[a] \in Asset
        /\ assets[a].state # "unused"
    BY <1>1 DEF AssetInv, TypeOK, ValuesInv
  <2>1. ASSUME NEW r \in Requests, InsertAsset(r)
        PROVE  assets'[a].currency = assets[a].currency
    BY <2>0, <2>1 DEF InsertAsset
  <2>2. ASSUME NEW r \in Requests, Archive(r)
        PROVE  assets'[a].currency = assets[a].currency
    BY <2>0, <2>2 DEF Archive, Asset
  <2>3. ASSUME NEW r \in Requests, UpdateAsset(r)
        PROVE  assets'[a].currency = assets[a].currency
    <3>1. GuardHolds(r) /\ req[r].op = "patch"
      BY <1>1, <2>3 DEF UpdateAsset, AssetInv, RequestInv, ChecksHold
    <3>2. CASE a = req[r].asset
      <4>1. req[r].body.currency \in {None, assets[a].currency}
        BY <3>1, <3>2 DEF GuardHolds
      <4>2. QED
        BY <2>0, <2>3, <3>2, <4>1 DEF UpdateAsset, Given, Asset
    <3>3. CASE a # req[r].asset
      BY <2>0, <2>3, <3>3 DEF UpdateAsset
    <3>4. QED
      BY <3>2, <3>3
  <2>4. ASSUME NEW r \in Requests, InsertValuation(r)
        PROVE  assets'[a].currency = assets[a].currency
    BY <2>0, <2>4 DEF InsertValuation, Asset
  <2>5. CASE DeleteAccount
    BY <2>0, <2>5 DEF DeleteAccount, Asset
  <2>6. ASSUME NEW r \in Requests,
               \/ Starts(r) \/ LookUpAccount(r) \/ Probe(r) \/ Open(r) \/ LockAsset(r)
               \/ SecondConnection(r) \/ Guard(r) \/ AcquireTimeout(r) \/ Abandon(r)
        PROVE  assets' = assets
    BY <2>6 DEF Starts, create_asset, delete_asset, patch_asset, create_valuation,
                Begin, LookUpAccount, Probe, Open, LockAsset, SecondConnection, Guard,
                AcquireTimeout, Abandon, db
  <2>7. CASE UNCHANGED vars
    BY <2>7 DEF vars, db
  <2>8. QED
    BY <1>1, <2>1, <2>2, <2>3, <2>4, <2>5, <2>6, <2>7 DEF Next, Waits, Moves
<1>2. QED
  BY <1>1, AssetInvHolds, PTL DEF Spec, DenominationKept
==============================================================================
