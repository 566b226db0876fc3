--------------------------- MODULE AssetInvariant ----------------------------
(***************************************************************************)
(* Why the properties of Assets hold: an inductive invariant.  It says     *)
(* which steps a handler goes through, what connection and row lock it     *)
(* holds at each of them, that what its guard found stays true while it    *)
(* holds the row, and that every row carries the value of its newest       *)
(* valuation.                                                              *)
(***************************************************************************)
EXTENDS Assets

\* The steps a handler goes through.
StepsOf(op) ==
  CASE op = "none"    -> {"idle"}
    [] op = "create"  -> {"account", "insert"}
    [] op = "archive" -> {"begin", "archive"}
    [] op = "patch"   -> {"probe", "begin", "lock", "second", "guard", "update"}
    [] op = "value"   -> {"begin", "lock", "guard", "update"}

\* The request holds the lock of its row; it holds a connection.
Holding(r)   == req[r].pc \in {"second", "guard", "update"}
Connected(r) == req[r].pc \in {"archive", "lock"} \/ Holding(r)

Asked(r) ==
  /\ req[r].pc \in StepsOf(req[r].op)
  /\ req[r].op \in {"archive", "patch", "value"} => req[r].asset \in Assets
  /\ req[r].op = "value" => req[r].body.value \in Values /\ req[r].body.on \in Dates
  /\ req[r].pc = "second" => req[r].body.account # None

\* A request has the connection and the lock of the step it is at, no others.
HoldsOnly(r) ==
  /\ held[r] = IF Connected(r) THEN 1 ELSE 0
  /\ \A a \in Assets : lock[a] = r => Holding(r) /\ a = req[r].asset

\* What a writer has found is still so: the row is locked and live, and may be
\* written once the guard has let the request through.
ChecksHold(r) ==
  /\ Holding(r) => lock[req[r].asset] = r /\ req[r].asset \in list_assets
  /\ req[r].pc = "update" => GuardHolds(r)

RequestInv(r) == Asked(r) /\ HoldsOnly(r) /\ ChecksHold(r)

\* The current value of an asset is that of its newest valuation.
ValuesInv ==
  \A a \in Assets :
    /\ assets[a].state = "unused" => Recorded(a) = {}
    /\ Recorded(a) = {} => assets[a].value = 0
    /\ Recorded(a) # {} =>
         /\ Newest(a) \in Recorded(a) /\ \A d \in Recorded(a) : d <= Newest(a)
         /\ assets[a].value = valuations[a][Newest(a)]

\* The inductive invariant of Assets.
AssetInv == TypeOK /\ ValuesInv /\ \A r \in Requests : RequestInv(r)
==============================================================================
