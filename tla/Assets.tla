-------------------------------- MODULE Assets --------------------------------
(***************************************************************************)
(* Assets, their append-only valuations and the net worth computed from    *)
(* them (routes/assets.rs), on the connection pool of the process (db.rs). *)
(* PATCH and POST of a valuation are transactions that lock the asset row  *)
(* first; the PATCH that names an account looks it up on a SECOND          *)
(* connection while its transaction is open.  A write becomes visible when *)
(* its transaction commits, so UPDATE and COMMIT are one action here.      *)
(***************************************************************************)
EXTENDS Pool, FiniteSetsExt

CONSTANTS
  Assets, Accounts,  \* ids
  Currencies, Values, Dates,
  None,              \* SQL NULL
  Patches            \* the PATCH bodies clients send

\* validate_value: an asset may be worth nothing.
IsValue(v) == v \in Nat
ASSUME AssetsAssumption ==
  /\ (\A v \in Values : IsValue(v)) /\ Dates \subseteq Nat
  /\ None \notin Accounts \union Currencies \union Values \union Dates
                    \union Requests
  /\ Patches \subseteq [account : Accounts \union {None},
                        currency : Currencies \union {None}]
  /\ IsFiniteSet(Assets)

VARIABLES
  accounts,    \* the accounts that exist (accounts.rs deletes them for good)
  assets,      \* the rows
  valuations,  \* asset_valuations: for each asset, value by date
  lock,        \* who holds the row lock of each asset
  req          \* each request: its handler and how far it got

vars == <<held, accounts, assets, valuations, lock, req>>
db == <<accounts, assets, valuations>>

Asset == [state : {"unused", "live", "archived"},
          account : Accounts \union {None},
          currency : Currencies \union {None}, value : Nat]
NoAsset == [state |-> "unused", account |-> None, currency |-> None, value |-> 0]

\* What a request is about; fields its handler does not have are None.
Body == [account : Accounts \union {None}, currency : Currencies \union {None},
         value : Values \union {None}, on : Dates \union {None}]
NoBody == [account |-> None, currency |-> None, value |-> None, on |-> None]
Ops == {"none", "create", "archive", "patch", "value"}
Pcs == {"idle", "account", "insert", "archive", "probe", "begin", "lock",
        "second", "guard", "update"}
Request == [pc : Pcs, op : Ops, asset : Assets \union {None}, body : Body]
IdleRequest == [pc |-> "idle", op |-> "none", asset |-> None, body |-> NoBody]

TypeOK ==
  /\ held \in [Requests -> 0 .. 1]
  /\ accounts \subseteq Accounts
  /\ assets \in [Assets -> Asset]
  /\ valuations \in [Assets -> [Dates -> Values \union {None}]]
  /\ lock \in [Assets -> Requests \union {None}]
  /\ req \in [Requests -> Request]

Recorded(a) == {d \in Dates : valuations[a][d] # None}
\* MAX_VALUATION_SQL
Newest(a) == Max(Recorded(a))

\* GET /assets
list_assets == {a \in Assets : assets[a].state = "live"}
\* NET_WORTH_SQL
get_net_worth(c) ==
  SumOver([a \in Assets |-> IF a \in list_assets /\ assets[a].currency = c
                            THEN assets[a].value ELSE 0], Assets)

-------------------------------------------------------------------------------
(* Steps shared by the handlers                                              *)

Goto(r, pc) == req' = [req EXCEPT ![r].pc = pc]
\* The handler returns or is dropped: connection and row locks are released.
End(r) ==
  /\ req' = [req EXCEPT ![r] = IdleRequest]
  /\ GiveBack(r)
  /\ lock' = [a \in Assets |-> IF lock[a] = r THEN None ELSE lock[a]]

Begin(r, op, pc, a, body) ==
  /\ req[r].pc = "idle"
  /\ req' = [req EXCEPT ![r] = [pc |-> pc, op |-> op, asset |-> a, body |-> body]]
  /\ UNCHANGED <<held, db, lock>>

\* An autocommit statement: a connection is there, and is back when it ends.
Statement(r, pc) == req[r].pc = pc /\ Available

-------------------------------------------------------------------------------
(* POST /assets                                                              *)

\* Bound: there is a row left for every asset being created.
Spare == Cardinality({a \in Assets : assets[a].state = "unused"})
         > Cardinality({r \in Requests : req[r].op = "create"})

create_asset(r) ==
  /\ Spare
  /\ \E c \in Currencies, x \in Accounts \union {None} :
       Begin(r, "create", IF x = None THEN "insert" ELSE "account", None,
             [NoBody EXCEPT !.account = x, !.currency = c])

\* ensure_account_owned, outside any transaction
LookUpAccount(r) ==
  /\ Statement(r, "account")
  /\ IF req[r].body.account \in accounts
     THEN Goto(r, "insert") /\ UNCHANGED <<held, lock>>
     ELSE End(r)  \* 422
  /\ UNCHANGED db

\* CREATE_ASSET_SQL; the account may be gone by now: 23503 is a 422.
InsertAsset(r) ==
  LET body == req[r].body
  IN  /\ Statement(r, "insert")
      /\ IF body.account \in accounts \union {None}
         THEN \E a \in Assets :
                /\ assets[a].state = "unused"
                /\ assets' = [assets EXCEPT ![a] =
                     [state |-> "live", account |-> body.account,
                      currency |-> body.currency, value |-> 0]]
         ELSE UNCHANGED assets
      /\ End(r)
      /\ UNCHANGED <<accounts, valuations>>

-------------------------------------------------------------------------------
(* DELETE /assets/:id                                                        *)

delete_asset(r) ==
  \E a \in Assets : Begin(r, "archive", "begin", a, NoBody)

\* ARCHIVE_ASSET_SQL waits for the row lock and then looks at the row again.
Archive(r) ==
  LET a == req[r].asset
  IN  /\ req[r].pc = "archive" /\ lock[a] = None
      /\ assets' = IF a \in list_assets
                   THEN [assets EXCEPT ![a].state = "archived"] ELSE assets
      /\ End(r)
      /\ UNCHANGED <<accounts, valuations>>

-------------------------------------------------------------------------------
(* PATCH /assets/:id and POST /assets/:id/valuations                         *)

patch_asset(r) ==
  \E a \in Assets, p \in Patches :
    Begin(r, "patch", "probe", a,
          [NoBody EXCEPT !.account = p.account, !.currency = p.currency])

create_valuation(r) ==
  \E a \in Assets, v \in Values, d \in Dates :
    Begin(r, "value", "begin", a, [NoBody EXCEPT !.value = v, !.on = d])

\* ensure_asset_writable: 404 or 422 unless the asset is live.
Probe(r) ==
  /\ Statement(r, "probe")
  /\ IF req[r].asset \in list_assets
     THEN Goto(r, "begin") /\ UNCHANGED <<held, lock>>
     ELSE End(r)
  /\ UNCHANGED db

\* pool.begin(); the archiving UPDATE also keeps its connection while it waits
\* for the row.
Open(r) ==
  /\ req[r].pc = "begin" /\ Acquire(r)
  /\ Goto(r, IF req[r].op = "archive" THEN "archive" ELSE "lock")
  /\ UNCHANGED <<db, lock>>

\* Mutant: the account is looked up whether or not the body names one.
AfterLockAlways(r) == IF req[r].op = "patch" THEN "second" ELSE "guard"
\* After the lock: the account, if the body names one, then the guard.
AfterLock(r) ==
  IF req[r].op = "patch" /\ req[r].body.account # None THEN "second" ELSE "guard"
\* Mutant: SELECT without FOR UPDATE.
Unlocked(r) ==
  /\ req[r].pc = "lock"
  /\ IF req[r].asset \in list_assets
     THEN Goto(r, AfterLock(r)) /\ UNCHANGED <<held, lock>>
     ELSE End(r)
  /\ UNCHANGED db
\* LOCK_ASSET_SQL: SELECT ... AND NOT is_archived FOR UPDATE.
LockAsset(r) ==
  LET a == req[r].asset
  IN  /\ req[r].pc = "lock" /\ lock[a] = None
      /\ IF a \in list_assets
         THEN /\ lock' = [lock EXCEPT ![a] = r]
              /\ Goto(r, AfterLock(r)) /\ UNCHANGED held
         ELSE End(r)
      /\ UNCHANGED db

\* ensure_account_owned inside the transaction, on another connection.
SecondConnection(r) ==
  /\ Statement(r, "second")
  /\ IF req[r].body.account \in accounts
     THEN Goto(r, "guard") /\ UNCHANGED <<held, lock>>
     ELSE End(r)
  /\ UNCHANGED db

\* Mutant: a valuation of the same day or before is let through.
GuardCurrencyOnly(r) ==
  req[r].op = "patch" =>
    \/ req[r].body.currency \in {None, assets[req[r].asset].currency}
    \/ Recorded(req[r].asset) = {}
\* The currency changes only while there is no valuation; a valuation is dated
\* after the newest one.
GuardHolds(r) ==
  LET a == req[r].asset
      body == req[r].body
  IN  IF req[r].op = "patch"
      THEN body.currency \in {None, assets[a].currency} \/ Recorded(a) = {}
      ELSE Recorded(a) = {} \/ body.on > Newest(a)
Guard(r) ==
  /\ req[r].pc = "guard"
  /\ IF GuardHolds(r) THEN Goto(r, "update") /\ UNCHANGED <<held, lock>>
     ELSE End(r)
  /\ UNCHANGED db

Given(new, old) == IF new = None THEN old ELSE new

\* UPDATE of the given columns AND NOT is_archived, COMMIT.
UpdateAsset(r) ==
  LET a == req[r].asset
      body == req[r].body
  IN  /\ req[r].pc = "update" /\ req[r].op = "patch"
      /\ assets' =
           IF a \in list_assets /\ body.account \in accounts \union {None}
           THEN [assets EXCEPT ![a].account = Given(body.account, @),
                               ![a].currency = Given(body.currency, @)]
           ELSE assets  \* 404, or 23503: 422
      /\ End(r)
      /\ UNCHANGED <<accounts, valuations>>

\* CREATE_VALUATION_SQL with its trigger sync_asset_current_value, COMMIT.  The
\* table has at most one valuation of an asset for a date: 23505 is a 409.
InsertValuation(r) ==
  LET a == req[r].asset
      body == req[r].body
  IN  /\ req[r].pc = "update" /\ req[r].op = "value"
      /\ IF valuations[a][body.on] = None
         THEN /\ valuations' = [valuations EXCEPT ![a][body.on] = body.value]
              /\ assets' = [assets EXCEPT ![a].value = body.value]
         ELSE UNCHANGED <<valuations, assets>>
      /\ End(r)
      /\ UNCHANGED accounts

-------------------------------------------------------------------------------
(* Failures, and what other handlers do                                      *)

Acquiring == {"account", "insert", "probe", "begin", "second"}
\* Mutant: only the first connection of a handler is waited for with a limit.
TimesOutFirst(r) == req[r].pc \in Acquiring \ {"second"} /\ ~Available
\* Nobody returned a connection for acquire_timeout.
TimesOut(r) == req[r].pc \in Acquiring /\ ~Available
\* 500; an open transaction is rolled back.
AcquireTimeout(r) == TimesOut(r) /\ End(r) /\ UNCHANGED db

\* API_TIMEOUT, or the client hangs up: the handler is dropped where it waits.
Abandon(r) == req[r].pc # "idle" /\ End(r) /\ UNCHANGED db

\* DELETE /accounts/:id: ON DELETE SET NULL updates the assets linked to it,
\* so it waits for their locks.
DeleteAccount ==
  \E x \in accounts :
    /\ Available
    /\ \A a \in Assets : assets[a].account = x => lock[a] = None
    /\ accounts' = accounts \ {x}
    /\ assets' = [a \in Assets |-> IF assets[a].account = x
                                   THEN [assets[a] EXCEPT !.account = None]
                                   ELSE assets[a]]
    /\ UNCHANGED <<held, valuations, lock, req>>

-------------------------------------------------------------------------------

\* The database starts with some assets, none of them valued yet.
Init ==
  /\ held = [r \in Requests |-> 0]
  /\ accounts = Accounts
  /\ assets \in [Assets -> {NoAsset} \union
                           [state : {"live"}, account : {None},
                            currency : Currencies, value : {0}]]
  /\ valuations = [a \in Assets |-> [d \in Dates |-> None]]
  /\ lock = [a \in Assets |-> None]
  /\ req = [r \in Requests |-> IdleRequest]

Waits(r) == LookUpAccount(r) \/ InsertAsset(r) \/ Probe(r) \/ Open(r)
            \/ LockAsset(r) \/ Archive(r) \/ SecondConnection(r)
Moves(r) == Guard(r) \/ UpdateAsset(r) \/ InsertValuation(r)
Starts(r) == create_asset(r) \/ delete_asset(r) \/ patch_asset(r) \/ create_valuation(r)

Next ==
  \/ \E r \in Requests :
       Starts(r) \/ Waits(r) \/ Moves(r) \/ AcquireTimeout(r) \/ Abandon(r)
  \/ DeleteAccount

Spec == Init /\ [][Next]_vars

\* Row locks and connections are handed over in the order they were asked for,
\* so a request that waits is not passed over for ever: strong fairness.  The
\* acquire timeout is a timer.  Nothing is assumed of Abandon.
Fairness ==
  \A r \in Requests : /\ SF_vars(Waits(r))
                      /\ WF_vars(Moves(r))
                      /\ WF_vars(AcquireTimeout(r))
FairSpec == Spec /\ Fairness

-------------------------------------------------------------------------------
(* Properties                                                                *)

\* The net worth of a currency is what the newest valuations of the live assets
\* held in it say: no valuation overwrites a newer one, whatever order two of
\* them arrive in, and none changes its currency.
NetWorthIsNewest ==
  \A c \in Currencies :
    get_net_worth(c) =
      SumOver([a \in Assets |->
                 IF a \in list_assets /\ assets[a].currency = c /\ Recorded(a) # {}
                 THEN valuations[a][Newest(a)] ELSE 0], Assets)

\* Amounts carry no currency of their own, so no step changes the currency of an
\* asset that has valuations.
DenominationKept ==
  [][\A a \in Assets : Recorded(a) # {} => assets'[a].currency = assets[a].currency]_vars

\* Every connection is out and no request holding one can move: it waits for a
\* row somebody else locked, or for another connection.
Stuck(r) == \/ req[r].pc = "second"
            \/ /\ req[r].pc \in {"lock", "archive"}
               /\ lock[req[r].asset] # None
Stalled == ~Available /\ \A r \in Requests : held[r] > 0 => Stuck(r)
\* Only a PATCH that names an account brings the process to a stand: with one
\* of them everything else may be waiting for its row.
StallNeedsAccountPatch ==
  Stalled => \E r \in Requests : req[r].pc = "second" /\ req[r].body.account # None

\* Every handler returns, without the deadline of the HTTP layer: the acquire
\* timeout undoes every stall.
EveryRequestEnds ==
  \A r \in Requests : req[r].pc # "idle" ~> req[r].pc = "idle"
===============================================================================
