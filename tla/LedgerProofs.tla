---------------------------- MODULE LedgerProofs -----------------------------
(***************************************************************************)
(* Theorems about the ledger handlers, for any number of accounts,         *)
(* movements and requests.  LedgerCore is inductive: a handler's own step  *)
(* secures what its next one needs, and no step of another request can     *)
(* take it away, because it would need the row locks.  On top of it: what  *)
(* the handlers answer, whom they wait for, what their gates guarantee at  *)
(* the commit, and that together they implement the ledger of LedgerSpec.  *)
(***************************************************************************)
EXTENDS LedgerInvariant, NumberLemmas

-----------------------------------------------------------------------------
(* Types.  One lemma per helper of the handlers, then one step per action.  *)

LEMMA RowTypes ==
  /\ NoAccountRow \in AccountRow /\ OpenAccount \in AccountRow
  /\ DeletedAccount \in AccountRow
  /\ NoMovement \in MovementRow /\ DeletedMovement \in MovementRow
  /\ IdleRequest \in Request
<1>1. NoAccountRow \in AccountRow /\ OpenAccount \in AccountRow
  BY DEF NoAccountRow, OpenAccount, AccountRow, RowStates
<1>2. DeletedAccount \in AccountRow
  BY <1>1 DEF DeletedAccount, AccountRow, RowStates
<1>3. NoMovement \in MovementRow
  BY DEF NoMovement, MovementRow, RowStates, Directions, Signed, None
<1>4. DeletedMovement \in MovementRow
  BY <1>3 DEF DeletedMovement, MovementRow, RowStates
<1>5. IdleRequest \in Request
  BY <1>3 DEF IdleRequest, Request, Pcs, Ops, Replies, None
<1>6. QED
  BY <1>1, <1>2, <1>3, <1>4, <1>5

\* The signed delta of an amount is an integer, whatever the direction.
LEMMA DeltaType ==
  ASSUME NEW d, NEW n \in Int PROVE SignedDelta(d, n) \in Int
BY DEF SignedDelta

\* What a stored row did to a balance is an integer.
LEMMA EffectType ==
  ASSUME NEW row \in MovementRow, NEW a PROVE Effect(row, a) \in Int
<1>1. row.amount \in Nat
  BY DEF MovementRow
<1>2. SignedDelta(row.dir, row.amount) \in Int
  BY <1>1, DeltaType
<1>3. QED
  BY <1>1, <1>2 DEF Effect

\* So is what a whole book did to it.
LEMMA LedgerTotalType ==
  ASSUME NEW book \in [Movements -> MovementRow], NEW a
  PROVE  LedgerTotal(book, a) \in Int
<1> DEFINE f == [m \in Movements |-> Effect(book[m], a)]
<1>1. NMovements \in Nat /\ \A i \in 1 .. NMovements : f[i] \in Int
  BY EffectType, CountsAssumption DEF Movements
<1> HIDE DEF f
<1>2. SumTo(f, NMovements) \in Int
  BY <1>1, SumToType
<1>3. QED
  BY <1>2 DEF LedgerTotal, f

\* Adding an integer to one balance gives a table of accounts again.
LEMMA CreditType ==
  ASSUME NEW table \in [Accounts -> AccountRow], NEW a, NEW d \in Int
  PROVE  Credit(table, a, d) \in [Accounts -> AccountRow]
<1>1. CASE a \in Accounts
  BY <1>1 DEF Credit, AccountRow
<1>2. CASE a \notin Accounts
  BY <1>2 DEF Credit
<1>3. QED
  BY <1>1, <1>2

\* The pcs of a request whose handler has dropped its input.
DonePcs == {"idle", "replying", "aborting"}

\* A request with no input left to know is well shaped once it is done.
LEMMA IdleShaped ==
  ASSUME NEW q \in Request, q.op = "none", q.pc \in DonePcs
  PROVE  q \in Shaped
BY DEF Shaped, DonePcs

\* An answer, or the wait for the rollback, leaves well-shaped requests.
LEMMA FinishType ==
  ASSUME TypeInv, NEW r \in Requests, NEW pc \in DonePcs, NEW reply \in Replies,
         NEW wrote \in BOOLEAN, Finish(r, pc, reply, wrote)
  PROVE  req' \in [Requests -> Shaped]
<1> DEFINE q == [IdleRequest EXCEPT !.pc = pc, !.wrote = wrote,
                  !.reply = IF req[r].reply = "none" THEN reply ELSE req[r].reply]
<1>1. req \in [Requests -> Shaped] /\ req[r].reply \in Replies
  BY DEF TypeInv, Shaped, Request
<1>2. q \in Request /\ q.op = "none" /\ q.pc = pc
  <2>1. pc \in Pcs
    BY DEF DonePcs, Pcs
  <2>2. \E answer \in Replies :
          q = [IdleRequest EXCEPT !.pc = pc, !.wrote = wrote, !.reply = answer]
    BY <1>1
  <2>3. ASSUME NEW answer \in Replies
        PROVE  LET p == [IdleRequest EXCEPT !.pc = pc, !.wrote = wrote,
                                            !.reply = answer]
               IN  p \in Request /\ p.op = "none" /\ p.pc = pc
    BY <2>1, RowTypes DEF IdleRequest, Request
  <2> HIDE DEF q
  <2>4. QED
    BY <2>2, <2>3, Zenon
<1>3. q \in Shaped
  <2> HIDE DEF q
  <2> QED  BY <1>2, IdleShaped
<1>4. QED
  BY <1>1, <1>3 DEF Finish

\* The end of a transaction leaves every lock free or owned.
LEMMA ReleaseType ==
  ASSUME TypeOK, NEW r, Release(r)
  PROVE  /\ accLock' \in [Accounts -> Requests \union {Free}]
         /\ movLock' \in [Movements -> Requests \union {Free}]
BY DEF TypeOK, Release

\* An early return keeps the types.
LEMMA AbortType ==
  ASSUME TypeInv, NEW r \in Requests, NEW reply \in Replies, Abort(r, reply)
  PROVE  /\ req' \in [Requests -> Shaped]
         /\ accLock' \in [Accounts -> Requests \union {Free}]
         /\ movLock' \in [Movements -> Requests \union {Free}]
<1>1. "aborting" \in DonePcs /\ FALSE \in BOOLEAN
  BY DEF DonePcs
<1>2. QED
  BY <1>1, FinishType DEF Abort, Locks, TypeInv, TypeOK

\* The account a PATCH targets is an account id or NULL.
LEMMA TargetType ==
  ASSUME NEW q \in Request PROVE Target(q) \in Accounts \union {None}
BY DEF Request, MovementRow, Target

\* A commit of well-typed tables keeps the type invariant.
LEMMA CommitType ==
  ASSUME TypeInv, NEW r \in Requests, NEW newAccounts \in [Accounts -> AccountRow],
         NEW newMovements \in Books,
         Commit(r, newAccounts, newMovements), UNCHANGED started
  PROVE  TypeInv'
<1>1. req' \in [Requests -> Shaped]
  BY FinishType DEF Commit, DonePcs, Replies
<1>2. QED
  BY <1>1, ReleaseType DEF Commit, TypeOK, TypeInv, Books, Shaped

\* A statement the database refuses keeps it too.
LEMMA RefusedType ==
  ASSUME TypeInv, NEW r \in Requests, NEW reply \in Replies, Refused(r, reply),
         UNCHANGED started
  PROVE  TypeInv'
BY AbortType DEF Refused, Tables, TypeOK, TypeInv, Shaped

\* The legs of a row are account ids.
LEMMA LegsType ==
  ASSUME NEW row \in MovementRow PROVE Legs(row) \subseteq Accounts
BY DEF MovementRow, Legs

\* Replacing one row of a book by another that names its account, or is gone.
LEMMA BookType ==
  ASSUME NEW book \in Books, NEW m, NEW row \in MovementRow,
         row.state = "live" => row.account \in Accounts
  PROVE  [book EXCEPT ![m] = row] \in Books
BY DEF Books

\* A row written by an INSERT or UPDATE is a movement row.
LEMMA NewMovementType ==
  ASSUME NEW a \in Accounts, NEW b \in Accounts \union {None},
         NEW d \in Directions, NEW n \in Nat
  PROVE  NewMovement(a, b, d, n) \in MovementRow
BY DEF NewMovement, MovementRow, RowStates

\* A step that leaves the tables alone and types what it changes.
LEMMA HandlerType ==
  ASSUME TypeInv, UNCHANGED <<Tables, started>>,
         req' \in [Requests -> Shaped],
         accLock' \in [Accounts -> Requests \union {Free}],
         movLock' \in [Movements -> Requests \union {Free}]
  PROVE  TypeInv'
BY DEF TypeInv, TypeOK, Tables, Shaped

\* A request that enters its handler with a well-shaped record keeps the
\* types.
LEMMA BeginType ==
  ASSUME TypeInv, NEW r \in Requests, NEW q, NEW refusal \in Replies,
         refusal = "none" => /\ q \in Shaped /\ q.pc \in {"locking", "counting"}
                             /\ LockSet(q) \subseteq Accounts,
         Begin(r, q, refusal)
  PROVE  TypeInv'
<1>1. req' \in [Requests -> Shaped]
  <2>1. CASE refusal # "none"
    BY <2>1, FinishType DEF Begin, DonePcs
  <2>2. CASE refusal = "none"
    <3>1. [q EXCEPT !.todo = LockSet(q), !.attempt = 1] \in Shaped
      <4> DEFINE S == LockSet(q)
      <4>1. S \in SUBSET Accounts /\ q \in Shaped /\ q.pc \in {"locking", "counting"}
        BY <2>2
      <4> HIDE DEF S
      <4>2. [q EXCEPT !.todo = S, !.attempt = 1] \in Request
        BY <4>1 DEF Request, Shaped
      <4>3. QED
        BY <4>1, <4>2 DEF Shaped, Request, S
    <3>2. QED
      BY <2>2, <3>1 DEF Begin, TypeInv
  <2>3. QED
    BY <2>1, <2>2
<1>2. QED
  BY <1>1 DEF Begin, Tables, Locks, TypeInv, TypeOK, Shaped

\* What a handler starts with: a well-shaped request at its first step, which
\* will lock some accounts and has written and answered nothing.
Begins(r, q, refusal) ==
  /\ refusal = "none" => /\ q \in Shaped /\ q.pc \in {"locking", "counting"}
                         /\ LockSet(q) \subseteq Accounts /\ LockSet(q) # {}
                         /\ q \in Answered
  /\ refusal \in {"none", "404", "422"}
  /\ Begin(r, q, refusal)

\* The values of the optional fields of a PATCH.
MaybeAccount   == Accounts \union {None}
MaybeDirection == Signed \union {"keep"}

\* What PATCH starts with: a request that carries the body and the snapshot.
PatchRequest(m, a, d, n, s) ==
  [IdleRequest EXCEPT !.pc = "locking", !.op = "patch", !.mov = m,
                      !.acct = a, !.dir = d, !.amt = n, !.snap = s]

\* It is a request with these fields.
LEMMA PatchRequestType ==
  ASSUME NEW m \in Movements, NEW a \in MaybeAccount,
         NEW d \in MaybeDirection, NEW n \in Nat, NEW s \in MovementRow,
         NEW q, q = PatchRequest(m, a, d, n, s)
  PROVE  /\ q \in Request /\ q.pc = "locking" /\ q.op = "patch" /\ q.mov = m
         /\ q.acct = a /\ q.dir = d /\ q.snap = s
         /\ q.amt = n /\ q.reply = "none" /\ ~q.wrote
<1>1. "locking" \in Pcs /\ "patch" \in Ops /\ d \in Directions \union {"keep"}
  BY DEF Pcs, Ops, Directions, MaybeDirection
<1>2. q.pc = "locking" /\ q.op = "patch" /\ q.mov = m /\ q.acct = a /\ q.dir = d
      /\ q.snap = s /\ q.amt = n /\ q.reply = "none" /\ ~q.wrote
  BY DEF PatchRequest, IdleRequest
<1>3. q \in Request
  BY <1>1, RowTypes DEF PatchRequest, Request, MaybeAccount
<1>4. QED
  BY <1>2, <1>3

\* Each of the five ways to start a request is such an entry.
LEMMA StartBegins ==
  ASSUME TypeInv, NEW r \in Requests, Start(r)
  PROVE  \E q, refusal : Begins(r, q, refusal)
<1> USE RowTypes DEF Pcs, Ops
<1>1. CASE CreateMovement(r)
  <2> DEFINE q(a, d, n) == [IdleRequest EXCEPT !.pc = "locking", !.op = "create",
                                    !.acct = a, !.dir = d, !.amt = n]
  <2>1. PICK a \in Accounts, d \in Signed, n \in Amounts :
          Begin(r, q(a, d, n), IF Live(a) THEN "none" ELSE "422")
    BY <1>1 DEF CreateMovement
  <2>2. /\ q(a, d, n) \in Request /\ q(a, d, n).op = "create" /\ q(a, d, n).acct = a
        /\ q(a, d, n).dir = d /\ q(a, d, n).pc = "locking"
        /\ q(a, d, n).amt = n /\ q(a, d, n).reply = "none" /\ ~q(a, d, n).wrote
    BY AmountsAssumption DEF IdleRequest, Request, Directions
  <2> HIDE DEF q
  <2>3. LockSet(q(a, d, n)) = {a}
    BY <2>2 DEF LockSet
  <2>4. q(a, d, n) \in Answered
    BY <2>2 DEF Answered
  <2>5. QED
    BY <2>1, <2>2, <2>3, <2>4 DEF Begins, Shaped
<1>2. CASE CreateTransfer(r)
  <2> DEFINE q(a, b, n) == [IdleRequest EXCEPT !.pc = "locking", !.op = "transfer",
                    !.acct = a, !.to = b, !.dir = "transfer", !.amt = n]
  <2>1. PICK a \in Accounts, b \in Accounts, n \in Amounts :
          Begin(r, q(a, b, n), IF Live(a) /\ Live(b) /\ a # b THEN "none" ELSE "422")
    BY <1>2 DEF CreateTransfer
  <2>2. /\ q(a, b, n) \in Request /\ q(a, b, n).op = "transfer"
        /\ q(a, b, n).acct = a /\ q(a, b, n).to = b /\ q(a, b, n).pc = "locking"
        /\ q(a, b, n).amt = n /\ q(a, b, n).reply = "none" /\ ~q(a, b, n).wrote
    BY AmountsAssumption DEF IdleRequest, Request, Directions
  <2> HIDE DEF q
  <2>3. LockSet(q(a, b, n)) = {a, b}
    BY <2>2 DEF LockSet
  <2>4. q(a, b, n) \in Answered
    BY <2>2 DEF Answered
  <2>5. QED
    BY <2>1, <2>2, <2>3, <2>4 DEF Begins, Shaped
<1>3. CASE PatchMovement(r)
  <2> DEFINE q(m, body) ==
               PatchRequest(m, body.acct, body.dir, body.amt, movements[m])
             refusal(m, body) ==
               IF movements[m].state # "live" THEN "404"
               ELSE IF movements[m].dir = "transfer"
                       \/ body.acct \notin LiveAccounts \union {None}
               THEN "422" ELSE "none"
  <2>1. PICK m \in Movements, body \in PatchBodies :
          Begin(r, q(m, body), refusal(m, body))
    BY <1>3 DEF PatchMovement, PatchRequest
  <2>7. /\ body.acct \in MaybeAccount /\ body.amt \in Nat /\ body.dir \in MaybeDirection
        /\ body.amt \in Amounts \union {0}
    <3>1. body \in [acct : Accounts \union {None},
                    dir : Signed \union {"keep"}, amt : Amounts \union {0}]
      BY BodiesAssumption
    <3>2. \A n \in Amounts : n \in Nat
      BY AmountsAssumption
    <3>3. QED
      BY <3>1, <3>2 DEF MaybeAccount, MaybeDirection
  <2>8. movements[m] \in MovementRow
    BY DEF TypeInv, TypeOK
  <2>2. /\ q(m, body) \in Request /\ q(m, body).op = "patch"
        /\ q(m, body).snap = movements[m] /\ q(m, body).acct = body.acct
        /\ q(m, body).dir = body.dir /\ q(m, body).dir \in Signed \union {"keep"}
        /\ q(m, body).mov = m /\ q(m, body).pc = "locking"
        /\ q(m, body).amt = body.amt /\ q(m, body).reply = "none" /\ ~q(m, body).wrote
    <3> DEFINE p == q(m, body)
    <3>1. p = PatchRequest(m, body.acct, body.dir, body.amt, movements[m])
      OBVIOUS
    <3> HIDE DEF p
    <3>2. /\ p \in Request /\ p.pc = "locking" /\ p.op = "patch" /\ p.mov = m
          /\ p.acct = body.acct /\ p.dir = body.dir /\ p.snap = movements[m]
          /\ p.amt = body.amt /\ p.reply = "none" /\ ~p.wrote
      BY <2>7, <2>8, <3>1, PatchRequestType
    <3>3. QED
      BY <2>7, <3>2 DEF p, MaybeDirection
  <2>3. refusal(m, body) = "none" =>
          movements[m].account \in Accounts /\ body.acct \in Accounts \union {None}
    BY <2>7 DEF TypeInv, Books, MaybeAccount
  <2>4. refusal(m, body) \in {"none", "404", "422"}
    OBVIOUS
  <2> HIDE DEF q, refusal
  <2>5. refusal(m, body) = "none" =>
          LockSet(q(m, body)) \subseteq Accounts /\ LockSet(q(m, body)) # {}
    BY <2>2, <2>3 DEF LockSet, Target
  <2>6. q(m, body) \in Answered
    BY <2>2, <2>7 DEF Answered
  <2>9. QED
    BY <2>1, <2>2, <2>4, <2>5, <2>6 DEF Begins, Shaped
<1>4. CASE DeleteMovement(r)
  <2> DEFINE q(m) == [IdleRequest EXCEPT !.pc = "locking", !.op = "delete",
                                         !.mov = m, !.snap = movements[m]]
  <2>1. PICK m \in Movements :
          Begin(r, q(m), IF movements[m].state = "live" THEN "none" ELSE "404")
    BY <1>4 DEF DeleteMovement
  <2>2. /\ q(m) \in Request /\ q(m).op = "delete" /\ q(m).snap = movements[m]
        /\ q(m).mov = m /\ q(m).pc = "locking"
        /\ q(m).reply = "none" /\ ~q(m).wrote
    BY DEF IdleRequest, Request, TypeInv, TypeOK
  <2> HIDE DEF q
  <2>3. /\ LockSet(q(m)) \subseteq Accounts
        /\ movements[m].state = "live" => LockSet(q(m)) # {}
    <3>1. LockSet(q(m)) = Legs(movements[m])
      BY <2>2 DEF LockSet
    <3>2. movements[m].state = "live" => movements[m].account \in Legs(movements[m])
      BY DEF TypeInv, Books, Legs, Accounts, None
    <3>3. QED
      BY <3>1, <3>2, LegsType DEF TypeInv, TypeOK
  <2>4. q(m) \in Answered
    BY <2>2 DEF Answered
  <2>5. QED
    BY <2>1, <2>2, <2>3, <2>4 DEF Begins, Shaped
<1>5. CASE DeleteAccount(r)
  <2> DEFINE q(a) == [IdleRequest EXCEPT !.pc = "counting", !.op = "close",
                                         !.acct = a]
  <2>1. PICK a \in Accounts : Begin(r, q(a), IF Live(a) THEN "none" ELSE "404")
    BY <1>5 DEF DeleteAccount
  <2>2. /\ q(a) \in Request /\ q(a).op = "close" /\ q(a).acct = a
        /\ q(a).pc = "counting" /\ q(a).reply = "none" /\ ~q(a).wrote
    BY DEF IdleRequest, Request
  <2> HIDE DEF q
  <2>3. LockSet(q(a)) = {a}
    BY <2>2 DEF LockSet
  <2>4. q(a) \in Answered
    BY <2>2 DEF Answered
  <2>5. QED
    BY <2>1, <2>2, <2>3, <2>4 DEF Begins, Shaped
<1>6. QED
  BY <1>1, <1>2, <1>3, <1>4, <1>5 DEF Start

\* Hence every start keeps the type invariant ...
LEMMA StartType ==
  ASSUME TypeInv, NEW r \in Requests, Start(r)
  PROVE  TypeInv'
<1>1. PICK q, refusal : Begins(r, q, refusal)
  BY StartBegins
<1>2. QED
  BY <1>1, BeginType DEF Begins, Replies

\* Going on to the next step, with the input and the locks as they are.
LEMMA GotoType ==
  ASSUME TypeInv, NEW r \in Requests, NEW pc, Goto(r, pc),
         \/ /\ pc = "gated" /\ req[r].pc \in {"locked", "rowLocked"}
            /\ req[r].op # "delete"
         \/ pc = "closing" /\ req[r].pc = "counting"
         \/ pc = "closingLocked" /\ req[r].pc = "closing"
  PROVE  req' \in [Requests -> Shaped]
<1>1. [req[r] EXCEPT !.pc = pc] \in Shaped
  BY DEF TypeInv, Shaped, Request, Pcs
<1>2. QED
  BY <1>1 DEF Goto, TypeInv

\* A new attempt: from the first lock, with a new lock set.
LEMMA RestartType ==
  ASSUME NEW q \in Request, NEW S \in SUBSET Accounts
  PROVE  [q EXCEPT !.pc = "locking", !.todo = S, !.attempt = @ + 1] \in Request
<1>1. q.attempt + 1 \in Nat /\ "locking" \in Pcs
  BY DEF Request, Pcs
<1>2. QED
  BY <1>1 DEF Request

\* ... and so do the lock steps and the retry,
LEMMA LockStepType ==
  ASSUME TypeInv, NEW r \in Requests,
         LockAccount(r) \/ LockMovement(r) \/ MovedUnderUs(r) \/ RefreshSnapshot(r)
  PROVE  TypeInv'
<1>0. /\ TypeOK /\ req[r] \in Request /\ req[r] \in Shaped
      /\ {"404", "422", "500"} \subseteq Replies
      /\ {"replying", "aborting"} \subseteq DonePcs
      /\ {"locking", "locked", "rowLocked", "refreshing"} \subseteq Pcs
  BY DEF TypeInv, TypeOK, Replies, Pcs, DonePcs
<1>1. CASE LockAccount(r)
  <2> DEFINE a == NextToLock(req[r])
  <2>1. CASE ~Live(a) \/ req[r].reply # "none"
    BY <1>0, <1>1, <2>1, AbortType, HandlerType DEF LockAccount
  <2>2. CASE Live(a) /\ req[r].reply = "none"
    <3>1. /\ TakeAccount(r, a) /\ UNCHANGED <<Tables, started, movLock>>
          /\ \/ Finish(r, "aborting", "422", FALSE)
             \/ req' = [req EXCEPT ![r].todo = @ \ {a},
                          ![r].pc = IF req[r].todo = {a} THEN "locked" ELSE "locking"]
      BY <1>0, <1>1, <2>2 DEF LockAccount
    <3>2. accLock' \in [Accounts -> Requests \union {Free}]
      BY <3>1 DEF TakeAccount, TypeInv, TypeOK
    <3>3. req' \in [Requests -> Shaped]
      <4>1. CASE Finish(r, "aborting", "422", FALSE)
        BY <1>0, <4>1, FinishType
      <4>2. CASE req' = [req EXCEPT ![r].todo = @ \ {a},
                          ![r].pc = IF req[r].todo = {a} THEN "locked" ELSE "locking"]
        <5> DEFINE pc == IF req[r].todo = {a} THEN "locked" ELSE "locking"
        <5>1. /\ pc \in {"locking", "locked"} /\ req[r].pc = "locking"
              /\ req[r].todo \ {a} \in SUBSET Accounts
              /\ pc = "locked" => req[r].todo \ {a} = {}
          BY <1>0, <1>1 DEF Request, LockAccount
        <5>2. [req[r] EXCEPT !.todo = req[r].todo \ {a}, !.pc = pc] \in Shaped
          <6> HIDE DEF pc, a
          <6>1. [req[r] EXCEPT !.todo = req[r].todo \ {a}, !.pc = pc] \in Request
            BY <1>0, <5>1 DEF Request
          <6>2. QED
            BY <1>0, <5>1, <6>1 DEF Request, Shaped
        <5>3. req' = [req EXCEPT ![r] =
                        [req[r] EXCEPT !.todo = req[r].todo \ {a}, !.pc = pc]]
          BY <1>0, <4>2 DEF TypeOK
        <5>4. QED
          BY <5>2, <5>3 DEF TypeInv
      <4>3. QED
        BY <3>1, <4>1, <4>2
    <3>4. QED
      BY <3>1, <3>2, <3>3, HandlerType DEF TypeInv, TypeOK
  <2>3. QED
    BY <2>1, <2>2
<1>2. CASE LockMovement(r)
  <2> DEFINE m == req[r].mov
  <2>1. CASE Abort(r, "404")
    BY <1>0, <1>2, <2>1, AbortType, HandlerType DEF LockMovement
  <2>2. CASE ~ Abort(r, "404")
    <3>1. /\ req' = [req EXCEPT ![r].pc = "rowLocked", ![r].row = movements[m]]
          /\ movLock' = [movLock EXCEPT ![m] = r]
          /\ UNCHANGED <<Tables, started, accLock>>
          /\ movements[m].state = "live"
      BY <1>2, <2>2 DEF LockMovement
    <3>2. m \in Movements /\ req[r].pc = "locked"
      BY <1>0, <1>2 DEF LockMovement, Shaped
    <3>3. [req[r] EXCEPT !.pc = "rowLocked", !.row = movements[m]] \in Request
      BY <1>0, <3>2 DEF TypeOK, Request
    <3>4. [req[r] EXCEPT !.pc = "rowLocked", !.row = movements[m]] \in Shaped
      BY <1>0, <1>2, <3>2, <3>3 DEF LockMovement, Shaped, Request
    <3>5. req' \in [Requests -> Shaped]
      BY <3>1, <3>4 DEF TypeInv
    <3>6. QED
      BY <1>0, <3>1, <3>5, HandlerType DEF TypeOK
  <2>3. QED
    BY <2>1, <2>2
<1>3. CASE MovedUnderUs(r)
  <2>1. [req[r] EXCEPT !.pc = "refreshing", !.row = NoMovement] \in Shaped
    <3>1. [req[r] EXCEPT !.pc = "refreshing", !.row = NoMovement] \in Request
      BY <1>0, RowTypes DEF Request
    <3>2. QED
      BY <1>0, <1>3, <3>1 DEF MovedUnderUs, Shaped, Request
  <2>2. req' \in [Requests -> Shaped]
    BY <1>3, <2>1 DEF MovedUnderUs, TypeInv
  <2>3. QED
    BY <1>0, <1>3, <2>2, ReleaseType, HandlerType DEF MovedUnderUs
<1>4. CASE RefreshSnapshot(r)
  <2> DEFINE row  == movements[req[r].mov]
             next == [req[r] EXCEPT !.snap = row]
             S == LockSet(next)
  <2>1. CASE Finish(r, "replying", "404", FALSE) \/ GiveUp(r)
    BY <1>0, <1>4, <2>1, FinishType, HandlerType
    DEF RefreshSnapshot, GiveUp, Locks, TypeOK
  <2>2. CASE ~ Finish(r, "replying", "404", FALSE) /\ ~ GiveUp(r)
    <3>1. /\ row.state = "live" /\ UNCHANGED <<Tables, started, Locks>>
          /\ req' = [req EXCEPT ![r] = [next EXCEPT !.pc = "locking", !.todo = S,
                                                   !.attempt = @ + 1]]
      BY <1>4, <2>2 DEF RefreshSnapshot
    <3>2. req[r].op \in {"patch", "delete"} /\ req[r].mov \in Movements
      BY <1>0, <1>4 DEF RefreshSnapshot, Shaped
    <3>3. row \in MovementRow /\ row.account \in Accounts
      BY <3>1, <3>2 DEF TypeInv, Books
    <3>4. next \in Request /\ next.snap = row /\ next.op = req[r].op
      BY <1>0, <3>3 DEF Request
    <3>5. S \in SUBSET Accounts
      <4> HIDE DEF next, row
      <4> QED  BY <3>2, <3>3, <3>4, LegsType, TargetType DEF LockSet, Target, Request
    <3>6. [next EXCEPT !.pc = "locking", !.todo = S, !.attempt = @ + 1] \in Shaped
      <4> HIDE DEF S, row
      <4>1. [next EXCEPT !.pc = "locking", !.todo = S, !.attempt = @ + 1] \in Request
        BY <3>4, <3>5, RestartType
      <4>2. QED
        BY <1>0, <3>2, <3>3, <3>5, <4>1 DEF Shaped, Request
    <3>7. QED
      <4> HIDE DEF S, next, row
      <4>1. req' \in [Requests -> Shaped]
        BY <3>1, <3>6 DEF TypeInv
      <4>2. QED
        BY <1>0, <3>1, <4>1, HandlerType DEF Locks, TypeOK
  <2>3. QED
    BY <2>1, <2>2
<1>5. QED
  BY <1>1, <1>2, <1>3, <1>4

\* the checks made on the locked rows,
LEMMA GateType ==
  ASSUME TypeInv, NEW r \in Requests,
         GateCreate(r) \/ GateTransfer(r) \/ GatePatch(r)
  PROVE  TypeInv'
<1>1. /\ UNCHANGED <<Tables, started>> /\ req[r].pc \in {"locked", "rowLocked"}
      /\ req[r].op # "delete"
  BY DEF GateCreate, GateTransfer, GatePatch
<1>2. CASE Abort(r, "422")
  BY <1>1, <1>2, AbortType, HandlerType DEF Replies
<1>3. CASE ~ Abort(r, "422")
  <2>1. Goto(r, "gated") /\ UNCHANGED Locks
    BY <1>3 DEF GateCreate, GateTransfer, GatePatch
  <2>2. QED
    BY <1>1, <2>1, GotoType, HandlerType DEF Locks, TypeInv, TypeOK
<1>4. QED
  BY <1>2, <1>3

\* the commit of a new movement,
LEMMA CommitCreateType ==
  ASSUME TypeInv, NEW r \in Requests, CommitCreate(r)
  PROVE  TypeInv'
<1> DEFINE q == req[r]
           d == SignedDelta(q.dir, q.amt)
<1>1. /\ UNCHANGED started /\ q.acct \in Accounts \union {None}
      /\ q.dir \in Signed /\ q.amt \in Nat /\ d \in Int
  BY DeltaType DEF CommitCreate, TypeInv, Shaped, Request
<1>2. CASE ~ Live(q.acct)
  BY <1>1, <1>2, RefusedType DEF CommitCreate, Replies
<1>3. CASE Live(q.acct)
  <2>1. Commit(r, Credit(accounts, q.acct, d),
               [movements EXCEPT ![Least(Unused)] =
                  NewMovement(q.acct, None, q.dir, q.amt)])
    BY <1>3 DEF CommitCreate
  <2>2. q.acct \in Accounts
    BY <1>3 DEF Live
  <2>3. NewMovement(q.acct, None, q.dir, q.amt) \in MovementRow
    BY <1>1, <2>2, NewMovementType DEF Directions
  <2>4. [movements EXCEPT ![Least(Unused)] =
           NewMovement(q.acct, None, q.dir, q.amt)] \in Books
    BY <2>2, <2>3, BookType DEF TypeInv, NewMovement
  <2>5. Credit(accounts, q.acct, d) \in [Accounts -> AccountRow]
    BY <1>1, CreditType DEF TypeInv, TypeOK
  <2>6. QED
    BY <1>1, <2>1, <2>4, <2>5, CommitType
<1>4. QED
  BY <1>2, <1>3

\* the commit of a transfer,
LEMMA CommitTransferType ==
  ASSUME TypeInv, NEW r \in Requests, CommitTransfer(r)
  PROVE  TypeInv'
<1> DEFINE q == req[r]
<1>1. UNCHANGED started /\ q.amt \in Nat /\ -q.amt \in Int
  BY DEF CommitTransfer, TypeInv, Shaped, Request
<1>2. CASE ~ Live(q.acct) \/ ~ Live(q.to)
  BY <1>1, <1>2, RefusedType DEF CommitTransfer, Replies
<1>3. CASE Live(q.acct) /\ Live(q.to)
  <2>1. Commit(r, Credit(Credit(accounts, q.acct, -q.amt), q.to, q.amt),
               [movements EXCEPT ![Least(Unused)] =
                  NewMovement(q.acct, q.to, "transfer", q.amt)])
    BY <1>3 DEF CommitTransfer
  <2>2. q.acct \in Accounts /\ q.to \in Accounts
    BY <1>3 DEF Live
  <2>3. NewMovement(q.acct, q.to, "transfer", q.amt) \in MovementRow
    BY <1>1, <2>2, NewMovementType DEF Directions
  <2>4. [movements EXCEPT ![Least(Unused)] =
           NewMovement(q.acct, q.to, "transfer", q.amt)] \in Books
    BY <2>2, <2>3, BookType DEF TypeInv, NewMovement
  <2>5. Credit(Credit(accounts, q.acct, -q.amt), q.to, q.amt)
          \in [Accounts -> AccountRow]
    <3>1. Credit(accounts, q.acct, -q.amt) \in [Accounts -> AccountRow]
      BY <1>1, CreditType DEF TypeInv, TypeOK
    <3>2. QED
      BY <1>1, <3>1, CreditType
  <2>6. QED
    BY <1>1, <2>1, <2>4, <2>5, CommitType
<1>4. QED
  BY <1>2, <1>3

\* (what a PATCH stores is a movement row on its target,)
LEMMA MergedType ==
  ASSUME NEW q \in Shaped, q.op = "patch", Target(q) \in Accounts
  PROVE  /\ Merged(q) \in MovementRow
         /\ Merged(q).account = Target(q)
<1>1. /\ q.row.dest \in Accounts \union {None} /\ q.row.dir \in Directions
      /\ q.row.amount \in Nat /\ q.amt \in Nat /\ q.dir \in Signed \union {"keep"}
  BY DEF Shaped, Request, MovementRow
<1>2. QED
  BY <1>1, NewMovementType DEF Merged, Directions, NewMovement

\* (and the balances it starts from are a table of accounts,)
LEMMA ReversedType ==
  ASSUME TypeOK, NEW q \in Request
  PROVE  Reversed(q) \in [Accounts -> AccountRow]
<1>1. q.row.amount \in Nat
  BY DEF Request, MovementRow
<1>2. -SignedDelta(q.row.dir, q.row.amount) \in Int
  BY <1>1, DeltaType
<1>3. QED
  BY <1>2, CreditType DEF Reversed, TypeOK

\* the commit of a PATCH,
LEMMA CommitPatchType ==
  ASSUME TypeInv, NEW r \in Requests, CommitPatch(r)
  PROVE  TypeInv'
<1> DEFINE q   == req[r]
           new == Merged(q)
           d   == SignedDelta(new.dir, new.amount)
<1>1. UNCHANGED started /\ q \in Shaped /\ q \in Request /\ q.op = "patch"
  BY DEF CommitPatch, TypeInv, Shaped
<1>2. CASE Refused(r, "500") \/ Refused(r, "422")
  BY <1>1, <1>2, RefusedType DEF Replies
<1>3. CASE ~ Refused(r, "500") /\ ~ Refused(r, "422")
  <2>1. /\ Live(new.account)
        /\ Commit(r, Credit(Reversed(q), new.account, d),
                  [movements EXCEPT ![q.mov] = new])
    BY <1>3 DEF CommitPatch
  <2>2. new.account = Target(q)
    BY DEF Merged, NewMovement
  <2>3. Target(q) \in Accounts
    BY <2>1, <2>2 DEF Live
  <2>4. new \in MovementRow
    BY <1>1, <2>3, MergedType
  <2> HIDE DEF new, q
  <2>5. d \in Int
    BY <2>4, DeltaType DEF MovementRow
  <2>6. [movements EXCEPT ![q.mov] = new] \in Books
    BY <2>2, <2>3, <2>4, BookType DEF TypeInv
  <2> HIDE DEF d
  <2>7. Credit(Reversed(q), new.account, d) \in [Accounts -> AccountRow]
    BY <1>1, <2>5, ReversedType, CreditType DEF TypeInv
  <2>8. QED
    BY <1>1, <2>1, <2>6, <2>7, CommitType
<1>4. QED
  BY <1>2, <1>3

\* the commit of a DELETE,
LEMMA CommitDeleteType ==
  ASSUME TypeInv, NEW r \in Requests, CommitDelete(r)
  PROVE  TypeInv'
<1> DEFINE q == req[r]
           table == IF q.row.dir = "transfer"
                    THEN Credit(Reversed(q), q.row.dest, -q.row.amount)
                    ELSE Reversed(q)
<1>1. /\ UNCHANGED started /\ q \in Request
      /\ Commit(r, table, [movements EXCEPT ![q.mov] = DeletedMovement])
  BY DEF CommitDelete, TypeInv, Shaped
<1>2. Reversed(q) \in [Accounts -> AccountRow] /\ -q.row.amount \in Int
  BY <1>1, ReversedType DEF TypeInv, Request, MovementRow
<1>3. table \in [Accounts -> AccountRow]
  BY <1>2, CreditType
<1>4. [movements EXCEPT ![q.mov] = DeletedMovement] \in Books
  BY RowTypes, BookType DEF TypeInv, DeletedMovement, NoMovement
<1> HIDE DEF table, q
<1>5. QED
  BY <1>1, <1>3, <1>4, CommitType

\* the three statements of DELETE /accounts,
LEMMA CloseType ==
  ASSUME TypeInv, NEW r \in Requests,
         CountMovements(r) \/ LockClosing(r) \/ CommitClose(r)
  PROVE  TypeInv'
<1>0. /\ TypeOK /\ {"404", "409"} \subseteq Replies /\ "replying" \in DonePcs
      /\ FALSE \in BOOLEAN
  BY DEF TypeInv, Replies, DonePcs
<1>1. CASE CountMovements(r)
  <2>1. UNCHANGED <<Tables, Locks, started>> /\ req[r].pc = "counting"
    BY <1>1 DEF CountMovements
  <2>2. Finish(r, "replying", "409", FALSE) \/ Goto(r, "closing")
    BY <1>1 DEF CountMovements
  <2>3. req' \in [Requests -> Shaped]
    BY <1>0, <2>1, <2>2, FinishType, GotoType
  <2>4. QED
    BY <1>0, <2>1, <2>3, HandlerType DEF Locks, TypeOK
<1>2. CASE LockClosing(r)
  <2> DEFINE a == req[r].acct
  <2>1. /\ UNCHANGED <<Tables, movLock, started>> /\ req[r].pc = "closing"
        /\ \/ Goto(r, "closingLocked") /\ accLock' = [accLock EXCEPT ![a] = r]
           \/ Finish(r, "replying", "404", FALSE) /\ UNCHANGED accLock
    BY <1>2 DEF LockClosing
  <2>2. req' \in [Requests -> Shaped]
    BY <1>0, <2>1, FinishType, GotoType
  <2>3. accLock' \in [Accounts -> Requests \union {Free}]
    BY <1>0, <2>1 DEF TypeOK
  <2>4. QED
    BY <1>0, <2>1, <2>2, <2>3, HandlerType DEF TypeOK
<1>3. CASE CommitClose(r)
  <2> DEFINE a == req[r].acct
  <2>1. CASE Release(r) /\ Finish(r, "replying", "409", FALSE) /\ UNCHANGED Tables
    BY <1>0, <1>3, <2>1, FinishType, ReleaseType, HandlerType DEF CommitClose
  <2>2. CASE Commit(r, [accounts EXCEPT ![a] = DeletedAccount], movements)
    <3>1. [accounts EXCEPT ![a] = DeletedAccount] \in [Accounts -> AccountRow]
      BY <1>0, RowTypes DEF TypeOK
    <3>2. QED
      BY <1>3, <2>2, <3>1, CommitType DEF CommitClose, TypeInv
  <2>3. QED
    BY <1>3, <2>1, <2>2 DEF CommitClose
<1>4. QED
  BY <1>1, <1>2, <1>3

\* the ends of a request,
LEMMA EndType ==
  ASSUME TypeInv, NEW r \in Requests, Rollback(r) \/ Respond(r) \/ Timeout(r)
  PROVE  TypeInv'
<1>0. /\ TypeOK /\ "504" \in Replies /\ {"replying", "aborting"} \subseteq DonePcs
      /\ FALSE \in BOOLEAN
  BY DEF TypeInv, Replies, DonePcs
<1>1. CASE Rollback(r) \/ Respond(r)
  <2>1. IdleRequest \in Shaped
    BY RowTypes, IdleShaped DEF IdleRequest, DonePcs
  <2>2. req' \in [Requests -> Shaped]
    BY <1>1, <2>1 DEF Rollback, Respond, TypeInv
  <2>3. QED
    BY <1>0, <1>1, <2>2, ReleaseType, HandlerType
    DEF Rollback, Respond, Locks, Tables, TypeOK
<1>2. CASE Timeout(r)
  <2>1. [req[r] EXCEPT !.reply = "504"] \in Shaped
    BY <1>0 DEF TypeInv, Shaped, Request
  <2>2. \/ Finish(r, "aborting", "504", FALSE)
        \/ Finish(r, "replying", "504", FALSE)
        \/ req' = [req EXCEPT ![r].reply = "504"]
    BY <1>2 DEF Timeout
  <2>3. req' \in [Requests -> Shaped]
    BY <1>0, <2>1, <2>2, FinishType DEF TypeInv
  <2>4. QED
    BY <1>0, <1>2, <2>3, HandlerType DEF Timeout, Locks, TypeOK
<1>3. QED
  BY <1>1, <1>2

\* and the one-statement writes of /accounts.
LEMMA AccountType ==
  ASSUME TypeInv, NEW a \in Accounts, CreateAccount(a) \/ PatchAccount(a)
  PROVE  TypeInv'
<1>1. CASE CreateAccount(a)
  BY <1>1, RowTypes DEF CreateAccount, Locks, TypeInv, TypeOK, Books, Shaped
<1>2. CASE PatchAccount(a)
  <2>1. PICK b \in ManualBalances \union {accounts[a].balance}, f \in BOOLEAN :
          /\ accounts' = [accounts EXCEPT ![a].balance = b, ![a].archived = f]
          /\ adjusted' = [adjusted EXCEPT ![a] = @ + (b - accounts[a].balance)]
    BY <1>2 DEF PatchAccount
  <2>2. accounts[a].balance \in Int /\ b \in Int /\ adjusted[a] \in Int
    BY BalancesAssumption DEF TypeInv, TypeOK, AccountRow
  <2>3. accounts' \in [Accounts -> AccountRow] /\ adjusted' \in [Accounts -> Int]
    <3>1. [accounts[a] EXCEPT !.balance = b, !.archived = f] \in AccountRow
      BY <2>2 DEF TypeInv, TypeOK, AccountRow
    <3>2. accounts' = [accounts EXCEPT ![a] =
                         [accounts[a] EXCEPT !.balance = b, !.archived = f]]
      BY <2>1 DEF TypeInv, TypeOK
    <3>3. adjusted[a] + (b - accounts[a].balance) \in Int
      BY <2>2
    <3>4. QED
      BY <2>1, <3>1, <3>2, <3>3 DEF TypeInv, TypeOK
  <2>4. QED
    BY <1>2, <2>3 DEF PatchAccount, Locks, TypeInv, TypeOK, Books, Shaped
<1>3. QED
  BY <1>1, <1>2

\* The initial book and its balances are well typed.
LEMMA InitType == Init => TypeInv
<1> SUFFICES ASSUME Init PROVE TypeInv
  OBVIOUS
<1>1. Stored \in Books
  BY StoredAssumption, OpenedAssumption DEF Books
<1>2. accounts \in [Accounts -> AccountRow]
  <2>1. ASSUME NEW a \in Accounts
        PROVE  [OpenAccount EXCEPT !.balance = LedgerTotal(Stored, a)] \in AccountRow
    <3>1. LedgerTotal(Stored, a) \in Int
      BY StoredAssumption, LedgerTotalType
    <3>2. QED
      BY <3>1, RowTypes DEF AccountRow
  <2>2. QED
    BY <2>1, RowTypes DEF Init
<1>3. IdleRequest \in Shaped
  BY RowTypes, IdleShaped DEF IdleRequest, DonePcs
<1>4. QED
  BY <1>1, <1>2, <1>3, RowTypes, StoredAssumption DEF Init, TypeInv, TypeOK

\* The type invariant is inductive on its own.
LEMMA NextType == TypeInv /\ [Next]_vars => TypeInv'
<1> SUFFICES ASSUME TypeInv, [Next]_vars PROVE TypeInv'
  OBVIOUS
<1>1. ASSUME NEW r \in Requests, Start(r) \/ Step(r) \/ Timeout(r)
      PROVE  TypeInv'
  BY <1>1, StartType, LockStepType, GateType, CommitCreateType,
     CommitTransferType, CommitPatchType, CommitDeleteType, CloseType, EndType
  DEF Step
<1>2. ASSUME NEW a \in Accounts, CreateAccount(a) \/ PatchAccount(a)
      PROVE  TypeInv'
  BY <1>2, AccountType
<1>3. CASE UNCHANGED vars
  BY <1>3 DEF vars, TypeInv, TypeOK, Books, Shaped
<1>4. QED
  BY <1>1, <1>2, <1>3 DEF Next, Drained

\* It holds in every reachable state, for every instance.
LEMMA TypeInvariant == Spec => []TypeInv
<1>1. QED
  BY InitType, NextType, PTL DEF Spec

(* Every variable keeps its type, in any number of requests, accounts and   *)
(* movements.                                                               *)
THEOREM TypeCorrect == Spec => []TypeOK
<1>1. TypeInv => TypeOK
  BY DEF TypeInv
<1>2. QED
  BY <1>1, TypeInvariant, PTL

-----------------------------------------------------------------------------
(* Locks.  First what a step of r may not do to another request s.         *)

\* The step leaves request s, its locks and what they protect alone.
Respects(s) ==
  /\ req'[s] = req[s]
  /\ \A a \in Accounts : accLock[a] = s /\ Live(a) => accLock'[a] = s /\ Live(a)'
  /\ \A m \in Movements : movLock[m] = s /\ movements[m].state = "live" =>
       movLock'[m] = s /\ movements'[m] = movements[m]

\* What s has secured survives a step that respects it.
LEMMA RespectedStaysSecured ==
  ASSUME TypeInv, NEW s \in Requests, Secured(s), Respects(s)
  PROVE  Secured(s)'
<1> DEFINE q == req[s]
<1>1. q' = q /\ q \in Shaped /\ q \in Request /\ LockSet(q)' = LockSet(q)
  BY DEF Respects, TypeInv, Shaped, LockSet, Target
<1>2. \A a : Live(a) /\ accLock[a] = s => Live(a)' /\ accLock'[a] = s
  BY DEF Respects, Live
<1>3. q.pc \in {"locking", "locked", "rowLocked", "gated"} =>
        \A a \in LockSet(q) \ q.todo : Live(a)' /\ accLock'[a] = s
  BY <1>2 DEF Secured
<1>4. q.pc = "rowLocked" \/ (q.pc = "gated" /\ q.op = "patch") =>
        /\ movLock'[q.mov] = s
        /\ q.row = movements'[q.mov] /\ q.row.state = "live"
  <2>1. q.pc = "rowLocked" => q.op \in {"patch", "delete"}
    BY <1>1 DEF Shaped
  <2>2. q.op \in {"patch", "delete"} => q.mov \in Movements
    BY <1>1 DEF Shaped
  <2>3. QED
    BY <2>1, <2>2 DEF Secured, Respects
<1>5. QED
  BY <1>1, <1>2, <1>3, <1>4 DEF Secured

\* A handler's step that leaves the tables alone takes free locks or gives its
\* own ones back.
LEMMA HandlerRespects ==
  ASSUME TypeInv, NEW r \in Requests, UNCHANGED Tables,
         \/ UNCHANGED accLock
         \/ Release(r)
         \/ \E a \in Accounts : accLock[a] = Free /\ accLock' = [accLock EXCEPT ![a] = r],
         \/ UNCHANGED movLock
         \/ Release(r)
         \/ \E m \in Movements : movLock[m] = Free /\ movLock' = [movLock EXCEPT ![m] = r],
         NEW p, req' = [req EXCEPT ![r] = p],
         NEW s \in Requests \ {r}
  PROVE  Respects(s)
<1>1. s # Free
  BY FreeAssumption
<1>2. req'[s] = req[s]
  BY DEF TypeInv
<1>3. \A a \in Accounts : accLock[a] = s => accLock'[a] = s
  BY <1>1 DEF Release, TypeInv, TypeOK
<1>4. \A m \in Movements : movLock[m] = s => movLock'[m] = s
  BY <1>1 DEF Release, TypeInv, TypeOK
<1>5. QED
  BY <1>2, <1>3, <1>4 DEF Respects, Tables, Live

\* A commit changes accounts it keeps live or has locked, and rows it has
\* locked or that are not stored.
LEMMA CommitRespects ==
  ASSUME TypeInv, NEW r \in Requests, NEW newAccounts, NEW newMovements,
         Commit(r, newAccounts, newMovements),
         \A a \in Accounts : Live(a) /\ accLock[a] # r => newAccounts[a].state = "live",
         \A m \in Movements : movements[m].state = "live" /\ movLock[m] # r =>
           newMovements[m] = movements[m],
         NEW s \in Requests \ {r}
  PROVE  Respects(s)
<1>1. s # Free /\ s # r
  BY FreeAssumption
<1>2. req'[s] = req[s]
  BY DEF Commit, Finish, TypeInv
<1>3. \A a \in Accounts : accLock[a] = s => accLock'[a] = s
  BY <1>1 DEF Commit, Release, TypeInv, TypeOK
<1>4. \A m \in Movements : movLock[m] = s => movLock'[m] = s
  BY <1>1 DEF Commit, Release, TypeInv, TypeOK
<1>5. QED
  BY <1>1, <1>2, <1>3, <1>4 DEF Respects, Commit, Live

\* Locks are secured again after a step of r that secures its own and respects
\* the others'.
LEMMA StepSecures ==
  ASSUME TypeInv, LockInv, NEW r \in Requests, Secured(r)',
         \A s \in Requests \ {r} : Respects(s)
  PROVE  LockInv'
<1>1. \A s \in Requests \ {r} : Secured(s)'
  BY RespectedStaysSecured DEF LockInv
<1>2. QED
  BY <1>1 DEF LockInv

\* A handler that is done, or has no transaction open, needs no lock.
LEMMA NothingToSecure ==
  ASSUME NEW r, req'[r].pc \in DonePcs \union {"refreshing", "counting", "closing"}
  PROVE  Secured(r)'
BY DEF Secured, DonePcs

\* A request that is done has nothing left to secure.
LEMMA FinishIsDone ==
  ASSUME TypeInv, NEW r \in Requests, NEW pc \in DonePcs, NEW reply, NEW wrote,
         Finish(r, pc, reply, wrote)
  PROVE  /\ \E p : req' = [req EXCEPT ![r] = p]
         /\ req'[r].pc = pc
         /\ Secured(r)'
<1>1. \E p : req' = [req EXCEPT ![r] = p]
  BY DEF Finish
<1>2. req'[r].pc = pc
  BY DEF Finish, TypeInv, IdleRequest
<1>3. QED
  BY <1>1, <1>2, NothingToSecure

\* Finishing without touching the tables: locks are kept or given back.
LEMMA FinishSecures ==
  ASSUME TypeInv, LockInv, NEW r \in Requests, NEW pc \in DonePcs,
         NEW reply, NEW wrote, Finish(r, pc, reply, wrote), UNCHANGED Tables,
         UNCHANGED <<accLock, movLock>> \/ Release(r)
  PROVE  LockInv'
<1>1. Secured(r)' /\ \E p : req' = [req EXCEPT ![r] = p]
  BY FinishIsDone
<1>2. \A s \in Requests \ {r} : Respects(s)
  BY <1>1, HandlerRespects
<1>3. QED
  BY <1>1, <1>2, StepSecures

\* The lock set depends on the input and the snapshot only.
LEMMA LockSetSame ==
  ASSUME NEW p, NEW q, p.op = q.op, p.acct = q.acct, p.to = q.to, p.snap = q.snap
  PROVE  LockSet(p) = LockSet(q)
BY DEF LockSet, Target

\* A request that starts has locked nothing yet.
LEMMA StartSecures ==
  ASSUME TypeInv, LockInv, NEW r \in Requests, Start(r)
  PROVE  LockInv'
<1>1. PICK q, refusal : Begins(r, q, refusal)
  BY StartBegins
<1>2. CASE refusal # "none"
  BY <1>1, <1>2, FinishSecures DEF Begins, Begin, Locks, DonePcs
<1>3. CASE refusal = "none"
  <2> DEFINE p == [q EXCEPT !.todo = LockSet(q), !.attempt = 1]
  <2>1. /\ req' = [req EXCEPT ![r] = p] /\ UNCHANGED <<Tables, Locks>>
        /\ q \in Shaped /\ q \in Request /\ q.pc \in {"locking", "counting"}
    BY <1>1, <1>3 DEF Begins, Begin, Shaped
  <2>2. /\ p.pc = q.pc /\ p.todo = LockSet(q)
        /\ p.op = q.op /\ p.acct = q.acct /\ p.to = q.to /\ p.snap = q.snap
    BY <2>1 DEF Request
  <2>3. req'[r] = p
    BY <2>1 DEF TypeInv
  <2> HIDE DEF p
  <2>4. LockSet(p) = LockSet(q)
    BY <2>2, LockSetSame
  <2>5. LockSet(req[r])' = LockSet(p)
    BY <2>3 DEF LockSet, Target
  <2>6. Secured(r)'
    BY <2>1, <2>2, <2>3, <2>4, <2>5 DEF Secured
  <2>7. \A s \in Requests \ {r} : Respects(s)
    BY <2>1, HandlerRespects DEF Locks
  <2>8. QED
    BY <2>6, <2>7, StepSecures
<1>4. QED
  BY <1>2, <1>3

\* A lock taken on a live account is secured by the request that took it.
LEMMA LockAccountSecures ==
  ASSUME TypeInv, LockInv, NEW r \in Requests, LockAccount(r)
  PROVE  LockInv'
<1> DEFINE q == req[r]
           a == NextToLock(q)
<1>1. UNCHANGED Tables /\ accLock[a] = Free /\ "aborting" \in DonePcs
  BY DEF LockAccount, DonePcs
<1>2. CASE Abort(r, "422")
  BY <1>1, <1>2, FinishSecures DEF Abort, Locks
<1>3. CASE ~ Abort(r, "422")
  <2>1. Live(a) /\ a \in Accounts /\ TakeAccount(r, a) /\ UNCHANGED movLock
    BY <1>3 DEF LockAccount, Live
  <2>2. accLock' = [accLock EXCEPT ![a] = r] /\ accLock'[a] = r
    BY <2>1 DEF TakeAccount, TypeInv, TypeOK
  <2>3. CASE Finish(r, "aborting", "422", FALSE)
    <3>1. Secured(r)' /\ \E p : req' = [req EXCEPT ![r] = p]
      BY <1>1, <2>3, FinishIsDone
    <3>2. \A s \in Requests \ {r} : Respects(s)
      BY <1>1, <2>1, <2>2, <3>1, HandlerRespects
    <3>3. QED
      BY <3>1, <3>2, StepSecures
  <2>4. CASE ~ Finish(r, "aborting", "422", FALSE)
    <3> DEFINE p == [q EXCEPT !.todo = @ \ {a},
                       !.pc = IF q.todo = {a} THEN "locked" ELSE "locking"]
    <3>1. req' = [req EXCEPT ![r].todo = @ \ {a},
                    ![r].pc = IF q.todo = {a} THEN "locked" ELSE "locking"]
      BY <1>3, <2>4 DEF LockAccount
    <3>2. req' = [req EXCEPT ![r] = p]
      BY <3>1 DEF TypeInv
    <3>3. /\ q \in Request /\ q.pc = "locking"
          /\ p.op = q.op /\ p.acct = q.acct /\ p.to = q.to /\ p.snap = q.snap
          /\ p.todo = q.todo \ {a} /\ p.pc \in {"locked", "locking"}
      BY DEF TypeInv, Shaped, Request, LockAccount
    <3>4. req'[r] = p
      BY <3>2 DEF TypeInv
    <3> HIDE DEF p
    <3>5. LockSet(req[r])' = LockSet(q)
      <4>1. LockSet(req[r])' = LockSet(p)
        BY <3>4 DEF LockSet, Target
      <4>2. QED
        BY <3>3, <4>1, LockSetSame
    <3>6. \A b \in LockSet(q) \ p.todo : Live(b)' /\ accLock'[b] = r
      <4> HIDE DEF a
      <4>1. \A b \in LockSet(q) \ q.todo : Live(b) /\ accLock[b] = r
        BY <3>3 DEF LockInv, Secured
      <4>2. \A b : Live(b) => Live(b)'
        BY <1>1 DEF Live, Tables
      <4>3. \A b : Live(b) /\ accLock[b] = r => accLock'[b] = r
        BY <2>2 DEF Live, TypeInv, TypeOK
      <4> HIDE DEF q
      <4>4. QED
        BY <2>1, <2>2, <3>3, <4>1, <4>2, <4>3
    <3>7. Secured(r)'
      BY <3>3, <3>4, <3>5, <3>6 DEF Secured
    <3>8. \A s \in Requests \ {r} : Respects(s)
      BY <1>1, <2>1, <2>2, <3>2, HandlerRespects
    <3>9. QED
      BY <3>7, <3>8, StepSecures
  <2>5. QED
    BY <2>3, <2>4
<1>4. QED
  BY <1>2, <1>3

\* The movement row read under its lock is the stored one.
LEMMA LockMovementSecures ==
  ASSUME TypeInv, LockInv, NEW r \in Requests, LockMovement(r)
  PROVE  LockInv'
<1> DEFINE q == req[r]
           m == q.mov
           p == [q EXCEPT !.pc = "rowLocked", !.row = movements[m]]
<1>1. UNCHANGED Tables /\ movLock[m] = Free /\ "aborting" \in DonePcs
  BY DEF LockMovement, DonePcs
<1>2. CASE Abort(r, "404")
  BY <1>1, <1>2, FinishSecures DEF Abort, Locks
<1>3. CASE ~ Abort(r, "404")
  <2>1. /\ movements[m].state = "live" /\ UNCHANGED accLock
        /\ movLock' = [movLock EXCEPT ![m] = r]
        /\ req' = [req EXCEPT ![r].pc = "rowLocked", ![r].row = movements[m]]
    BY <1>3 DEF LockMovement
  <2>2. m \in Movements /\ q.pc = "locked" /\ q \in Request /\ q.todo = {}
    BY DEF LockMovement, TypeInv, Shaped
  <2>3. req' = [req EXCEPT ![r] = p] /\ req'[r] = p
    BY <2>1 DEF TypeInv
  <2>4. /\ p.op = q.op /\ p.acct = q.acct /\ p.to = q.to /\ p.snap = q.snap
        /\ p.todo = q.todo /\ p.mov = m /\ p.row = movements[m] /\ p.pc = "rowLocked"
    BY <2>2 DEF Request
  <2> HIDE DEF p
  <2>5. LockSet(req[r])' = LockSet(q)
    <3>1. LockSet(req[r])' = LockSet(p)
      BY <2>3 DEF LockSet, Target
    <3>2. QED
      BY <2>4, <3>1, LockSetSame
  <2>6. movLock'[m] = r /\ movements' = movements /\ accLock' = accLock
    BY <1>1, <2>1, <2>2 DEF Tables, TypeInv, TypeOK
  <2>7. \A a \in LockSet(q) \ q.todo : Live(a)' /\ accLock'[a] = r
    BY <1>1, <2>1, <2>2 DEF LockInv, Secured, Live, Tables
  <2>8. Secured(r)'
    BY <2>1, <2>3, <2>4, <2>5, <2>6, <2>7 DEF Secured
  <2>9. \A s \in Requests \ {r} : Respects(s)
    BY <1>1, <2>1, <2>2, <2>3, HandlerRespects
  <2>10. QED
    BY <2>8, <2>9, StepSecures
<1>4. QED
  BY <1>2, <1>3

\* A retry gives up everything it had secured and starts afresh.
LEMMA RetrySecures ==
  ASSUME TypeInv, LockInv, NEW r \in Requests, MovedUnderUs(r) \/ RefreshSnapshot(r)
  PROVE  LockInv'
<1>1. CASE MovedUnderUs(r)
  <2>1. req' = [req EXCEPT ![r] = [req[r] EXCEPT !.pc = "refreshing", !.row = NoMovement]]
    BY <1>1 DEF MovedUnderUs, TypeInv
  <2>2. req'[r].pc = "refreshing"
    BY <2>1 DEF TypeInv, Shaped, Request
  <2>3. Secured(r)'
    BY <2>2, NothingToSecure
  <2>4. \A s \in Requests \ {r} : Respects(s)
    BY <1>1, <2>1, HandlerRespects DEF MovedUnderUs
  <2>5. QED
    BY <2>3, <2>4, StepSecures
<1>2. CASE RefreshSnapshot(r)
  <2> DEFINE q    == req[r]
             row  == movements[q.mov]
             next == [q EXCEPT !.snap = row]
             p == [next EXCEPT !.pc = "locking", !.todo = LockSet(next),
                               !.attempt = @ + 1]
  <2>1. UNCHANGED <<Tables, Locks>>
    BY <1>2 DEF RefreshSnapshot
  <2>2. CASE Finish(r, "replying", "404", FALSE) \/ GiveUp(r)
    BY <2>1, <2>2, FinishSecures DEF GiveUp, Locks, DonePcs
  <2>3. CASE ~ Finish(r, "replying", "404", FALSE) /\ ~ GiveUp(r)
    <3>1. req' = [req EXCEPT ![r] = p] /\ req'[r] = p
      BY <1>2, <2>3 DEF RefreshSnapshot, TypeInv
    <3>2. q \in Request
      BY DEF TypeInv, Shaped
    <3>3. /\ p.pc = "locking" /\ p.todo = LockSet(next)
          /\ p.op = next.op /\ p.acct = next.acct /\ p.to = next.to
          /\ p.snap = next.snap
      BY <3>2 DEF Request
    <3> HIDE DEF p, next
    <3>4. LockSet(req[r])' = LockSet(next)
      <4>1. LockSet(req[r])' = LockSet(p)
        BY <3>1 DEF LockSet, Target
      <4>2. QED
        BY <3>3, <4>1, LockSetSame
    <3>5. Secured(r)'
      BY <3>1, <3>3, <3>4 DEF Secured
    <3>6. \A s \in Requests \ {r} : Respects(s)
      BY <2>1, <3>1, HandlerRespects DEF Locks
    <3>7. QED
      BY <3>5, <3>6, StepSecures
  <2>4. QED
    BY <2>2, <2>3
<1>3. QED
  BY <1>1, <1>2

\* A step that only moves a request on keeps what it has locked and read.
LEMMA GotoSecures ==
  ASSUME TypeInv, LockInv, NEW r \in Requests, NEW pc, Goto(r, pc), UNCHANGED Tables,
         UNCHANGED movLock,
         \/ UNCHANGED accLock
         \/ \E a \in Accounts : accLock[a] = Free /\ accLock' = [accLock EXCEPT ![a] = r],
         \/ /\ pc = "gated" /\ req[r].pc \in {"locked", "rowLocked"}
            /\ req[r].op = "patch" =>
                 /\ req[r].pc = "rowLocked" /\ req[r].row.dir # "transfer"
                 /\ req[r].row.account = req[r].snap.account
         \/ pc = "closing"
         \/ pc = "closingLocked" /\ Live(req[r].acct) /\ accLock'[req[r].acct] = r
  PROVE  LockInv'
<1> DEFINE q == req[r]
           p == [q EXCEPT !.pc = pc]
<1>1. q \in Request /\ req' = [req EXCEPT ![r] = p] /\ req'[r] = p
  BY DEF Goto, TypeInv, Shaped
<1>2. /\ p.pc = pc /\ p.op = q.op /\ p.acct = q.acct /\ p.to = q.to
      /\ p.snap = q.snap /\ p.todo = q.todo /\ p.mov = q.mov /\ p.row = q.row
  BY <1>1 DEF Request
<1> HIDE DEF p
<1>3. LockSet(req[r])' = LockSet(q)
  <2>1. LockSet(req[r])' = LockSet(p)
    BY <1>1 DEF LockSet, Target
  <2>2. QED
    BY <1>2, <2>1, LockSetSame
<1>4. \A a : Live(a)' <=> Live(a)
  BY DEF Live, Tables
<1>5. \A s \in Requests \ {r} : Respects(s)
  BY <1>1, HandlerRespects
<1>6. Secured(r)'
  <2>1. CASE pc = "gated"
    <3>1. UNCHANGED <<movements, movLock>>
      BY DEF Tables
    <3>2. \A a \in LockSet(q) \ q.todo : Live(a) /\ accLock[a] = r
      BY <2>1 DEF LockInv, Secured
    <3>3. \A a : accLock[a] = r /\ Live(a) => accLock'[a] = r
      BY DEF Live, TypeInv, TypeOK
    <3>4. q.op = "patch" => /\ movLock[q.mov] = r /\ q.row = movements[q.mov]
                            /\ q.row.state = "live" /\ q.row.dir # "transfer"
                            /\ q.row.account = q.snap.account
      BY <2>1 DEF LockInv, Secured
    <3> HIDE DEF q
    <3>5. QED
      BY <1>1, <1>2, <1>3, <1>4, <2>1, <3>1, <3>2, <3>3, <3>4 DEF Secured
  <2>2. CASE pc = "closing"
    BY <1>1, <1>2, <2>2, NothingToSecure
  <2>3. CASE pc = "closingLocked"
    <3> HIDE DEF q
    <3> QED  BY <1>1, <1>2, <1>4, <2>3 DEF Secured, q
  <2>4. QED
    BY <2>1, <2>2, <2>3
<1>7. QED
  BY <1>5, <1>6, StepSecures

\* The checks on the locked rows write nothing and lose no lock.
LEMMA GateSecures ==
  ASSUME TypeInv, LockInv, NEW r \in Requests,
         GateCreate(r) \/ GateTransfer(r) \/ GatePatch(r)
  PROVE  LockInv'
<1>1. UNCHANGED Tables
  BY DEF GateCreate, GateTransfer, GatePatch
<1>2. CASE Abort(r, "422")
  BY <1>1, <1>2, FinishSecures DEF Abort, Locks, DonePcs
<1>3. CASE ~ Abort(r, "422")
  <2>1. Goto(r, "gated") /\ UNCHANGED Locks
    BY <1>3 DEF GateCreate, GateTransfer, GatePatch
  <2>2. req[r].pc \in {"locked", "rowLocked"}
    BY DEF GateCreate, GateTransfer, GatePatch
  <2>3. req[r].op = "patch" =>
          /\ req[r].pc = "rowLocked" /\ req[r].row.dir # "transfer"
          /\ req[r].row.account = req[r].snap.account
    BY <1>3 DEF GateCreate, GateTransfer, GatePatch, Moved
  <2>4. QED
    BY <1>1, <2>1, <2>2, <2>3, GotoSecures DEF Locks
<1>4. QED
  BY <1>2, <1>3

\* A balance update changes a balance and nothing else.
LEMMA CreditKeeps ==
  ASSUME NEW table \in [Accounts -> AccountRow], NEW a, NEW d,
         NEW b \in Accounts
  PROVE  /\ Credit(table, a, d)[b].state = table[b].state
         /\ Credit(table, a, d)[b].archived = table[b].archived
BY DEF Credit, AccountRow

\* Undoing a delta neither closes, opens, archives nor restores an account.
LEMMA ReversedKeeps ==
  ASSUME TypeInv, NEW q, NEW b \in Accounts
  PROVE  /\ Reversed(q)[b].state = accounts[b].state
         /\ Reversed(q)[b].archived = accounts[b].archived
BY CreditKeeps DEF Reversed, TypeInv, TypeOK

\* A transaction that commits secures nothing more and respects the others.
LEMMA CommitSecures ==
  ASSUME TypeInv, LockInv, NEW r \in Requests, NEW newAccounts, NEW newMovements,
         Commit(r, newAccounts, newMovements),
         \A a \in Accounts : Live(a) /\ accLock[a] # r => newAccounts[a].state = "live",
         \A m \in Movements : movements[m].state = "live" /\ movLock[m] # r =>
           newMovements[m] = movements[m]
  PROVE  LockInv'
<1>1. Secured(r)'
  BY FinishIsDone DEF Commit, DonePcs
<1>2. \A s \in Requests \ {r} : Respects(s)
  BY CommitRespects
<1>3. QED
  BY <1>1, <1>2, StepSecures

\* A refused statement ends the transaction and changes no row.
LEMMA RefusedSecures ==
  ASSUME TypeInv, LockInv, NEW r \in Requests, NEW reply, Refused(r, reply)
  PROVE  LockInv'
BY FinishSecures DEF Refused, Abort, Locks, DonePcs

\* The id an INSERT takes is one that was never used.
LEMMA LeastUnused ==
  ASSUME Unused # {}
  PROVE  /\ Least(Unused) \in Movements
         /\ movements[Least(Unused)].state = "unused"
<1>1. Unused \in SUBSET Nat
  BY CountsAssumption DEF Unused, Movements
<1> DEFINE S == Unused
<1>2. \E n \in S : \A k \in S : n <= k
  <2> HIDE DEF S
  <2>1. S \in SUBSET Nat /\ S # {}
    BY <1>1 DEF S
  <2>2. QED
    BY <2>1, LeastNatural
<1>3. Least(S) \in S
  BY <1>2 DEF Least
<1>4. QED
  BY <1>3 DEF Unused

\* A new row disturbs no request: nobody can have locked it.
LEMMA CommitInsertSecures ==
  ASSUME TypeInv, LockInv, NEW r \in Requests, CommitCreate(r) \/ CommitTransfer(r)
  PROVE  LockInv'
<1>1. CASE Refused(r, "422")
  BY <1>1, RefusedSecures
<1>2. CASE ~ Refused(r, "422")
  <2>0. accounts \in [Accounts -> AccountRow] /\ movements \in [Movements -> MovementRow]
        /\ req[r].amt \in Nat
    BY DEF TypeInv, TypeOK, Shaped, Request
  <2>1. PICK newAccounts, row :
          /\ Unused # {}
          /\ Commit(r, newAccounts, [movements EXCEPT ![Least(Unused)] = row])
          /\ \A a \in Accounts : newAccounts[a].state = accounts[a].state
    <3>1. CASE CommitCreate(r)
      <4> DEFINE d == SignedDelta(req[r].dir, req[r].amt)
                 table == Credit(accounts, req[r].acct, d)
      <4>1. \A a \in Accounts : table[a].state = accounts[a].state
        BY <2>0, CreditKeeps
      <4>2. /\ Unused # {}
            /\ Commit(r, table, [movements EXCEPT ![Least(Unused)] =
                 NewMovement(req[r].acct, None, req[r].dir, req[r].amt)])
        BY <1>2, <3>1 DEF CommitCreate
      <4> HIDE DEF table
      <4>3. QED
        BY <4>1, <4>2
    <3>2. CASE CommitTransfer(r)
      <4> DEFINE debited == Credit(accounts, req[r].acct, -req[r].amt)
      <4>1. debited \in [Accounts -> AccountRow]
        BY <2>0, CreditType
      <4>2. \A a \in Accounts : Credit(debited, req[r].to, req[r].amt)[a].state
                                = accounts[a].state
        <5>1. \A a \in Accounts : debited[a].state = accounts[a].state
          BY <2>0, CreditKeeps
        <5> HIDE DEF debited
        <5>2. QED
          BY <4>1, <5>1, CreditKeeps
      <4>3. QED
        BY <1>2, <3>2, <4>2 DEF CommitTransfer
    <3>3. QED
      BY <3>1, <3>2
  <2>2. movements[Least(Unused)].state = "unused"
    BY <2>1, LeastUnused
  <2> DEFINE book == [movements EXCEPT ![Least(Unused)] = row]
  <2>3. \A m \in Movements : movements[m].state = "live" => book[m] = movements[m]
    BY <2>0, <2>2
  <2>4. \A a \in Accounts : Live(a) => newAccounts[a].state = "live"
    BY <2>1 DEF Live
  <2>5. Commit(r, newAccounts, book)
    BY <2>1
  <2> HIDE DEF book
  <2>6. QED
    BY <2>3, <2>4, <2>5, CommitSecures
<1>3. QED
  BY <1>1, <1>2

\* A PATCH writes the movement row it holds, and no account's state.
LEMMA CommitPatchSecures ==
  ASSUME TypeInv, LockInv, NEW r \in Requests, CommitPatch(r)
  PROVE  LockInv'
<1> DEFINE q   == req[r]
           new == Merged(q)
           d   == SignedDelta(new.dir, new.amount)
           table == Credit(Reversed(q), new.account, d)
           book == [movements EXCEPT ![q.mov] = new]
<1>1. CASE Refused(r, "500") \/ Refused(r, "422")
  BY <1>1, RefusedSecures
<1>2. CASE ~ Refused(r, "500") /\ ~ Refused(r, "422")
  <2>1. Commit(r, table, book) /\ q \in Request
    BY <1>2 DEF CommitPatch, TypeInv, Shaped
  <2>2. movLock[q.mov] = r
    BY DEF LockInv, Secured, CommitPatch
  <2>3. \A m \in Movements : movLock[m] # r => book[m] = movements[m]
    BY <2>2 DEF TypeInv, TypeOK
  <2>4. \A a \in Accounts : Live(a) => table[a].state = "live"
    <3>1. Reversed(q) \in [Accounts -> AccountRow]
      BY <2>1, ReversedType DEF TypeInv
    <3>2. \A a \in Accounts : Live(a) => Reversed(q)[a].state = "live"
      BY ReversedKeeps DEF Live
    <3> HIDE DEF q, new, d
    <3>3. QED
      BY <3>1, <3>2, CreditKeeps
  <2> HIDE DEF table, book
  <2>5. QED
    BY <2>1, <2>3, <2>4, CommitSecures
<1>3. QED
  BY <1>1, <1>2

\* A DELETE removes the movement row it holds, and no account.
LEMMA CommitDeleteSecures ==
  ASSUME TypeInv, LockInv, NEW r \in Requests, CommitDelete(r)
  PROVE  LockInv'
<1> DEFINE q == req[r]
           table == IF q.row.dir = "transfer"
                    THEN Credit(Reversed(q), q.row.dest, -q.row.amount)
                    ELSE Reversed(q)
           book == [movements EXCEPT ![q.mov] = DeletedMovement]
<1>1. Commit(r, table, book) /\ q \in Request
  BY DEF CommitDelete, TypeInv, Shaped
<1>2. movLock[q.mov] = r
  BY DEF LockInv, Secured, CommitDelete
<1>3. \A m \in Movements : movLock[m] # r => book[m] = movements[m]
  BY <1>2 DEF TypeInv, TypeOK
<1>4. \A a \in Accounts : Live(a) => table[a].state = "live"
  <2>1. Reversed(q) \in [Accounts -> AccountRow]
    BY <1>1, ReversedType DEF TypeInv
  <2>2. \A a \in Accounts : Live(a) => Reversed(q)[a].state = "live"
    BY ReversedKeeps DEF Live
  <2> HIDE DEF q
  <2>3. QED
    BY <2>1, <2>2, CreditKeeps
<1> HIDE DEF table, book
<1>5. QED
  BY <1>1, <1>3, <1>4, CommitSecures

\* DELETE /accounts removes only the account it has locked.
LEMMA CloseSecures ==
  ASSUME TypeInv, LockInv, NEW r \in Requests,
         CountMovements(r) \/ LockClosing(r) \/ CommitClose(r)
  PROVE  LockInv'
<1>0. "replying" \in DonePcs
  BY DEF DonePcs
<1>1. CASE CountMovements(r)
  BY <1>0, <1>1, FinishSecures, GotoSecures DEF CountMovements, Locks
<1>2. CASE LockClosing(r)
  <2> DEFINE a == req[r].acct
  <2>1. UNCHANGED Tables /\ UNCHANGED movLock /\ accLock[a] = Free
    BY <1>2 DEF LockClosing
  <2>2. CASE Live(a)
    <3>1. Goto(r, "closingLocked") /\ accLock' = [accLock EXCEPT ![a] = r]
          /\ a \in Accounts
      BY <1>2, <2>2 DEF LockClosing, Live
    <3>2. accLock'[a] = r
      BY <3>1 DEF TypeInv, TypeOK
    <3>3. QED
      BY <2>1, <2>2, <3>1, <3>2, GotoSecures
  <2>3. CASE ~ Live(a)
    BY <1>0, <1>2, <2>1, <2>3, FinishSecures DEF LockClosing
  <2>4. QED
    BY <2>2, <2>3
<1>3. CASE CommitClose(r)
  <2> DEFINE a == req[r].acct
  <2>1. CASE Release(r) /\ Finish(r, "replying", "409", FALSE) /\ UNCHANGED Tables
    BY <1>0, <2>1, FinishSecures
  <2>2. CASE Commit(r, [accounts EXCEPT ![a] = DeletedAccount], movements)
    <3>1. accLock[a] = r
      BY <1>3 DEF CommitClose, LockInv, Secured
    <3> DEFINE table == [accounts EXCEPT ![a] = DeletedAccount]
    <3>2. \A b \in Accounts : Live(b) /\ accLock[b] # r => table[b].state = "live"
      BY <3>1 DEF Live, TypeInv, TypeOK
    <3>3. Commit(r, table, movements)
      BY <2>2
    <3> HIDE DEF table
    <3>4. QED
      BY <3>2, <3>3, CommitSecures
  <2>3. QED
    BY <1>3, <2>1, <2>2 DEF CommitClose
<1>4. QED
  BY <1>1, <1>2, <1>3

\* The answers, the rollback and the timeout secure nothing new.
LEMMA EndSecures ==
  ASSUME TypeInv, LockInv, NEW r \in Requests, Rollback(r) \/ Respond(r) \/ Timeout(r)
  PROVE  LockInv'
<1>1. CASE Rollback(r) \/ Respond(r)
  <2>1. req' = [req EXCEPT ![r] = IdleRequest] /\ UNCHANGED Tables
        /\ (UNCHANGED <<accLock, movLock>> \/ Release(r))
    BY <1>1 DEF Rollback, Respond, Tables, Locks
  <2>2. req'[r].pc = "idle"
    BY <2>1 DEF TypeInv, IdleRequest
  <2>3. Secured(r)'
    BY <2>2, NothingToSecure DEF DonePcs
  <2>4. \A s \in Requests \ {r} : Respects(s)
    BY <2>1, HandlerRespects
  <2>5. QED
    BY <2>3, <2>4, StepSecures
<1>2. CASE Timeout(r)
  <2>1. UNCHANGED <<Tables, accLock, movLock>>
    BY <1>2 DEF Timeout, Locks
  <2>2. CASE Finish(r, "aborting", "504", FALSE) \/ Finish(r, "replying", "504", FALSE)
    BY <2>1, <2>2, FinishSecures DEF DonePcs
  <2>3. CASE ~ Finish(r, "aborting", "504", FALSE) /\ ~ Finish(r, "replying", "504", FALSE)
    <3> DEFINE q == req[r]
               p == [q EXCEPT !.reply = "504"]
    <3>1. req' = [req EXCEPT ![r] = p] /\ req'[r] = p /\ q \in Request
      BY <1>2, <2>3 DEF Timeout, TypeInv, Shaped
    <3>2. /\ p.pc = q.pc /\ p.op = q.op /\ p.acct = q.acct /\ p.to = q.to
          /\ p.snap = q.snap /\ p.todo = q.todo /\ p.mov = q.mov /\ p.row = q.row
      BY <3>1 DEF Request
    <3> HIDE DEF p
    <3>3. LockSet(req[r])' = LockSet(q)
      <4>1. LockSet(req[r])' = LockSet(p)
        BY <3>1 DEF LockSet, Target
      <4>2. QED
        BY <3>2, <4>1, LockSetSame
    <3>4. Secured(r)
      BY DEF LockInv
    <3>5. \A a : Live(a)' <=> Live(a)
      BY <2>1 DEF Live, Tables
    <3>6. Secured(r)'
      BY <2>1, <3>1, <3>2, <3>3, <3>4, <3>5 DEF Secured, Tables
    <3>7. \A s \in Requests \ {r} : Respects(s)
      BY <2>1, <3>1, HandlerRespects
    <3>8. QED
      BY <3>6, <3>7, StepSecures
  <2>4. QED
    BY <2>2, <2>3
<1>3. QED
  BY <1>1, <1>2

\* Opening, archiving or re-balancing an account takes it from nobody.
LEMMA AccountSecures ==
  ASSUME TypeInv, LockInv, NEW a \in Accounts, CreateAccount(a) \/ PatchAccount(a)
  PROVE  LockInv'
<1>1. UNCHANGED <<movements, accLock, movLock, req>>
  BY DEF CreateAccount, PatchAccount, Locks
<1>2. \A b \in Accounts : Live(b) => Live(b)'
  <2>1. CASE CreateAccount(a)
    BY <2>1 DEF CreateAccount, Live, TypeInv, TypeOK
  <2>2. CASE PatchAccount(a)
    <3>1. PICK b, f : accounts' = [accounts EXCEPT ![a].balance = b, ![a].archived = f]
      BY <2>2 DEF PatchAccount
    <3>2. accounts \in [Accounts -> AccountRow]
      BY DEF TypeInv, TypeOK
    <3>3. QED
      BY <3>1, <3>2 DEF Live, AccountRow
  <2>3. QED
    BY <2>1, <2>2
<1>3. \A s \in Requests : Respects(s)
  BY <1>1, <1>2 DEF Respects
<1>4. QED
  BY <1>3, RespectedStaysSecured DEF LockInv

\* What the locks secure is kept by every step of the system.
LEMMA NextSecures == TypeInv /\ LockInv /\ [Next]_vars => LockInv'
<1> SUFFICES ASSUME TypeInv, LockInv, [Next]_vars PROVE LockInv'
  OBVIOUS
<1>1. ASSUME NEW r \in Requests, Start(r) \/ Step(r) \/ Timeout(r)
      PROVE  LockInv'
  BY <1>1, StartSecures, LockAccountSecures, LockMovementSecures, RetrySecures,
     GateSecures, CommitInsertSecures, CommitPatchSecures, CommitDeleteSecures,
     CloseSecures, EndSecures
  DEF Step
<1>2. ASSUME NEW a \in Accounts, CreateAccount(a) \/ PatchAccount(a)
      PROVE  LockInv'
  BY <1>2, AccountSecures
<1>3. CASE UNCHANGED vars
  BY <1>3 DEF vars, LockInv, Secured, LockSet, Target, Live
<1>4. QED
  BY <1>1, <1>2, <1>3 DEF Next, Drained

\* Nothing is locked at the start.
LEMMA InitSecures == Init => LockInv
BY DEF Init, LockInv, Secured, IdleRequest

(* What a handler read under its locks is still true when it uses it.       *)
THEOREM ReadsStayTrue == Spec => []LockedReadsStayTrue
<1>1. TypeInv /\ LockInv => LockedReadsStayTrue
  <2> SUFFICES ASSUME TypeInv, LockInv, NEW r \in Requests
               PROVE
                 LET q == req[r]
                 IN  /\ q.pc \in {"locking", "locked", "rowLocked", "gated"} =>
                          Holds(r, LockSet(q) \ q.todo)
                     /\ q.pc \in {"rowLocked", "gated"} /\ q.op \in {"patch", "delete"} =>
                          /\ movLock[q.mov] = r
                          /\ q.row = movements[q.mov] /\ q.row.state = "live"
                     /\ q.pc = "gated" /\ q.op = "patch" =>
                          Holds(r, {q.row.account, Target(q)})
    BY DEF LockedReadsStayTrue
  <2> QED
    BY DEF LockInv, Secured, TypeInv, Shaped, Holds, LockSet
<1>2. QED
  BY <1>1, InitSecures, InitType, NextSecures, NextType, PTL DEF Spec

-----------------------------------------------------------------------------
(* The book and the balances.                                              *)

BookInv ==
  /\ LegsMatchDirection
  /\ NoDanglingMovement
  /\ UnopenedUntouched
  /\ BalanceMatchesLedger

\* A row that is replaced changes the total of an account by the difference of
\* what the two rows do to it.
LEMMA LedgerTotalUpdate ==
  ASSUME NEW book \in [Movements -> MovementRow], NEW m \in Movements,
         NEW row \in MovementRow, NEW a
  PROVE  LedgerTotal([book EXCEPT ![m] = row], a)
           = LedgerTotal(book, a) + (Effect(row, a) - Effect(book[m], a))
<1> DEFINE f == [i \in Movements |-> Effect(book[i], a)]
           new == [book EXCEPT ![m] = row]
           h == [i \in Movements |-> Effect(new[i], a)]
<1>1. new \in [Movements -> MovementRow]
  OBVIOUS
<1>2. f \in [Movements -> Int] /\ h \in [Movements -> Int]
  BY <1>1, EffectType
<1>3. /\ \A i \in Movements \ {m} : h[i] = f[i]
      /\ h[m] = Effect(row, a) /\ f[m] = Effect(book[m], a)
  OBVIOUS
<1> HIDE DEF f, h
<1>4. SumTo(h, NMovements) = SumTo(f, NMovements) + (h[m] - f[m])
  BY <1>2, <1>3, SumToUpdate, CountsAssumption DEF Movements
<1>5. QED
  BY <1>3, <1>4 DEF LedgerTotal, f, h

\* A step that writes no table keeps the book.
LEMMA TablesKeepBook ==
  ASSUME BookInv, UNCHANGED Tables
  PROVE  BookInv'
BY DEF BookInv, Tables, LegsMatchDirection, NoDanglingMovement, UnopenedUntouched,
       BalanceMatchesLedger, Live

\* A commit that replaces one row and changes the balances by the difference.
LEMMA PostingKeepsBook ==
  ASSUME TypeInv, BookInv, NEW r \in Requests, NEW m \in Movements,
         NEW row \in MovementRow, NEW table \in [Accounts -> AccountRow],
         Commit(r, table, [movements EXCEPT ![m] = row]),
         row.state = "live" => /\ row.dir = "transfer" <=> row.dest # None
                               /\ row.account # row.dest
                               /\ \A a \in Legs(row) : Live(a),
         \A a \in Accounts :
           /\ table[a].state = accounts[a].state
           /\ Live(a) => table[a].balance = accounts[a].balance
                           + (Effect(row, a) - Effect(movements[m], a))
  PROVE  BookInv'
<1>1. /\ movements \in [Movements -> MovementRow]
      /\ movements' = [movements EXCEPT ![m] = row]
      /\ accounts' = table /\ adjusted' = adjusted
  BY DEF Commit, TypeInv, TypeOK
<1>2. \A a : Live(a)' <=> Live(a)
  BY <1>1 DEF Live
<1>3. LegsMatchDirection'
  BY <1>1 DEF BookInv, LegsMatchDirection
<1>4. NoDanglingMovement'
  BY <1>1, <1>2 DEF BookInv, NoDanglingMovement
<1>5. UnopenedUntouched'
  BY <1>1 DEF BookInv, UnopenedUntouched
<1>6. BalanceMatchesLedger'
  <2> SUFFICES ASSUME NEW a \in Accounts, Live(a)
               PROVE  table[a].balance = adjusted[a] + LedgerTotal(movements', a)
    BY <1>1, <1>2 DEF BalanceMatchesLedger
  <2>1. LedgerTotal(movements', a)
          = LedgerTotal(movements, a) + (Effect(row, a) - Effect(movements[m], a))
    BY <1>1, LedgerTotalUpdate
  <2>2. accounts[a].balance = adjusted[a] + LedgerTotal(movements, a)
    BY DEF BookInv, BalanceMatchesLedger
  <2>3. /\ LedgerTotal(movements, a) \in Int /\ adjusted[a] \in Int
        /\ Effect(row, a) \in Int /\ Effect(movements[m], a) \in Int
    BY <1>1, LedgerTotalType, EffectType DEF TypeInv, TypeOK
  <2>4. QED
    BY <2>1, <2>2, <2>3
<1>7. QED
  BY <1>3, <1>4, <1>5, <1>6 DEF BookInv

\* What UPDATE accounts SET balance = balance + d does when the row exists.
LEMMA CreditBalance ==
  ASSUME NEW table \in [Accounts -> AccountRow], NEW a \in Accounts, NEW d \in Int,
         table[a].state = "live", NEW b \in Accounts
  PROVE  Credit(table, a, d)[b].balance
           = table[b].balance + (IF b = a THEN d ELSE 0)
<1>1. table[b].balance \in Int
  BY DEF AccountRow
<1>2. CASE b = a
  BY <1>1, <1>2 DEF Credit, AccountRow
<1>3. CASE b # a
  BY <1>1, <1>3 DEF Credit, AccountRow
<1>4. QED
  BY <1>2, <1>3

\* A new movement is credited once, to the account its row names.
LEMMA CommitCreateKeepsBook ==
  ASSUME TypeInv, BookInv, NEW r \in Requests, CommitCreate(r)
  PROVE  BookInv'
<1> DEFINE q == req[r]
           d == SignedDelta(q.dir, q.amt)
           m == Least(Unused)
           row == NewMovement(q.acct, None, q.dir, q.amt)
           table == Credit(accounts, q.acct, d)
<1>1. CASE Refused(r, "422")
  BY <1>1, TablesKeepBook DEF Refused
<1>2. CASE ~ Refused(r, "422")
  <2>1. /\ Live(q.acct) /\ Unused # {}
        /\ Commit(r, table, [movements EXCEPT ![m] = row])
    BY <1>2 DEF CommitCreate
  <2>2. /\ q.acct \in Accounts /\ q.dir \in Signed /\ q.amt \in Nat
        /\ accounts[q.acct].state = "live" /\ accounts \in [Accounts -> AccountRow]
    BY <2>1 DEF CommitCreate, TypeInv, TypeOK, Shaped, Request, Live
  <2>3. m \in Movements /\ movements[m].state = "unused"
    BY <2>1, LeastUnused
  <2>4. d \in Int
    BY <2>2, DeltaType
  <2>5. row \in MovementRow /\ table \in [Accounts -> AccountRow]
    BY <2>2, <2>4, NewMovementType, CreditType DEF Directions
  <2>6. /\ row.dir = "transfer" <=> row.dest # None
        /\ row.account # row.dest
        /\ \A a \in Legs(row) : Live(a)
    BY <2>1, <2>2 DEF NewMovement, Signed, Legs, None, Accounts
  <2>7. \A a \in Accounts : Effect(row, a) - Effect(movements[m], a)
                              = IF a = q.acct THEN d ELSE 0
    <3>1. \A a \in Accounts : Effect(movements[m], a) = 0
      BY <2>3 DEF Effect
    <3>2. \A a \in Accounts : Effect(row, a) = IF a = q.acct THEN d ELSE 0
      BY <2>2, <2>4 DEF Effect, NewMovement, Signed
    <3>3. QED
      BY <2>4, <3>1, <3>2
  <2>8. \A a \in Accounts :
           /\ table[a].state = accounts[a].state
           /\ table[a].balance = accounts[a].balance + (IF a = q.acct THEN d ELSE 0)
    BY <2>2, <2>4, CreditKeeps, CreditBalance
  <2> HIDE DEF q, d, m, row, table
  <2>9. QED
    BY <2>1, <2>3, <2>5, <2>6, <2>7, <2>8, PostingKeepsBook
<1>3. QED
  BY <1>1, <1>2

\* A transfer debits its origin and credits its destination, once each.
LEMMA CommitTransferKeepsBook ==
  ASSUME TypeInv, BookInv, NEW r \in Requests, CommitTransfer(r)
  PROVE  BookInv'
<1> DEFINE q == req[r]
           m == Least(Unused)
           row == NewMovement(q.acct, q.to, "transfer", q.amt)
           debited == Credit(accounts, q.acct, -q.amt)
           table == Credit(debited, q.to, q.amt)
<1>1. CASE Refused(r, "422")
  BY <1>1, TablesKeepBook DEF Refused
<1>2. CASE ~ Refused(r, "422")
  <2>1. /\ Live(q.acct) /\ Live(q.to) /\ Unused # {}
        /\ Commit(r, table, [movements EXCEPT ![m] = row])
    BY <1>2 DEF CommitTransfer
  <2>2. /\ q.acct \in Accounts /\ q.to \in Accounts /\ q.acct # q.to
        /\ q.amt \in Nat /\ q.amt \in Int /\ -q.amt \in Int
        /\ accounts[q.acct].state = "live" /\ accounts[q.to].state = "live"
        /\ accounts \in [Accounts -> AccountRow]
    BY <2>1 DEF CommitTransfer, TypeInv, TypeOK, Shaped, Request, Live
  <2>3. m \in Movements /\ movements[m].state = "unused"
    BY <2>1, LeastUnused
  <2>4. row \in MovementRow
    BY <2>2, NewMovementType DEF Directions
  <2>5. debited \in [Accounts -> AccountRow]
    BY <2>2, CreditType
  <2>6. \A a \in Accounts :
           /\ debited[a].state = accounts[a].state
           /\ debited[a].balance = accounts[a].balance
                                     + (IF a = q.acct THEN -q.amt ELSE 0)
    BY <2>2, CreditKeeps, CreditBalance
  <2>7. /\ row.dir = "transfer" <=> row.dest # None
        /\ row.account # row.dest
        /\ \A a \in Legs(row) : Live(a)
    BY <2>1, <2>2 DEF NewMovement, Legs, None, Accounts
  <2>8. \A a \in Accounts : Effect(row, a) - Effect(movements[m], a)
          = (IF a = q.acct THEN -q.amt ELSE 0) + (IF a = q.to THEN q.amt ELSE 0)
    <3>1. \A a \in Accounts : Effect(movements[m], a) = 0
      BY <2>3 DEF Effect
    <3>2. \A a \in Accounts : Effect(row, a)
          = (IF a = q.acct THEN -q.amt ELSE 0) + (IF a = q.to THEN q.amt ELSE 0)
      BY <2>2 DEF Effect, NewMovement, SignedDelta
    <3>3. QED
      BY <2>2, <3>1, <3>2
  <2> HIDE DEF debited
  <2>9. table \in [Accounts -> AccountRow]
    BY <2>2, <2>5, CreditType
  <2>10. \A a \in Accounts :
           /\ table[a].state = debited[a].state
           /\ table[a].balance = debited[a].balance + (IF a = q.to THEN q.amt ELSE 0)
    BY <2>2, <2>5, <2>6, CreditKeeps, CreditBalance
  <2>11. \A a \in Accounts : accounts[a].balance \in Int
    BY <2>2 DEF AccountRow
  <2> HIDE DEF q, m, row, table
  <2>12. \A a \in Accounts :
           /\ table[a].state = accounts[a].state
           /\ table[a].balance = accounts[a].balance
                                   + (Effect(row, a) - Effect(movements[m], a))
    BY <2>2, <2>6, <2>8, <2>10, <2>11
  <2>13. QED
    BY <2>1, <2>3, <2>4, <2>7, <2>9, <2>12, PostingKeepsBook
<1>3. QED
  BY <1>1, <1>2

\* Undoing the delta of a row that is stored on a live account.
LEMMA ReversedBalance ==
  ASSUME TypeInv, NEW q \in Request, Live(q.row.account), NEW a \in Accounts
  PROVE  Reversed(q)[a].balance
           = accounts[a].balance
             + (IF a = q.row.account THEN -SignedDelta(q.row.dir, q.row.amount) ELSE 0)
<1>1. /\ q.row.account \in Accounts /\ accounts[q.row.account].state = "live"
      /\ accounts \in [Accounts -> AccountRow] /\ q.row.amount \in Int
  BY DEF Live, TypeInv, TypeOK, Request, MovementRow
<1>2. -SignedDelta(q.row.dir, q.row.amount) \in Int
  BY <1>1, DeltaType
<1>3. QED
  BY <1>1, <1>2, CreditBalance DEF Reversed

\* A PATCH undoes exactly what the stored row did and applies what the new
\* one does, on the same account or on two.
LEMMA CommitPatchKeepsBook ==
  ASSUME TypeInv, LockInv, BookInv, NEW r \in Requests, CommitPatch(r)
  PROVE  BookInv'
<1> DEFINE q   == req[r]
           m   == q.mov
           new == Merged(q)
           d   == SignedDelta(new.dir, new.amount)
           table == Credit(Reversed(q), new.account, d)
<1>1. CASE Refused(r, "500") \/ Refused(r, "422")
  BY <1>1, TablesKeepBook DEF Refused
<1>2. CASE ~ Refused(r, "500") /\ ~ Refused(r, "422")
  <2>1. /\ Live(new.account) /\ Commit(r, table, [movements EXCEPT ![m] = new])
        /\ q \in Request /\ q \in Shaped /\ q.op = "patch" /\ q.pc = "gated"
    BY <1>2 DEF CommitPatch, TypeInv, Shaped
  <2>2. /\ m \in Movements /\ q.row = movements[m] /\ q.row.state = "live"
        /\ q.row.dir # "transfer" /\ q.dir \in Signed \union {"keep"}
    BY <2>1 DEF LockInv, Secured, Shaped
  <2>3. /\ q.row.dest = None /\ q.row.account \in Accounts /\ Live(q.row.account)
        /\ q.row.dir \in Signed /\ q.row.amount \in Nat
    <3>1. q.row.account \in Accounts /\ q.row.dest = None
      BY <2>2 DEF TypeInv, Books, BookInv, LegsMatchDirection
    <3>2. Live(q.row.account)
      BY <2>2, <3>1 DEF BookInv, NoDanglingMovement, Legs, None, Accounts
    <3>3. QED
      BY <2>1, <2>2, <3>1, <3>2 DEF Request, MovementRow, Directions
  <2>4. new.account = Target(q) /\ Target(q) \in Accounts
    BY <2>1 DEF Merged, NewMovement, Live
  <2>5. new \in MovementRow
    BY <2>1, <2>4, MergedType
  <2>6. new.state = "live" /\ new.dest = None /\ new.dir \in Signed
    BY <2>2, <2>3 DEF Merged, NewMovement
  <2> HIDE DEF new
  <2>7. /\ new.dir = "transfer" <=> new.dest # None
        /\ new.account # new.dest
        /\ \A a \in Legs(new) : Live(a)
    BY <2>1, <2>4, <2>6 DEF Legs, None, Accounts, Signed
  <2>8. d \in Int /\ -SignedDelta(q.row.dir, q.row.amount) \in Int
        /\ SignedDelta(q.row.dir, q.row.amount) \in Int
    BY <2>3, <2>5, DeltaType DEF MovementRow
  <2>9. Reversed(q) \in [Accounts -> AccountRow]
    BY <2>1, ReversedType DEF TypeInv
  <2>10. table \in [Accounts -> AccountRow]
    BY <2>8, <2>9, CreditType
  <2>11. \A a \in Accounts :
           /\ table[a].state = accounts[a].state
           /\ table[a].balance = Reversed(q)[a].balance
                                   + (IF a = new.account THEN d ELSE 0)
    <3>1. \A a \in Accounts : Reversed(q)[a].state = accounts[a].state
      BY ReversedKeeps
    <3> HIDE DEF q, d
    <3>2. QED
      BY <2>1, <2>4, <2>8, <2>9, <3>1, CreditKeeps, CreditBalance DEF Live
  <2>12. \A a \in Accounts : Effect(new, a) = IF a = new.account THEN d ELSE 0
    BY <2>6, <2>8 DEF Effect, Signed
  <2>13. \A a \in Accounts : Effect(movements[m], a)
           = IF a = q.row.account THEN SignedDelta(q.row.dir, q.row.amount) ELSE 0
    BY <2>2, <2>8 DEF Effect
  <2>14. \A a \in Accounts : Reversed(q)[a].balance = accounts[a].balance
           + (IF a = q.row.account THEN -SignedDelta(q.row.dir, q.row.amount) ELSE 0)
    BY <2>1, <2>3, ReversedBalance
  <2>15. \A a \in Accounts : accounts[a].balance \in Int
    BY DEF TypeInv, TypeOK, AccountRow
  <2>16. \A a \in Accounts : table[a].balance = accounts[a].balance
           + (Effect(new, a) - Effect(movements[m], a))
    <3> DEFINE u == SignedDelta(q.row.dir, q.row.amount)
    <3> HIDE DEF d, u, table, q
    <3>1. u \in Int /\ d \in Int
      BY <2>8 DEF u
    <3>2. QED
      BY <2>11, <2>12, <2>13, <2>14, <2>15, <3>1 DEF u
  <2> HIDE DEF q, m, table
  <2>17. QED
    BY <2>1, <2>2, <2>5, <2>7, <2>10, <2>11, <2>16, PostingKeepsBook
<1>3. QED
  BY <1>1, <1>2

\* A DELETE undoes exactly what the stored row did, on one leg or on both.
LEMMA CommitDeleteKeepsBook ==
  ASSUME TypeInv, LockInv, BookInv, NEW r \in Requests, CommitDelete(r)
  PROVE  BookInv'
<1> DEFINE q == req[r]
           m == q.mov
           u == SignedDelta(q.row.dir, q.row.amount)
           n == -q.row.amount
           undone == Reversed(q)
           both   == Credit(undone, q.row.dest, n)
           table  == IF q.row.dir = "transfer" THEN both ELSE undone
<1>1. /\ Commit(r, table, [movements EXCEPT ![m] = DeletedMovement])
      /\ q \in Request /\ q \in Shaped /\ q.pc = "rowLocked" /\ q.op = "delete"
  BY DEF CommitDelete, TypeInv, Shaped
<1>2. m \in Movements /\ q.row = movements[m] /\ q.row.state = "live"
  BY <1>1 DEF LockInv, Secured, Shaped
<1>3. /\ q.row.account \in Accounts /\ Live(q.row.account)
      /\ q.row.dir = "transfer" => /\ q.row.dest \in Accounts /\ Live(q.row.dest)
                                   /\ q.row.dest # q.row.account
      /\ q.row.amount \in Nat
  <2>1. q.row.account \in Accounts
    BY <1>2 DEF TypeInv, Books
  <2>2. /\ q.row.dest \in Accounts \union {None} /\ q.row.amount \in Nat
        /\ q.row.dir = "transfer" => q.row.dest # None /\ q.row.dest # q.row.account
    BY <1>1, <1>2 DEF BookInv, LegsMatchDirection, Request, MovementRow
  <2>3. \A a \in Legs(q.row) : Live(a)
    BY <1>2 DEF BookInv, NoDanglingMovement
  <2>4. QED
    BY <2>1, <2>2, <2>3 DEF Legs, None, Accounts
<1>4. u \in Int /\ -u \in Int /\ n \in Int
  BY <1>3, DeltaType
<1>5. undone \in [Accounts -> AccountRow]
  BY <1>1, ReversedType DEF TypeInv
<1>6. \A a \in Accounts :
        /\ undone[a].state = accounts[a].state
        /\ undone[a].balance = accounts[a].balance
                                 + (IF a = q.row.account THEN -u ELSE 0)
  BY <1>1, <1>3, ReversedKeeps, ReversedBalance
<1> HIDE DEF undone
<1>7. both \in [Accounts -> AccountRow]
  BY <1>4, <1>5, CreditType
<1>8. q.row.dir = "transfer" => \A a \in Accounts :
        /\ both[a].state = undone[a].state
        /\ both[a].balance = undone[a].balance + (IF a = q.row.dest THEN n ELSE 0)
  <2> HIDE DEF n, q
  <2> QED  BY <1>3, <1>4, <1>5, <1>6, CreditKeeps, CreditBalance DEF Live
<1>9. \A a \in Accounts : Effect(DeletedMovement, a) = 0
  BY DEF Effect, DeletedMovement, NoMovement
<1>10. \A a \in Accounts : Effect(movements[m], a)
         = (IF a = q.row.account THEN u ELSE 0)
           + (IF q.row.dir = "transfer" /\ a = q.row.dest THEN q.row.amount ELSE 0)
  BY <1>2, <1>3, <1>4 DEF Effect
<1>11. \A a \in Accounts : accounts[a].balance \in Int
  BY DEF TypeInv, TypeOK, AccountRow
<1>12. \A a \in Accounts : table[a].state = accounts[a].state
  BY <1>6, <1>8
<1>13. \A a \in Accounts : table[a].balance = accounts[a].balance
         + (Effect(DeletedMovement, a) - Effect(movements[m], a))
  <2>1. q.row.amount \in Int /\ n = -q.row.amount
    BY <1>3
  <2>2. CASE q.row.dir = "transfer"
    <3>1. table = both
      BY <2>2
    <3> HIDE DEF u, n, both, table, q, m
    <3>2. QED
      BY <1>3, <1>4, <1>6, <1>8, <1>9, <1>10, <1>11, <2>1, <2>2, <3>1
  <2>3. CASE q.row.dir # "transfer"
    <3>1. table = undone
      BY <2>3
    <3> HIDE DEF u, n, both, table, q, m
    <3>2. QED
      BY <1>3, <1>4, <1>6, <1>9, <1>10, <1>11, <2>1, <2>3, <3>1
  <2>4. QED
    BY <2>2, <2>3
<1>14. DeletedMovement \in MovementRow /\ DeletedMovement.state # "live"
  BY RowTypes DEF DeletedMovement, NoMovement
<1>15. table \in [Accounts -> AccountRow]
  BY <1>5, <1>7
<1> HIDE DEF q, m, table
<1>16. QED
  BY <1>1, <1>2, <1>12, <1>13, <1>14, <1>15, PostingKeepsBook

\* An account is removed when no stored movement names it.
LEMMA CloseKeepsBook ==
  ASSUME TypeInv, LockInv, BookInv, NEW r \in Requests, CommitClose(r)
  PROVE  BookInv'
<1> DEFINE a == req[r].acct
<1>1. CASE UNCHANGED Tables
  BY <1>1, TablesKeepBook
<1>2. CASE ~ UNCHANGED Tables
  <2>1. /\ {m \in Movements : References(m, a)} = {}
        /\ accounts' = [accounts EXCEPT ![a] = DeletedAccount]
        /\ UNCHANGED <<movements, adjusted>>
    BY <1>2 DEF CommitClose, Commit
  <2>2. \A b \in Accounts : b # a => accounts'[b] = accounts[b]
    BY <2>1 DEF TypeInv, TypeOK
  <2>3. a \in Accounts => accounts'[a].state = "deleted"
    BY <2>1 DEF TypeInv, TypeOK, DeletedAccount, NoAccountRow
  <2>4. NoDanglingMovement'
    BY <2>1, <2>2 DEF BookInv, NoDanglingMovement, References, Live
  <2>5. UnopenedUntouched' /\ BalanceMatchesLedger'
    BY <2>1, <2>2, <2>3
    DEF BookInv, UnopenedUntouched, BalanceMatchesLedger, Live
  <2>6. LegsMatchDirection'
    BY <2>1 DEF BookInv, LegsMatchDirection
  <2>7. QED
    BY <2>4, <2>5, <2>6 DEF BookInv
<1>3. QED
  BY <1>1, <1>2

\* A new account starts at zero and no stored movement names it.
LEMMA CreateAccountKeepsBook ==
  ASSUME TypeInv, BookInv, NEW a \in Accounts, CreateAccount(a)
  PROVE  BookInv'
<1>1. /\ accounts' = [accounts EXCEPT ![a] = OpenAccount]
      /\ accounts[a].state = "unused" /\ UNCHANGED <<movements, adjusted>>
  BY DEF CreateAccount
<1>2. \A b \in Accounts : b # a => accounts'[b] = accounts[b]
  BY <1>1 DEF TypeInv, TypeOK
<1>3. accounts'[a] = OpenAccount /\ OpenAccount.state = "live" /\ OpenAccount.balance = 0
  BY <1>1 DEF TypeInv, TypeOK, OpenAccount
<1>4. LedgerTotal(movements, a) = 0
  <2> DEFINE f == [m \in Movements |-> Effect(movements[m], a)]
  <2>1. ~ Live(a)
    BY <1>1 DEF Live
  <2>2. \A m \in Movements : movements[m].state = "live" => a \notin Legs(movements[m])
    BY <2>1 DEF BookInv, NoDanglingMovement
  <2>3. \A m \in Movements : Effect(movements[m], a) = 0
    BY <2>2 DEF Effect, Legs, None, Accounts
  <2>4. f \in [Movements -> Int] /\ \A m \in Movements : f[m] = 0
    BY <2>3
  <2> HIDE DEF f
  <2>5. SumTo(f, NMovements) = 0
    BY <2>4, SumToZero, CountsAssumption DEF Movements
  <2>6. QED
    BY <2>5 DEF LedgerTotal, f
<1>5. adjusted[a] = 0
  BY <1>1 DEF BookInv, UnopenedUntouched
<1>6. NoDanglingMovement' /\ LegsMatchDirection' /\ UnopenedUntouched'
  BY <1>1, <1>2, <1>3
  DEF BookInv, NoDanglingMovement, LegsMatchDirection, UnopenedUntouched, Live
<1>7. BalanceMatchesLedger'
  BY <1>1, <1>2, <1>3, <1>4, <1>5 DEF BookInv, BalanceMatchesLedger, Live
<1>8. QED
  BY <1>6, <1>7 DEF BookInv

\* A manual balance is accounted for by the history variable.
LEMMA PatchAccountKeepsBook ==
  ASSUME TypeInv, BookInv, NEW a \in Accounts, PatchAccount(a)
  PROVE  BookInv'
<1>1. PICK b \in ManualBalances \union {accounts[a].balance}, f \in BOOLEAN :
        /\ accounts' = [accounts EXCEPT ![a].balance = b, ![a].archived = f]
        /\ adjusted' = [adjusted EXCEPT ![a] = @ + (b - accounts[a].balance)]
  BY DEF PatchAccount
<1>2. Live(a) /\ UNCHANGED movements
  BY DEF PatchAccount
<1>3. /\ accounts[a].balance \in Int /\ b \in Int /\ adjusted[a] \in Int
      /\ LedgerTotal(movements, a) \in Int
  BY BalancesAssumption, LedgerTotalType DEF TypeInv, TypeOK, AccountRow
<1>4. /\ \A c \in Accounts : accounts'[c].state = accounts[c].state
      /\ \A c \in Accounts : c # a => /\ accounts'[c] = accounts[c]
                                      /\ adjusted'[c] = adjusted[c]
      /\ accounts'[a].balance = b
      /\ adjusted'[a] = adjusted[a] + (b - accounts[a].balance)
  BY <1>1 DEF TypeInv, TypeOK, AccountRow
<1>5. NoDanglingMovement' /\ LegsMatchDirection'
  BY <1>2, <1>4 DEF BookInv, NoDanglingMovement, LegsMatchDirection, Live
<1>6. UnopenedUntouched'
  BY <1>2, <1>4 DEF BookInv, UnopenedUntouched, Live
<1>7. BalanceMatchesLedger'
  <2>1. accounts[a].balance = adjusted[a] + LedgerTotal(movements, a)
    BY <1>2 DEF BookInv, BalanceMatchesLedger
  <2>2. accounts'[a].balance = adjusted'[a] + LedgerTotal(movements, a)
    BY <1>3, <1>4, <2>1
  <2>3. QED
    BY <1>2, <1>4, <2>2 DEF BookInv, BalanceMatchesLedger, Live
<1>8. QED
  BY <1>5, <1>6, <1>7 DEF BookInv

\* The book and the balances are kept by every step of the system.
LEMMA NextKeepsBook ==
  TypeInv /\ LockInv /\ BookInv /\ [Next]_vars => BookInv'
<1> SUFFICES ASSUME TypeInv, LockInv, BookInv, [Next]_vars PROVE BookInv'
  OBVIOUS
<1>1. ASSUME NEW r \in Requests, Start(r) \/ Step(r) \/ Timeout(r)
      PROVE  BookInv'
  <2>1. CASE UNCHANGED Tables
    BY <2>1, TablesKeepBook
  <2>2. CASE \/ CommitCreate(r) \/ CommitTransfer(r) \/ CommitPatch(r)
             \/ CommitDelete(r) \/ CommitClose(r)
    BY <2>2, CommitCreateKeepsBook, CommitTransferKeepsBook, CommitPatchKeepsBook,
       CommitDeleteKeepsBook, CloseKeepsBook
  <2>3. CASE Start(r)
    <3>1. PICK q, refusal : Begin(r, q, refusal)
      BY <2>3, StartBegins DEF Begins
    <3>2. QED
      BY <3>1, TablesKeepBook DEF Begin
  <2>4. CASE Timeout(r)
    BY <2>4, TablesKeepBook DEF Timeout
  <2>5. CASE Step(r) /\ ~ (\/ CommitCreate(r) \/ CommitTransfer(r) \/ CommitPatch(r)
                           \/ CommitDelete(r) \/ CommitClose(r))
    <3>1. UNCHANGED Tables
      BY <2>5 DEF Step, LockAccount, LockMovement, MovedUnderUs, RefreshSnapshot,
         GateCreate, GateTransfer, GatePatch, CountMovements, LockClosing,
         Rollback, Respond, Tables
    <3>2. QED
      BY <3>1, TablesKeepBook
  <2>6. QED
    BY <1>1, <2>2, <2>3, <2>4, <2>5
<1>2. ASSUME NEW a \in Accounts, CreateAccount(a) \/ PatchAccount(a)
      PROVE  BookInv'
  BY <1>2, CreateAccountKeepsBook, PatchAccountKeepsBook
<1>3. CASE UNCHANGED vars
  BY <1>3, TablesKeepBook DEF vars, Tables
<1>4. QED
  BY <1>1, <1>2, <1>3 DEF Next, Drained

\* The initial balances are what the initial book did to them.
LEMMA InitBook == Init => BookInv
<1> SUFFICES ASSUME Init PROVE BookInv
  OBVIOUS
<1>1. /\ movements = Stored /\ \A a \in Accounts : adjusted[a] = 0
      /\ \A a \in Accounts : Live(a) <=> a \in Opened
      /\ \A a \in Opened : accounts[a].balance = LedgerTotal(Stored, a)
  BY OpenedAssumption DEF Init, Live, OpenAccount, NoAccountRow
<1>2. LegsMatchDirection /\ NoDanglingMovement
  BY <1>1, StoredAssumption, OpenedAssumption
  DEF LegsMatchDirection, NoDanglingMovement, Live
<1>3. BalanceMatchesLedger
  <2>1. \A a \in Accounts : LedgerTotal(Stored, a) \in Int
    BY StoredAssumption, LedgerTotalType
  <2>2. QED
    BY <1>1, <2>1 DEF BalanceMatchesLedger, Live
<1>4. UnopenedUntouched
  BY <1>1 DEF UnopenedUntouched
<1>5. QED
  BY <1>2, <1>3, <1>4 DEF BookInv

-----------------------------------------------------------------------------
(* The invariant of the ledger, and what follows from it.                  *)

(* The types, what the locks secure, the book and the balances hold in      *)
(* every state the handlers can reach together.                             *)
THEOREM LedgerCoreHolds == Spec => []LedgerCore
<1> DEFINE I == TypeInv /\ LockInv /\ BookInv
<1>1. Init => I
  BY InitType, InitSecures, InitBook
<1>2. I /\ [Next]_vars => I'
  BY NextType, NextSecures, NextKeepsBook
<1>3. I => LedgerCore
  BY DEF LedgerCore, BookInv
<1> HIDE DEF I
<1>4. QED
  BY <1>1, <1>2, <1>3, PTL DEF Spec

(* The balance of every account is what the user asserted plus what its     *)
(* stored movements did to it, whatever interleaves.                        *)
THEOREM BalancesMatch == Spec => []BalanceMatchesLedger
<1>1. LedgerCore => BalanceMatchesLedger
  BY DEF LedgerCore
<1>2. QED
  BY <1>1, LedgerCoreHolds, PTL

(* No stored movement ever names an account that was deleted.               *)
THEOREM NothingDangles == Spec => []NoDanglingMovement
<1>1. LedgerCore => NoDanglingMovement
  BY DEF LedgerCore
<1>2. QED
  BY <1>1, LedgerCoreHolds, PTL

-----------------------------------------------------------------------------
(* Answers.                                                                *)

\* The pcs of a request whose answer is decided.
AnsweredPcs == {"replying", "aborting"}

\* A step of r that leaves it with a well-answered record.
LEMMA AnswerStep ==
  ASSUME AnswerInv, NEW r \in Requests, NEW p \in Answered,
         req' = [req EXCEPT ![r] = p]
  PROVE  AnswerInv'
BY DEF AnswerInv, Answered

\* A handler that is done answers, unless the timeout already did; "ok" only
\* after a commit.
LEMMA FinishAnswers ==
  ASSUME TypeInv, AnswerInv, NEW r \in Requests, req[r].pc \notin AnsweredPcs,
         NEW pc \in AnsweredPcs, NEW reply \in Replies \ {"none"},
         NEW wrote \in BOOLEAN, wrote <=> reply = "ok", wrote => pc = "replying",
         Finish(r, pc, reply, wrote)
  PROVE  AnswerInv'
<1> DEFINE answer == IF req[r].reply = "none" THEN reply ELSE req[r].reply
           p == [IdleRequest EXCEPT !.pc = pc, !.wrote = wrote, !.reply = answer]
<1>1. req' = [req EXCEPT ![r] = p] /\ req'[r] = p
  BY DEF Finish, TypeInv
<1>2. p \in Request
  <2>1. req' \in [Requests -> Shaped]
    BY FinishType DEF AnsweredPcs, DonePcs
  <2>2. QED
    BY <1>1, <2>1 DEF Shaped
<1>3. req[r].reply \in {"none", "504"}
  BY DEF AnswerInv, Answered, AnsweredPcs
<1>4. p.op = "none" /\ p.pc = pc /\ p.wrote = wrote /\ p.reply = answer
  BY DEF IdleRequest
<1>5. answer \in {reply, "504"} /\ answer # "none"
  BY <1>3
<1> HIDE DEF p, answer
<1>6. p \in Answered
  BY <1>2, <1>4, <1>5 DEF Answered, AnsweredPcs
<1>7. QED
  BY <1>1, <1>6, AnswerStep

\* A request that goes on keeps what it sent and still owes its answer.
LEMMA KeepAnswers ==
  ASSUME AnswerInv, NEW r \in Requests, NEW p \in Request,
         req' = [req EXCEPT ![r] = p],
         NEW q \in Answered, p.op = q.op, p.amt = q.amt, p.reply = q.reply,
         p.wrote = q.wrote, q.pc \notin AnsweredPcs, p.pc \notin AnsweredPcs
  PROVE  AnswerInv'
<1>1. p \in Answered
  BY DEF Answered, AnsweredPcs
<1>2. QED
  BY <1>1, AnswerStep

\* The same for the step of a handler, from what the types say of the result.
LEMMA GoesOnAnswers ==
  ASSUME TypeInv, TypeInv', AnswerInv, NEW r \in Requests, NEW p,
         req' = [req EXCEPT ![r] = p], p.op = req[r].op, p.amt = req[r].amt,
         p.reply = req[r].reply, p.wrote = req[r].wrote,
         req[r].pc \notin AnsweredPcs, p.pc \notin AnsweredPcs
  PROVE  AnswerInv'
<1>1. p \in Request /\ req[r] \in Answered
  BY DEF TypeInv, Shaped, AnswerInv
<1>2. QED
  BY <1>1, KeepAnswers

\* A request that starts owes an answer, or has been refused.
LEMMA StartAnswers ==
  ASSUME TypeInv, AnswerInv, NEW r \in Requests, Start(r)
  PROVE  AnswerInv'
<1>1. PICK q, refusal : Begins(r, q, refusal)
  BY StartBegins
<1>2. CASE refusal # "none"
  BY <1>1, <1>2, FinishAnswers DEF Begins, Begin, AnsweredPcs, Replies
<1>3. CASE refusal = "none"
  <2> DEFINE S == LockSet(q)
             p == [q EXCEPT !.todo = S, !.attempt = 1]
  <2>1. /\ req' = [req EXCEPT ![r] = p] /\ q \in Answered /\ q \in Request
        /\ q.pc \in {"locking", "counting"} /\ S \in SUBSET Accounts
    BY <1>1, <1>3 DEF Begins, Begin, Shaped
  <2> HIDE DEF S
  <2>2. /\ p \in Request /\ p.op = q.op /\ p.amt = q.amt /\ p.reply = q.reply
        /\ p.wrote = q.wrote /\ p.pc = q.pc
    BY <2>1 DEF Request
  <2> HIDE DEF p
  <2>3. QED
    BY <2>1, <2>2, KeepAnswers DEF AnsweredPcs
<1>4. QED
  BY <1>2, <1>3

\* A handler that waits, locks, checks and retries has answered nothing: only
\* where it returns does it answer, and never with a success it did not commit.
LEMMA StepAnswers ==
  ASSUME TypeInv, AnswerInv, NEW r \in Requests,
         \/ LockAccount(r) \/ LockMovement(r) \/ MovedUnderUs(r) \/ RefreshSnapshot(r)
         \/ GateCreate(r) \/ GateTransfer(r) \/ GatePatch(r)
         \/ CountMovements(r) \/ LockClosing(r)
  PROVE  AnswerInv'
<1> DEFINE q == req[r]
<1>1. q \in Answered /\ q \in Request /\ TypeInv'
  <2>1. TypeInv'
    BY LockStepType, GateType, CloseType
  <2>2. QED
    BY <2>1 DEF AnswerInv, TypeInv, Shaped
<1>2. q.pc \notin AnsweredPcs
  BY DEF LockAccount, LockMovement, MovedUnderUs, RefreshSnapshot, GateCreate,
         GateTransfer, GatePatch, CountMovements, LockClosing, AnsweredPcs
<1>3. CASE \E pc \in AnsweredPcs, reply \in {"404", "409", "422", "500"} :
             Finish(r, pc, reply, FALSE)
  <2>1. \A reply \in {"404", "409", "422", "500"} :
          reply \in Replies \ {"none"} /\ (FALSE <=> reply = "ok")
    BY DEF Replies
  <2>2. QED
    BY <1>2, <1>3, <2>1, FinishAnswers
<1>4. CASE ~ \E pc \in AnsweredPcs, reply \in {"404", "409", "422", "500"} :
               Finish(r, pc, reply, FALSE)
  <2>1. ~ Finish(r, "aborting", "422", FALSE) /\ ~ Finish(r, "aborting", "404", FALSE)
        /\ ~ Finish(r, "replying", "404", FALSE) /\ ~ Finish(r, "replying", "500", FALSE)
        /\ ~ Finish(r, "replying", "409", FALSE)
    BY <1>4 DEF AnsweredPcs
  <2>2. CASE \E pc \in {"gated", "closing", "closingLocked"} : Goto(r, pc)
    <3>1. PICK pc \in {"gated", "closing", "closingLocked"} : Goto(r, pc)
      BY <2>2
    <3> DEFINE p == [q EXCEPT !.pc = pc]
    <3>2. req' = [req EXCEPT ![r] = p] /\ p.pc = pc /\ p.op = q.op
          /\ p.amt = q.amt /\ p.reply = q.reply /\ p.wrote = q.wrote
      BY <1>1, <3>1 DEF Goto, TypeInv, Request
    <3> HIDE DEF p
    <3>3. QED
      BY <1>1, <1>2, <3>2, GoesOnAnswers DEF AnsweredPcs
  <2>3. CASE LockAccount(r)
    <3> DEFINE todo == q.todo \ {NextToLock(q)}
               pc == IF q.todo = {NextToLock(q)} THEN "locked" ELSE "locking"
               p == [q EXCEPT !.todo = todo, !.pc = pc]
    <3>1. req' = [req EXCEPT ![r].todo = todo, ![r].pc = pc]
      BY <2>1, <2>3 DEF LockAccount, Abort, TypeInv
    <3>2. pc \notin AnsweredPcs
      BY DEF AnsweredPcs
    <3> HIDE DEF todo, pc
    <3>3. req' = [req EXCEPT ![r] = p] /\ p.pc = pc /\ p.op = q.op
          /\ p.amt = q.amt /\ p.reply = q.reply /\ p.wrote = q.wrote
      BY <1>1, <3>1 DEF TypeInv, Request
    <3> HIDE DEF p
    <3>4. QED
      BY <1>1, <1>2, <3>2, <3>3, GoesOnAnswers
  <2>4. CASE LockMovement(r)
    <3> DEFINE p == [q EXCEPT !.pc = "rowLocked", !.row = movements[q.mov]]
    <3>1. req' = [req EXCEPT ![r] = p] /\ p.pc = "rowLocked" /\ p.op = q.op
          /\ p.amt = q.amt /\ p.reply = q.reply /\ p.wrote = q.wrote
      BY <1>1, <2>1, <2>4 DEF LockMovement, Abort, TypeInv, Request
    <3> HIDE DEF p
    <3>2. QED
      BY <1>1, <1>2, <3>1, GoesOnAnswers DEF AnsweredPcs
  <2>5. CASE MovedUnderUs(r)
    <3> DEFINE p == [q EXCEPT !.pc = "refreshing", !.row = NoMovement]
    <3>1. req' = [req EXCEPT ![r] = p] /\ p.pc = "refreshing" /\ p.op = q.op
          /\ p.amt = q.amt /\ p.reply = q.reply /\ p.wrote = q.wrote
      BY <1>1, <2>5 DEF MovedUnderUs, TypeInv, Request
    <3> HIDE DEF p
    <3>2. QED
      BY <1>1, <1>2, <3>1, GoesOnAnswers DEF AnsweredPcs
  <2>6. CASE RefreshSnapshot(r)
    <3> DEFINE next == [q EXCEPT !.snap = movements[q.mov]]
               S == LockSet(next)
               p == [next EXCEPT !.pc = "locking", !.todo = S, !.attempt = @ + 1]
    <3>1. req' = [req EXCEPT ![r] = p]
      BY <2>1, <2>6 DEF RefreshSnapshot, GiveUp
    <3> HIDE DEF S
    <3>2. p.pc = "locking" /\ p.op = q.op /\ p.amt = q.amt /\ p.reply = q.reply
          /\ p.wrote = q.wrote
      BY <1>1 DEF Request
    <3> HIDE DEF p
    <3>3. QED
      BY <1>1, <1>2, <3>1, <3>2, GoesOnAnswers DEF AnsweredPcs
  <2>7. QED
    BY <2>1, <2>2, <2>3, <2>4, <2>5, <2>6
    DEF GateCreate, GateTransfer, GatePatch, CountMovements, LockClosing, Abort
<1>5. QED
  BY <1>3, <1>4

\* A commit answers "ok", a refused one 4xx or 500.
LEMMA CommitAnswers ==
  ASSUME TypeInv, AnswerInv, NEW r \in Requests,
         \/ CommitCreate(r) \/ CommitTransfer(r) \/ CommitPatch(r)
         \/ CommitDelete(r) \/ CommitClose(r)
  PROVE  AnswerInv'
<1>1. req[r].pc \notin AnsweredPcs
  BY DEF CommitCreate, CommitTransfer, CommitPatch, CommitDelete, CommitClose,
         AnsweredPcs
<1>2. \/ Finish(r, "replying", "ok", TRUE) \/ Finish(r, "replying", "409", FALSE)
      \/ Finish(r, "aborting", "422", FALSE) \/ Finish(r, "aborting", "500", FALSE)
  BY DEF CommitCreate, CommitTransfer, CommitPatch, CommitDelete, CommitClose,
         Commit, Refused, Abort
<1>3. {"ok", "409", "422", "500"} \subseteq Replies \ {"none"}
      /\ {"replying", "aborting"} \subseteq AnsweredPcs
  BY DEF Replies, AnsweredPcs
<1>4. QED
  BY <1>1, <1>2, <1>3, FinishAnswers

\* The end of a request forgets its answer; the timeout answers 504 whatever
\* the transaction does after it.
LEMMA EndAnswers ==
  ASSUME TypeInv, AnswerInv, NEW r \in Requests, Rollback(r) \/ Respond(r) \/ Timeout(r)
  PROVE  AnswerInv'
<1> DEFINE q == req[r]
<1>1. q \in Answered /\ q \in Request
  BY DEF AnswerInv, TypeInv, Shaped
<1>2. CASE Rollback(r) \/ Respond(r)
  <2>1. req' = [req EXCEPT ![r] = IdleRequest]
    BY <1>2 DEF Rollback, Respond
  <2>2. IdleRequest \in Answered
    <3>1. /\ IdleRequest.op = "none" /\ IdleRequest.reply = "none"
          /\ IdleRequest.wrote = FALSE /\ IdleRequest.pc = "idle"
      BY DEF IdleRequest
    <3>2. QED
      BY <3>1, RowTypes DEF Answered
  <2>3. QED
    BY <2>1, <2>2, AnswerStep
<1>3. CASE Timeout(r)
  <2>1. CASE Finish(r, "aborting", "504", FALSE) \/ Finish(r, "replying", "504", FALSE)
    <3>1. q.pc = "aborting" \/ q.pc = "replying" =>
            req' = [req EXCEPT ![r].reply = "504"]
      BY <1>3 DEF Timeout
    <3>2. CASE q.pc \notin AnsweredPcs
      BY <2>1, <3>2, FinishAnswers DEF AnsweredPcs, Replies
    <3>3. CASE q.pc = "replying" /\ req' = [req EXCEPT ![r].reply = "504"]
      <4> DEFINE p == [q EXCEPT !.reply = "504"]
      <4>1. req' = [req EXCEPT ![r] = p]
        BY <3>3 DEF TypeInv
      <4>2. /\ p \in Request /\ p.pc = q.pc /\ p.op = q.op /\ p.amt = q.amt
            /\ p.wrote = q.wrote /\ p.reply = "504"
        BY <1>1 DEF Request, Replies
      <4> HIDE DEF p
      <4>3. p \in Answered
        BY <1>1, <3>3, <4>2 DEF Answered
      <4>4. QED
        BY <4>1, <4>3, AnswerStep
    <3>4. q.pc # "aborting"
      BY <1>3 DEF Timeout
    <3>5. QED
      BY <3>1, <3>2, <3>3, <3>4 DEF AnsweredPcs
  <2>2. CASE ~ Finish(r, "aborting", "504", FALSE) /\ ~ Finish(r, "replying", "504", FALSE)
    <3> DEFINE p == [q EXCEPT !.reply = "504"]
    <3>1. req' = [req EXCEPT ![r] = p] /\ q.pc # "aborting"
      BY <1>3, <2>2 DEF Timeout, TypeInv
    <3>2. /\ p \in Request /\ p.pc = q.pc /\ p.op = q.op /\ p.amt = q.amt
          /\ p.wrote = q.wrote /\ p.reply = "504"
      BY <1>1 DEF Request, Replies
    <3> HIDE DEF p
    <3>3. p \in Answered
      BY <1>1, <3>1, <3>2 DEF Answered
    <3>4. QED
      BY <3>1, <3>3, AnswerStep
  <2>3. QED
    BY <2>1, <2>2
<1>4. QED
  BY <1>2, <1>3

\* Every step keeps the answers truthful.
LEMMA NextAnswers == TypeInv /\ AnswerInv /\ [Next]_vars => AnswerInv'
<1> SUFFICES ASSUME TypeInv, AnswerInv, [Next]_vars PROVE AnswerInv'
  OBVIOUS
<1>1. ASSUME NEW r \in Requests, Start(r) \/ Step(r) \/ Timeout(r)
      PROVE  AnswerInv'
  BY <1>1, StartAnswers, StepAnswers, CommitAnswers, EndAnswers DEF Step
<1>2. ASSUME NEW a \in Accounts, CreateAccount(a) \/ PatchAccount(a)
      PROVE  AnswerInv'
  BY <1>2 DEF CreateAccount, PatchAccount, AnswerInv, Answered
<1>3. CASE UNCHANGED vars
  BY <1>3 DEF vars, AnswerInv, Answered
<1>4. QED
  BY <1>1, <1>2, <1>3 DEF Next, Drained

\* At the start nobody has asked anything.
LEMMA InitAnswers == Init => AnswerInv
<1>1. /\ IdleRequest.op = "none" /\ IdleRequest.reply = "none"
      /\ IdleRequest.wrote = FALSE /\ IdleRequest.pc = "idle"
  BY DEF IdleRequest
<1>2. IdleRequest \in Answered
  BY <1>1, RowTypes DEF Answered
<1>3. QED
  BY <1>2 DEF Init, AnswerInv

(* An answer tells the truth: 4xx and 500 wrote nothing, 2xx wrote.         *)
THEOREM AnswersAreTrue == Spec => []AnswerTellsOutcome
<1>1. AnswerInv => AnswerTellsOutcome
  BY DEF AnswerInv, Answered, AnswerTellsOutcome
<1>2. QED
  BY <1>1, InitAnswers, InitType, NextAnswers, NextType, PTL DEF Spec

-----------------------------------------------------------------------------
(* Who owns which locks, and in which order they are taken.                *)

\* Where a request may own a movement row.
RowPcs == {"rowLocked", "gated", "aborting"}

OwnsNoAccount(r) == \A a \in Accounts : accLock[a] # r
OwnsNoRow(r)     == \A m \in Movements : movLock[m] # r

\* A request with no transaction open owns nothing; one that has not read a
\* movement row yet owns no row.
LEMMA OutsideOwnsNothing ==
  ASSUME TypeInv, OwnerInv, NEW r \in Requests
  PROVE  /\ req[r].pc \notin InTransaction => OwnsNoAccount(r)
         /\ req[r].pc \notin RowPcs => OwnsNoRow(r)
BY FreeAssumption DEF OwnerInv, OwnsNoAccount, OwnsNoRow, RowPcs

\* A step of r that takes locks for itself or gives them back, and ends where it
\* may own what it holds, in ascending order.
LEMMA OrderStep ==
  ASSUME TypeInv, OrderInv, NEW r \in Requests, NEW p, req' = [req EXCEPT ![r] = p],
         \A a \in Accounts : accLock'[a] \in {accLock[a], Free, r},
         \A m \in Movements : movLock'[m] \in {movLock[m], Free, r},
         p.pc \in InTransaction \/ OwnsNoAccount(r)',
         p.pc \in RowPcs \/ OwnsNoRow(r)',
         Ascending(r)'
  PROVE  OrderInv'
<1>1. req'[r] = p /\ \A s \in Requests \ {r} : req'[s] = req[s]
  BY DEF TypeInv
<1>2. OwnerInv'
  <2>1. ASSUME NEW a \in Accounts, accLock'[a] # Free
        PROVE  req'[accLock'[a]].pc \in InTransaction
    <3>1. CASE accLock'[a] = r
      BY <1>1, <3>1 DEF OwnsNoAccount
    <3>2. CASE accLock'[a] # r
      <4>1. accLock[a] = accLock'[a] /\ accLock[a] \in Requests \ {r}
        BY <2>1, <3>2 DEF TypeInv, TypeOK
      <4>2. QED
        BY <1>1, <2>1, <4>1 DEF OrderInv, OwnerInv
    <3>3. QED
      BY <3>1, <3>2
  <2>2. ASSUME NEW m \in Movements, movLock'[m] # Free
        PROVE  req'[movLock'[m]].pc \in RowPcs
    <3>1. CASE movLock'[m] = r
      BY <1>1, <3>1 DEF OwnsNoRow
    <3>2. CASE movLock'[m] # r
      <4>1. movLock[m] = movLock'[m] /\ movLock[m] \in Requests \ {r}
        BY <2>2, <3>2 DEF TypeInv, TypeOK
      <4>2. QED
        BY <1>1, <2>2, <4>1 DEF OrderInv, OwnerInv, RowPcs
    <3>3. QED
      BY <3>1, <3>2
  <2>3. QED
    BY <2>1, <2>2 DEF OwnerInv, RowPcs
<1>3. ASSUME NEW s \in Requests \ {r} PROVE Ascending(s)'
  <2>1. Ascending(s) /\ req'[s] = req[s] /\ s # Free /\ s # r
    BY <1>1, FreeAssumption DEF OrderInv
  <2>2. \A a \in Accounts : accLock'[a] = s => accLock[a] = s
    BY <2>1
  <2>3. QED
    BY <2>1, <2>2 DEF Ascending
<1>4. QED
  BY <1>2, <1>3 DEF OrderInv

\* A step that leaves the locks as they are, and loses sight of none.
LEMMA KeepsOrder ==
  ASSUME TypeInv, OrderInv, NEW r \in Requests, NEW p, req' = [req EXCEPT ![r] = p],
         UNCHANGED Locks,
         req[r].pc \in InTransaction => p.pc \in InTransaction,
         req[r].pc \in RowPcs => p.pc \in RowPcs,
         p.pc = "locking" => p.todo # {} /\ (\/ req[r].pc \notin InTransaction
                                             \/ req[r].pc = "locking" /\ p.todo = req[r].todo)
  PROVE  OrderInv'
<1>1. accLock' = accLock /\ movLock' = movLock /\ req'[r] = p
  BY DEF Locks, TypeInv
<1>2. /\ req[r].pc \notin InTransaction => OwnsNoAccount(r)
      /\ req[r].pc \notin RowPcs => OwnsNoRow(r)
  BY OutsideOwnsNothing DEF OrderInv
<1>3. Ascending(r)'
  BY <1>1, <1>2 DEF OrderInv, Ascending, OwnsNoAccount
<1>4. OwnsNoAccount(r)' <=> OwnsNoAccount(r)
  BY <1>1 DEF OwnsNoAccount
<1>5. OwnsNoRow(r)' <=> OwnsNoRow(r)
  BY <1>1 DEF OwnsNoRow
<1>6. QED
  BY <1>1, <1>2, <1>3, <1>4, <1>5, OrderStep

\* A step that gives everything back.
LEMMA ReleaseKeepsOrder ==
  ASSUME TypeInv, OrderInv, NEW r \in Requests, NEW p, req' = [req EXCEPT ![r] = p],
         Release(r), p.pc # "locking"
  PROVE  OrderInv'
<1>1. /\ \A a \in Accounts : accLock'[a] \in {accLock[a], Free, r}
      /\ \A m \in Movements : movLock'[m] \in {movLock[m], Free, r}
      /\ OwnsNoAccount(r)' /\ OwnsNoRow(r)'
  BY FreeAssumption DEF Release, OwnsNoAccount, OwnsNoRow
<1>2. Ascending(r)'
  BY DEF Ascending, TypeInv
<1>3. QED
  BY <1>1, <1>2, OrderStep

\* A handler that is done keeps its locks for the rollback, or owns none.
LEMMA FinishKeepsOrder ==
  ASSUME TypeInv, OrderInv, NEW r \in Requests, NEW pc, NEW reply, NEW wrote,
         Finish(r, pc, reply, wrote),
         \/ pc = "aborting" /\ UNCHANGED Locks
         \/ pc = "replying" /\ UNCHANGED Locks /\ req[r].pc \notin InTransaction
         \/ pc = "replying" /\ Release(r)
  PROVE  OrderInv'
<1> DEFINE answer == IF req[r].reply = "none" THEN reply ELSE req[r].reply
           p == [IdleRequest EXCEPT !.pc = pc, !.wrote = wrote, !.reply = answer]
<1>1. req' = [req EXCEPT ![r] = p]
  BY DEF Finish
<1>2. p.pc = pc
  BY DEF IdleRequest
<1>3. RowPcs \subseteq InTransaction
  BY DEF RowPcs, InTransaction
<1> HIDE DEF p
<1>4. CASE UNCHANGED Locks /\ ~ (pc = "replying" /\ Release(r))
  <2>1. /\ req[r].pc \in InTransaction => p.pc \in InTransaction
        /\ req[r].pc \in RowPcs => p.pc \in RowPcs
        /\ p.pc # "locking"
    BY <1>2, <1>3, <1>4 DEF RowPcs, InTransaction
  <2>2. QED
    BY <1>1, <1>4, <2>1, KeepsOrder
<1>5. CASE Release(r) /\ pc = "replying"
  BY <1>1, <1>2, <1>5, ReleaseKeepsOrder
<1>6. QED
  BY <1>4, <1>5

\* A request starts with every lock still to take, and owns none.
LEMMA StartKeepsOrder ==
  ASSUME TypeInv, OrderInv, NEW r \in Requests, Start(r)
  PROVE  OrderInv'
<1>1. PICK q, refusal : Begins(r, q, refusal)
  BY StartBegins
<1>2. req[r].pc = "idle" /\ UNCHANGED Locks
  BY <1>1 DEF Begins, Begin
<1>3. CASE refusal # "none"
  BY <1>1, <1>2, <1>3, FinishKeepsOrder DEF Begins, Begin, InTransaction
<1>4. CASE refusal = "none"
  <2> DEFINE S == LockSet(q)
             p == [q EXCEPT !.todo = S, !.attempt = 1]
  <2>1. /\ req' = [req EXCEPT ![r] = p] /\ q \in Request /\ S # {}
        /\ q.pc \in {"locking", "counting"}
    BY <1>1, <1>4 DEF Begins, Begin, Shaped
  <2> HIDE DEF S
  <2>2. p.pc = q.pc /\ p.todo = S
    BY <2>1 DEF Request
  <2> HIDE DEF p
  <2>3. QED
    BY <1>2, <2>1, <2>2, KeepsOrder DEF InTransaction, RowPcs
<1>5. QED
  BY <1>3, <1>4

\* The account a request locks next is the least it has still to lock.
LEMMA NextIsLeast ==
  ASSUME NEW q, q.todo \in SUBSET Accounts, q.todo # {}
  PROVE  NextToLock(q) \in q.todo /\ \A b \in q.todo : NextToLock(q) <= b
<1> DEFINE S == q.todo
<1>1. S \in SUBSET Nat
  BY CountsAssumption DEF Accounts
<1> HIDE DEF S
<1>2. \E n \in S : \A k \in S : n <= k
  BY <1>1, LeastNatural DEF S
<1>3. Least(S) \in S /\ \A b \in S : Least(S) <= b
  BY <1>2 DEF Least
<1>4. QED
  BY <1>3 DEF S, NextToLock

\* So it stays below the ones that remain, and above the ones it owns.
LEMMA LockAccountKeepsOrder ==
  ASSUME TypeInv, OrderInv, NEW r \in Requests, LockAccount(r)
  PROVE  OrderInv'
<1> DEFINE q == req[r]
           a == NextToLock(q)
           todo == q.todo \ {a}
           pc == IF q.todo = {a} THEN "locked" ELSE "locking"
           p == [q EXCEPT !.todo = todo, !.pc = pc]
<1>1. q.pc = "locking" /\ q \in Request /\ q.todo \in SUBSET Accounts /\ q.todo # {}
  BY DEF LockAccount, TypeInv, Shaped, Request, OrderInv, Ascending
<1>2. a \in q.todo /\ a \in Accounts /\ \A b \in q.todo : a <= b
  BY <1>1, NextIsLeast
<1>3. CASE Abort(r, "422")
  BY <1>3, FinishKeepsOrder DEF Abort
<1>4. CASE ~ Abort(r, "422")
  <2>1. /\ TakeAccount(r, a) /\ UNCHANGED movLock
        /\ \/ Finish(r, "aborting", "422", FALSE)
           \/ req' = [req EXCEPT ![r].todo = todo, ![r].pc = pc]
    BY <1>4 DEF LockAccount, TypeInv
  <2>2. /\ \A b \in Accounts : accLock'[b] = IF b = a THEN r ELSE accLock[b]
        /\ movLock' = movLock
    BY <1>2, <2>1 DEF TakeAccount, TypeInv, TypeOK
  <2>3. OwnsNoRow(r)'
    <3>1. OwnsNoRow(r)
      BY <1>1, OutsideOwnsNothing DEF OrderInv, RowPcs
    <3>2. QED
      BY <2>2, <3>1 DEF OwnsNoRow
  <2>4. CASE Finish(r, "aborting", "422", FALSE)
    <3>1. PICK x : req' = [req EXCEPT ![r] = x] /\ x.pc = "aborting"
      <4>1. req'[r].pc = "aborting" /\ \E x : req' = [req EXCEPT ![r] = x]
        BY <2>4, FinishIsDone DEF DonePcs
      <4>2. QED
        BY <4>1 DEF TypeInv
    <3>2. Ascending(r)'
      BY <3>1 DEF Ascending, TypeInv
    <3> HIDE DEF a
    <3>3. QED
      BY <2>2, <3>1, <3>2, OrderStep DEF InTransaction, RowPcs
  <2>5. CASE req' = [req EXCEPT ![r].todo = todo, ![r].pc = pc]
    <3>1. pc \in {"locked", "locking"} /\ (pc = "locking" => todo # {})
      BY <1>2
    <3>2. todo \in SUBSET Accounts /\ \A b \in todo : a < b
      BY <1>1, <1>2, CountsAssumption DEF Accounts
    <3> HIDE DEF todo, pc
    <3>3. req' = [req EXCEPT ![r] = p] /\ p.pc = pc /\ p.todo = todo
      BY <1>1, <2>5 DEF TypeInv, Request
    <3> HIDE DEF p
    <3>4. req'[r] = p
      BY <3>3 DEF TypeInv
    <3>5. \A b \in todo : b \in q.todo
      BY DEF todo
    <3>6. \A c \in Accounts, b \in q.todo : accLock[c] = r => c < b
      BY <1>1 DEF OrderInv, Ascending
    <3>7. Ascending(r)'
      <4> HIDE DEF a, q
      <4> QED  BY <2>2, <3>1, <3>2, <3>3, <3>4, <3>5, <3>6 DEF Ascending
    <3> HIDE DEF a
    <3>8. QED
      BY <2>2, <2>3, <3>1, <3>3, <3>7, OrderStep DEF InTransaction
  <2>6. QED
    BY <2>1, <2>4, <2>5
<1>5. QED
  BY <1>3, <1>4

\* The movement row is taken when no account is left to lock.
LEMMA LockMovementKeepsOrder ==
  ASSUME TypeInv, OrderInv, NEW r \in Requests, LockMovement(r)
  PROVE  OrderInv'
<1> DEFINE q == req[r]
           p == [q EXCEPT !.pc = "rowLocked", !.row = movements[q.mov]]
<1>1. CASE Abort(r, "404")
  BY <1>1, FinishKeepsOrder DEF Abort
<1>2. CASE ~ Abort(r, "404")
  <2>1. /\ req' = [req EXCEPT ![r] = p] /\ p.pc = "rowLocked"
        /\ movLock' = [movLock EXCEPT ![q.mov] = r] /\ accLock' = accLock
    BY <1>2 DEF LockMovement, TypeInv, Shaped, Request
  <2> HIDE DEF p
  <2>2. \A m \in Movements : movLock'[m] \in {movLock[m], Free, r}
    BY <2>1 DEF TypeInv, TypeOK
  <2>3. Ascending(r)'
    BY <2>1 DEF Ascending, TypeInv
  <2>4. QED
    BY <2>1, <2>2, <2>3, OrderStep DEF InTransaction, RowPcs
<1>3. QED
  BY <1>1, <1>2

\* A retry starts again without a lock, on at least one account.
LEMMA RetryKeepsOrder ==
  ASSUME TypeInv, OrderInv, NEW r \in Requests, MovedUnderUs(r) \/ RefreshSnapshot(r)
  PROVE  OrderInv'
<1> DEFINE q == req[r]
<1>0. q \in Request /\ q \in Shaped
  BY DEF TypeInv, Shaped
<1>1. CASE MovedUnderUs(r)
  <2> DEFINE p == [q EXCEPT !.pc = "refreshing", !.row = NoMovement]
  <2>1. req' = [req EXCEPT ![r] = p] /\ p.pc = "refreshing" /\ Release(r)
    BY <1>0, <1>1 DEF MovedUnderUs, TypeInv, Request
  <2> HIDE DEF p
  <2>2. QED
    BY <2>1, ReleaseKeepsOrder
<1>2. CASE RefreshSnapshot(r)
  <2> DEFINE row  == movements[q.mov]
             next == [q EXCEPT !.snap = row]
             S == LockSet(next)
             p == [next EXCEPT !.pc = "locking", !.todo = S, !.attempt = @ + 1]
  <2>1. UNCHANGED Locks /\ q.pc = "refreshing" /\ q.op \in {"patch", "delete"}
        /\ q.mov \in Movements
    BY <1>0, <1>2 DEF RefreshSnapshot, Shaped
  <2>2. CASE Finish(r, "replying", "404", FALSE) \/ GiveUp(r)
    BY <2>1, <2>2, FinishKeepsOrder DEF GiveUp, InTransaction
  <2>3. CASE ~ Finish(r, "replying", "404", FALSE) /\ ~ GiveUp(r)
    <3>1. req' = [req EXCEPT ![r] = p] /\ row.state = "live"
      BY <1>2, <2>3 DEF RefreshSnapshot
    <3>2. next.snap = row /\ next.op = q.op
      BY <1>0 DEF Request
    <3>3. row.account \in Accounts
      BY <2>1, <3>1 DEF TypeInv, Books
    <3>4. S # {}
      <4> HIDE DEF next, row
      <4> QED  BY <2>1, <3>2, <3>3 DEF LockSet, Legs, Accounts, None
    <3> HIDE DEF S
    <3>5. p.pc = "locking" /\ p.todo = S
      BY <1>0 DEF Request
    <3> HIDE DEF p
    <3>6. QED
      BY <2>1, <3>1, <3>4, <3>5, KeepsOrder DEF InTransaction, RowPcs
  <2>4. QED
    BY <2>2, <2>3
<1>3. QED
  BY <1>1, <1>2

\* The checks on the locked rows keep the locks.
LEMMA GateKeepsOrder ==
  ASSUME TypeInv, OrderInv, NEW r \in Requests,
         GateCreate(r) \/ GateTransfer(r) \/ GatePatch(r)
  PROVE  OrderInv'
<1> DEFINE q == req[r]
           p == [q EXCEPT !.pc = "gated"]
<1>1. CASE Abort(r, "422")
  BY <1>1, FinishKeepsOrder DEF Abort
<1>2. CASE ~ Abort(r, "422")
  <2>1. Goto(r, "gated") /\ UNCHANGED Locks
    BY <1>2 DEF GateCreate, GateTransfer, GatePatch
  <2>2. req' = [req EXCEPT ![r] = p] /\ p.pc = "gated"
    BY <2>1 DEF Goto, TypeInv, Shaped, Request
  <2> HIDE DEF p
  <2>3. QED
    BY <2>1, <2>2, KeepsOrder DEF InTransaction, RowPcs
<1>3. QED
  BY <1>1, <1>2

\* A commit gives everything back, a refused one leaves it to the rollback.
LEMMA CommitKeepsOrder ==
  ASSUME TypeInv, OrderInv, NEW r \in Requests,
         \/ CommitCreate(r) \/ CommitTransfer(r) \/ CommitPatch(r)
         \/ CommitDelete(r) \/ CommitClose(r)
  PROVE  OrderInv'
<1>1. \/ Finish(r, "replying", "ok", TRUE) /\ Release(r)
      \/ Finish(r, "replying", "409", FALSE) /\ Release(r)
      \/ Finish(r, "aborting", "422", FALSE) /\ UNCHANGED Locks
      \/ Finish(r, "aborting", "500", FALSE) /\ UNCHANGED Locks
  BY DEF CommitCreate, CommitTransfer, CommitPatch, CommitDelete, CommitClose,
         Commit, Refused, Abort
<1>2. QED
  BY <1>1, FinishKeepsOrder

\* DELETE /accounts owns nothing while it counts, and then the one account.
LEMMA CloseKeepsOrder ==
  ASSUME TypeInv, OrderInv, NEW r \in Requests, CountMovements(r) \/ LockClosing(r)
  PROVE  OrderInv'
<1> DEFINE q == req[r]
<1>0. q \in Request /\ q.pc \notin InTransaction /\ q.pc \notin RowPcs
  BY DEF CountMovements, LockClosing, InTransaction, RowPcs, TypeInv, Shaped
<1>1. CASE Finish(r, "replying", "409", FALSE) \/ Finish(r, "replying", "404", FALSE)
  <2>1. CASE UNCHANGED Locks
    BY <1>0, <1>1, <2>1, FinishKeepsOrder
  <2>2. CASE ~ UNCHANGED Locks
    <3>1. LockClosing(r) /\ Live(q.acct) /\ Goto(r, "closingLocked")
      BY <2>2 DEF CountMovements, LockClosing, Locks
    <3>2. req'[r].pc = "closingLocked"
      BY <1>0, <3>1 DEF Goto, TypeInv, Request
    <3>3. req'[r].pc = "replying"
      BY <1>1, FinishIsDone DEF DonePcs
    <3>4. QED
      BY <3>2, <3>3
  <2>3. QED
    BY <2>1, <2>2
<1>2. CASE ~ Finish(r, "replying", "409", FALSE) /\ ~ Finish(r, "replying", "404", FALSE)
  <2>1. CASE CountMovements(r)
    <3> DEFINE p == [q EXCEPT !.pc = "closing"]
    <3>1. req' = [req EXCEPT ![r] = p] /\ p.pc = "closing" /\ UNCHANGED Locks
      BY <1>0, <1>2, <2>1 DEF CountMovements, Goto, TypeInv, Request
    <3> HIDE DEF p
    <3>2. QED
      BY <1>0, <3>1, KeepsOrder
  <2>2. CASE LockClosing(r)
    <3> DEFINE p == [q EXCEPT !.pc = "closingLocked"]
    <3>1. /\ req' = [req EXCEPT ![r] = p] /\ p.pc = "closingLocked"
          /\ accLock' = [accLock EXCEPT ![q.acct] = r] /\ movLock' = movLock
      BY <1>0, <1>2, <2>2 DEF LockClosing, Goto, TypeInv, Request
    <3> HIDE DEF p
    <3>2. \A a \in Accounts : accLock'[a] \in {accLock[a], Free, r}
      BY <3>1 DEF TypeInv, TypeOK
    <3>3. OwnsNoRow(r)'
      <4>1. OwnsNoRow(r)
        BY <1>0, OutsideOwnsNothing DEF OrderInv
      <4>2. QED
        BY <3>1, <4>1 DEF OwnsNoRow
    <3>4. Ascending(r)'
      BY <3>1 DEF Ascending, TypeInv
    <3>5. QED
      BY <3>1, <3>2, <3>3, <3>4, OrderStep DEF InTransaction
  <2>3. QED
    BY <2>1, <2>2
<1>3. QED
  BY <1>1, <1>2

\* A request that ends owns nothing; one that times out keeps what it owns.
LEMMA EndKeepsOrder ==
  ASSUME TypeInv, OrderInv, NEW r \in Requests, Rollback(r) \/ Respond(r) \/ Timeout(r)
  PROVE  OrderInv'
<1> DEFINE q == req[r]
<1>0. q \in Request
  BY DEF TypeInv, Shaped
<1>1. CASE Rollback(r) \/ Respond(r)
  <2>1. req' = [req EXCEPT ![r] = IdleRequest] /\ IdleRequest.pc = "idle"
    BY <1>1 DEF Rollback, Respond, IdleRequest
  <2>2. CASE Rollback(r)
    BY <2>1, <2>2, ReleaseKeepsOrder DEF Rollback
  <2>3. CASE Respond(r)
    BY <2>1, <2>3, KeepsOrder DEF Respond, InTransaction, RowPcs
  <2>4. QED
    BY <1>1, <2>2, <2>3
<1>2. CASE Timeout(r)
  <2>1. UNCHANGED Locks
    BY <1>2 DEF Timeout
  <2>2. CASE Finish(r, "aborting", "504", FALSE)
    BY <2>1, <2>2, FinishKeepsOrder
  <2>3. CASE q.pc \in {"refreshing", "counting"} /\ Finish(r, "replying", "504", FALSE)
    BY <2>1, <2>3, FinishKeepsOrder DEF InTransaction
  <2>4. CASE req' = [req EXCEPT ![r].reply = "504"]
    <3> DEFINE p == [q EXCEPT !.reply = "504"]
    <3>1. req' = [req EXCEPT ![r] = p] /\ p.pc = q.pc /\ p.todo = q.todo
      BY <1>0, <2>4 DEF TypeInv, Request
    <3>2. q.pc = "locking" => q.todo # {}
      BY DEF OrderInv, Ascending
    <3> HIDE DEF p
    <3>3. QED
      BY <2>1, <3>1, <3>2, KeepsOrder
  <2>5. QED
    BY <1>2, <2>2, <2>3, <2>4 DEF Timeout
<1>3. QED
  BY <1>1, <1>2

\* Every step keeps the lock order.
LEMMA NextKeepsOrder == TypeInv /\ OrderInv /\ [Next]_vars => OrderInv'
<1> SUFFICES ASSUME TypeInv, OrderInv, [Next]_vars PROVE OrderInv'
  OBVIOUS
<1>1. ASSUME NEW r \in Requests, Start(r) \/ Step(r) \/ Timeout(r)
      PROVE  OrderInv'
  BY <1>1, StartKeepsOrder, LockAccountKeepsOrder, LockMovementKeepsOrder,
     RetryKeepsOrder, GateKeepsOrder, CommitKeepsOrder, CloseKeepsOrder,
     EndKeepsOrder DEF Step
<1>2. ASSUME NEW a \in Accounts, CreateAccount(a) \/ PatchAccount(a)
      PROVE  OrderInv'
  BY <1>2 DEF CreateAccount, PatchAccount, Locks, OrderInv, OwnerInv, Ascending
<1>3. CASE UNCHANGED vars
  BY <1>3 DEF vars, OrderInv, OwnerInv, Ascending
<1>4. QED
  BY <1>1, <1>2, <1>3 DEF Next, Drained

\* At the start nobody owns anything.
LEMMA InitOrder == Init => OrderInv
BY DEF Init, OrderInv, OwnerInv, Ascending, IdleRequest

(* A lock never outlives the transaction that took it.                      *)
THEOREM LocksHaveOwners == Spec => []LocksBelongToTransactions
<1>1. OrderInv => LocksBelongToTransactions
  BY DEF OrderInv, OwnerInv, LocksBelongToTransactions, InTransaction
<1>2. QED
  BY <1>1, InitOrder, InitType, NextKeepsOrder, NextType, PTL DEF Spec

-----------------------------------------------------------------------------
(* No set of requests waits for each other.                                *)

\* The account a request is waiting for.
Wanted(r) == IF req[r].pc = "locking" THEN NextToLock(req[r]) ELSE req[r].acct

\* Whoever waits for a movement row waits for a request that waits for nobody.
LEMMA RowOwnersDoNotWait ==
  ASSUME TypeInv, OwnerInv, NEW r \in Requests,
         req[r].pc \in {"locked", "closingLocked"}, NEW s \in WaitsFor(r)
  PROVE  s \in Requests /\ WaitsFor(s) = {}
<1>1. PICK m \in Movements : s = movLock[m] /\ movLock[m] # Free
  <2>1. CASE req[r].pc = "locked"
    <3>1. req[r].op \in {"patch", "delete"} /\ s \in {movLock[req[r].mov]} \ {Free}
      BY <2>1 DEF WaitsFor
    <3>2. req[r].mov \in Movements
      BY <3>1 DEF TypeInv, Shaped
    <3>3. QED
      BY <3>1, <3>2
  <2>2. CASE req[r].pc = "closingLocked"
    BY <2>2 DEF WaitsFor
  <2>3. QED
    BY <2>1, <2>2
<1>2. s \in Requests /\ req[s].pc \in RowPcs
  BY <1>1 DEF OwnerInv, RowPcs, TypeInv, TypeOK
<1>3. QED
  BY <1>2 DEF WaitsFor, RowPcs

\* Whoever waits for an account waits for its owner, which, if it waits for an
\* account itself, waits for one with a greater id.
LEMMA WaitsAscend ==
  ASSUME TypeInv, OrderInv, NEW r \in Requests, req[r].pc \in {"locking", "closing"},
         NEW s \in WaitsFor(r)
  PROVE  /\ s \in Requests /\ Wanted(r) \in Accounts
         /\ req[s].pc # "closing"
         /\ req[s].pc = "locking" => Wanted(r) < Wanted(s)
<1>1. \A x \in Requests : req[x].pc = "locking" =>
        /\ NextToLock(req[x]) \in req[x].todo /\ req[x].todo \subseteq Accounts
  <2> SUFFICES ASSUME NEW x \in Requests, req[x].pc = "locking"
               PROVE  /\ NextToLock(req[x]) \in req[x].todo
                      /\ req[x].todo \subseteq Accounts
    OBVIOUS
  <2>1. req[x].todo \in SUBSET Accounts /\ req[x].todo # {}
    BY DEF TypeInv, Shaped, Request, OrderInv, Ascending
  <2>2. QED
    BY <2>1, NextIsLeast
<1>2. s = accLock[Wanted(r)] /\ s # Free
  BY DEF WaitsFor, Wanted
<1>3. Wanted(r) \in Accounts
  BY <1>1 DEF Wanted, TypeInv, Shaped
<1>4. s \in Requests /\ req[s].pc \in InTransaction
  BY <1>2, <1>3 DEF OrderInv, OwnerInv, TypeInv, TypeOK
<1>5. ASSUME req[s].pc = "locking" PROVE Wanted(r) < Wanted(s)
  <2>1. Wanted(s) \in req[s].todo
    BY <1>1, <1>4, <1>5 DEF Wanted
  <2>2. QED
    BY <1>2, <1>3, <1>4, <1>5, <2>1 DEF OrderInv, Ascending
<1>6. QED
  BY <1>3, <1>4, <1>5 DEF InTransaction

\* A nonempty set of accounts has a greatest one.
LEMMA GreatestAccount ==
  ASSUME NEW W \in SUBSET Accounts, W # {}
  PROVE  \E a \in W : \A b \in W : b <= a
<1> DEFINE T == {NAccounts - a : a \in W}
<1>1. T \in SUBSET Nat /\ T # {}
  <2>1. \A a \in W : NAccounts - a \in Nat
    BY CountsAssumption DEF Accounts
  <2>2. QED
    BY <2>1
<1>2. PICK t \in T : \A u \in T : t <= u
  <2> HIDE DEF T
  <2> QED  BY <1>1, LeastNatural
<1>3. PICK a \in W : t = NAccounts - a
  BY <1>2
<1>4. \A b \in W : t <= NAccounts - b
  BY <1>2
<1>5. QED
  BY <1>3, <1>4, CountsAssumption DEF Accounts

(* No set of requests waits for each other: whoever owns a movement row     *)
(* never waits, and along a chain of waits for accounts the ids ascend.     *)
THEOREM NoDeadlock == Spec => []NoWaitCycle
<1>1. TypeInv /\ OrderInv => NoWaitCycle
  <2> SUFFICES ASSUME TypeInv, OrderInv, NEW S \in SUBSET Requests, S # {},
                      \A r \in S : WaitsFor(r) \intersect S # {}
               PROVE  FALSE
    BY DEF NoWaitCycle
  <2>1. ASSUME NEW r \in S PROVE req[r].pc \in {"locking", "closing"}
    <3>1. PICK s : s \in WaitsFor(r) /\ s \in S
      BY <2>1
    <3>2. req[r].pc \in {"locking", "locked", "closing", "closingLocked"}
      BY <3>1 DEF WaitsFor
    <3>3. req[r].pc \notin {"locked", "closingLocked"}
      BY <2>1, <3>1, RowOwnersDoNotWait DEF OrderInv
    <3>4. QED
      BY <3>2, <3>3
  <2> DEFINE W == {Wanted(r) : r \in S}
  <2>2. \A r \in S : \E s \in S : Wanted(r) \in Accounts /\ Wanted(r) < Wanted(s)
    <3> SUFFICES ASSUME NEW r \in S
                 PROVE  \E s \in S : Wanted(r) \in Accounts /\ Wanted(r) < Wanted(s)
      OBVIOUS
    <3>1. PICK s : s \in WaitsFor(r) /\ s \in S
      OBVIOUS
    <3>2. QED
      BY <2>1, <3>1, WaitsAscend
  <2>3. W \in SUBSET Accounts /\ W # {}
    BY <2>2
  <2>4. PICK a \in W : \A b \in W : b <= a
    <3> HIDE DEF W
    <3> QED  BY <2>3, GreatestAccount
  <2>5. PICK r \in S : a = Wanted(r)
    BY <2>4
  <2>6. PICK s \in S : Wanted(r) < Wanted(s)
    BY <2>2
  <2>7. Wanted(s) <= Wanted(r) /\ Wanted(s) \in Accounts /\ Wanted(r) \in Accounts
    BY <2>3, <2>4, <2>5
  <2>8. QED
    BY <2>6, <2>7, CountsAssumption DEF Accounts
<1>2. QED
  BY <1>1, InitOrder, InitType, NextKeepsOrder, NextType, PTL DEF Spec

-----------------------------------------------------------------------------
(* What each commit does to the tables.                                    *)

\* No account is opened, closed, archived or restored.
StatusKept == \A a \in Accounts : /\ accounts'[a].state = accounts[a].state
                                  /\ accounts'[a].archived = accounts[a].archived

\* The only table step: one row of the book is replaced.
Replaces(m, row) ==
  /\ movements' = [movements EXCEPT ![m] = row]
  /\ StatusKept
  /\ UNCHANGED adjusted

\* POST /movements inserts one row, on a live account.
LEMMA CreateWrites ==
  ASSUME TypeInv, NEW r \in Requests, CommitCreate(r), ~ UNCHANGED Tables
  PROVE  /\ Live(req[r].acct)
         /\ \E m \in Movements :
              /\ movements[m].state = "unused"
              /\ Replaces(m, NewMovement(req[r].acct, None, req[r].dir, req[r].amt))
<1> DEFINE q == req[r]
           d == SignedDelta(q.dir, q.amt)
           table == Credit(accounts, q.acct, d)
<1>1. /\ Live(q.acct) /\ Unused # {} /\ accounts' = table /\ UNCHANGED adjusted
      /\ movements' = [movements EXCEPT ![Least(Unused)] =
                         NewMovement(q.acct, None, q.dir, q.amt)]
  BY DEF CommitCreate, Commit, Refused
<1>2. \A a \in Accounts : /\ table[a].state = accounts[a].state
                          /\ table[a].archived = accounts[a].archived
  BY CreditKeeps DEF TypeInv, TypeOK
<1> HIDE DEF table
<1>3. Replaces(Least(Unused), NewMovement(q.acct, None, q.dir, q.amt))
  BY <1>1, <1>2 DEF Replaces, StatusKept
<1>4. QED
  BY <1>1, <1>3, LeastUnused

\* POST /movements/transfer inserts one row, between two live accounts.
LEMMA TransferWrites ==
  ASSUME TypeInv, NEW r \in Requests, CommitTransfer(r), ~ UNCHANGED Tables
  PROVE  /\ Live(req[r].acct) /\ Live(req[r].to)
         /\ \E m \in Movements :
              /\ movements[m].state = "unused"
              /\ Replaces(m, NewMovement(req[r].acct, req[r].to, "transfer", req[r].amt))
<1> DEFINE q == req[r]
           n == -q.amt
           debited == Credit(accounts, q.acct, n)
           table == Credit(debited, q.to, q.amt)
<1>1. /\ Live(q.acct) /\ Live(q.to) /\ Unused # {}
      /\ accounts' = table /\ UNCHANGED adjusted
      /\ movements' = [movements EXCEPT ![Least(Unused)] =
                         NewMovement(q.acct, q.to, "transfer", q.amt)]
  BY DEF CommitTransfer, Commit, Refused
<1>2. accounts \in [Accounts -> AccountRow] /\ n \in Int
  BY DEF TypeInv, TypeOK, Shaped, Request
<1>3. debited \in [Accounts -> AccountRow]
  BY <1>2, CreditType
<1>4. \A a \in Accounts : /\ debited[a].state = accounts[a].state
                          /\ debited[a].archived = accounts[a].archived
  BY <1>2, CreditKeeps
<1> HIDE DEF debited
<1>5. \A a \in Accounts : /\ table[a].state = accounts[a].state
                          /\ table[a].archived = accounts[a].archived
  BY <1>3, <1>4, CreditKeeps
<1> HIDE DEF table
<1>6. Replaces(Least(Unused), NewMovement(q.acct, q.to, "transfer", q.amt))
  BY <1>1, <1>5 DEF Replaces, StatusKept
<1>7. QED
  BY <1>1, <1>6, LeastUnused

\* PATCH replaces the row it holds by the merged one, on a live account.
LEMMA PatchWrites ==
  ASSUME TypeInv, NEW r \in Requests, CommitPatch(r), ~ UNCHANGED Tables
  PROVE  Live(Target(req[r])) /\ Replaces(req[r].mov, Merged(req[r]))
<1> DEFINE q   == req[r]
           new == Merged(q)
           d   == SignedDelta(new.dir, new.amount)
           undone == Reversed(q)
           table == Credit(undone, new.account, d)
<1>1. /\ Live(new.account) /\ accounts' = table /\ UNCHANGED adjusted
      /\ movements' = [movements EXCEPT ![q.mov] = new]
  BY DEF CommitPatch, Commit, Refused
<1>2. new.account = Target(q)
  BY DEF Merged, NewMovement
<1>3. undone \in [Accounts -> AccountRow]
  BY ReversedType DEF TypeInv, Shaped
<1>4. \A a \in Accounts : /\ undone[a].state = accounts[a].state
                          /\ undone[a].archived = accounts[a].archived
  BY ReversedKeeps
<1> HIDE DEF undone, new, d
<1>5. \A a \in Accounts : /\ table[a].state = accounts[a].state
                          /\ table[a].archived = accounts[a].archived
  BY <1>3, <1>4, CreditKeeps
<1> HIDE DEF table
<1>6. Replaces(q.mov, new)
  BY <1>1, <1>5 DEF Replaces, StatusKept
<1>7. QED
  BY <1>1, <1>2, <1>6 DEF new

\* DELETE marks the row it holds deleted.
LEMMA DeleteWrites ==
  ASSUME TypeInv, NEW r \in Requests, CommitDelete(r)
  PROVE  Replaces(req[r].mov, DeletedMovement)
<1> DEFINE q == req[r]
           undone == Reversed(q)
           both  == Credit(undone, q.row.dest, -q.row.amount)
           table == IF q.row.dir = "transfer" THEN both ELSE undone
<1>1. /\ accounts' = table /\ UNCHANGED adjusted
      /\ movements' = [movements EXCEPT ![q.mov] = DeletedMovement]
  BY DEF CommitDelete, Commit
<1>2. undone \in [Accounts -> AccountRow]
  BY ReversedType DEF TypeInv, Shaped
<1>3. \A a \in Accounts : /\ undone[a].state = accounts[a].state
                          /\ undone[a].archived = accounts[a].archived
  BY ReversedKeeps
<1> HIDE DEF undone
<1>4. \A a \in Accounts : /\ both[a].state = undone[a].state
                          /\ both[a].archived = undone[a].archived
  BY <1>2, CreditKeeps
<1>5. \A a \in Accounts : /\ table[a].state = accounts[a].state
                          /\ table[a].archived = accounts[a].archived
  BY <1>3, <1>4
<1>6. QED
  BY <1>1, <1>5 DEF Replaces, StatusKept

\* DELETE /accounts marks the account it holds deleted, once no stored
\* movement names it.
LEMMA CloseWrites ==
  ASSUME TypeInv, NEW r \in Requests, CommitClose(r), ~ UNCHANGED Tables
  PROVE  /\ \A m \in Movements : movements[m].state = "live" =>
              req[r].acct \notin Legs(movements[m])
         /\ accounts' = [accounts EXCEPT ![req[r].acct] = DeletedAccount]
         /\ UNCHANGED <<movements, adjusted>>
BY DEF CommitClose, Commit, References, Tables

\* A step of a request either commits or leaves the tables alone.
Commits(r) ==
  \/ CommitCreate(r) \/ CommitTransfer(r) \/ CommitPatch(r)
  \/ CommitDelete(r) \/ CommitClose(r)
LEMMA OnlyCommitsWrite ==
  ASSUME TypeInv, NEW r \in Requests, Start(r) \/ Step(r) \/ Timeout(r), ~ Commits(r)
  PROVE  UNCHANGED Tables
<1>1. CASE Start(r)
  <2>1. PICK q, refusal : Begin(r, q, refusal)
    BY <1>1, StartBegins DEF Begins
  <2>2. QED
    BY <2>1 DEF Begin
<1>2. CASE Step(r)
  BY <1>2 DEF Step, Commits, LockAccount, LockMovement, MovedUnderUs,
     RefreshSnapshot, GateCreate, GateTransfer, GatePatch, CountMovements,
     LockClosing, Rollback, Respond
<1>3. CASE Timeout(r)
  BY <1>3 DEF Timeout
<1>4. QED
  BY <1>1, <1>2, <1>3

\* A step of a request changes no other request.
LEMMA StepChangesOne ==
  ASSUME TypeInv, NEW r \in Requests, Start(r) \/ Step(r) \/ Timeout(r)
  PROVE  \E p : req' = [req EXCEPT ![r] = p]
<1>1. CASE Start(r)
  <2>1. PICK q, refusal : Begin(r, q, refusal)
    BY <1>1, StartBegins DEF Begins
  <2>2. QED
    BY <2>1 DEF Begin, Finish
<1>2. CASE \E pc, reply, wrote : Finish(r, pc, reply, wrote)
  BY <1>2 DEF Finish
<1>3. CASE \E pc : Goto(r, pc)
  BY <1>3 DEF Goto, TypeInv
<1>4. CASE LockAccount(r) \/ LockMovement(r) \/ MovedUnderUs(r) \/ RefreshSnapshot(r)
  BY <1>2, <1>4 DEF LockAccount, LockMovement, MovedUnderUs, RefreshSnapshot,
     GiveUp, Abort, TypeInv
<1>5. CASE GateCreate(r) \/ GateTransfer(r) \/ GatePatch(r) \/ CountMovements(r)
           \/ LockClosing(r)
  BY <1>2, <1>3, <1>5 DEF GateCreate, GateTransfer, GatePatch, CountMovements,
     LockClosing, Abort
<1>6. CASE Commits(r)
  BY <1>2, <1>6 DEF Commits, CommitCreate, CommitTransfer, CommitPatch, CommitDelete,
     CommitClose, Commit, Refused, Abort
<1>7. CASE Rollback(r) \/ Respond(r)
  BY <1>7 DEF Rollback, Respond
<1>8. CASE Timeout(r)
  BY <1>2, <1>8 DEF Timeout, TypeInv
<1>9. QED
  BY <1>1, <1>4, <1>5, <1>6, <1>7, <1>8 DEF Step, Commits

-----------------------------------------------------------------------------
(* What a gate found is still true at the commit.                          *)

ClearedInv == \A r \in Requests : Cleared(r)

\* The step leaves request s alone, and the archived flag of what it locked.
SparesFlags(s) ==
  /\ req'[s] = req[s]
  /\ \A a \in Accounts : Live(a) /\ accLock[a] = s =>
       accounts'[a].archived = accounts[a].archived

LEMMA SparedStaysCleared ==
  ASSUME TypeInv, NEW s \in Requests, Secured(s), Cleared(s), SparesFlags(s)
  PROVE  Cleared(s)'
<1> DEFINE q == req[s]
<1>1. /\ req'[s] = q /\ q \in Shaped
      /\ LockSet(req[s])' = LockSet(q) /\ Target(req[s])' = Target(q)
  BY DEF SparesFlags, TypeInv, LockSet, Target
<1>2. q.pc \in {"locking", "locked", "gated"} =>
        \A a \in LockSet(q) \ q.todo : accounts'[a].archived = accounts[a].archived
  BY DEF Secured, SparesFlags, Live
<1>3. q.pc = "gated" => /\ q.todo = {}
                        /\ q.op = "create" => q.acct \in LockSet(q)
                        /\ q.op = "patch" => Target(q) \in LockSet(q)
  BY <1>1 DEF Shaped, LockSet
<1>4. q.pc = "gated" /\ q.op = "patch" => ~ RepointRefused(req[s])'
  BY <1>1, <1>2, <1>3 DEF Cleared, RepointRefused, Repoints
<1>5. QED
  BY <1>1, <1>2, <1>3, <1>4 DEF Cleared

\* A step of r that spares the flags of the others.
LEMMA ClearedStep ==
  ASSUME TypeInv, LockInv, ClearedInv, NEW r \in Requests, Cleared(r)',
         NEW p, req' = [req EXCEPT ![r] = p],
         \/ UNCHANGED Tables
         \/ StatusKept
         \/ \A a \in Accounts : accLock[a] # r =>
              accounts'[a].archived = accounts[a].archived
  PROVE  ClearedInv'
<1>1. ASSUME NEW s \in Requests \ {r} PROVE SparesFlags(s)
  BY DEF SparesFlags, StatusKept, Tables, TypeInv
<1>2. QED
  BY <1>1, SparedStaysCleared DEF LockInv, ClearedInv

\* A request that has no gate behind it has nothing to keep true.
LEMMA NothingToClear ==
  ASSUME NEW r, req'[r].pc \notin {"locking", "locked", "gated"}
  PROVE  Cleared(r)'
BY DEF Cleared

\* A handler that is done, with the tables as they were.
LEMMA FinishClears ==
  ASSUME TypeInv, LockInv, ClearedInv, NEW r \in Requests, NEW pc \in DonePcs,
         NEW reply, NEW wrote, Finish(r, pc, reply, wrote), UNCHANGED Tables
  PROVE  ClearedInv'
<1>1. req'[r].pc = pc /\ \E p : req' = [req EXCEPT ![r] = p]
  BY FinishIsDone
<1>2. Cleared(r)'
  BY <1>1, NothingToClear DEF DonePcs
<1>3. QED
  BY <1>1, <1>2, ClearedStep

\* A start, or a new attempt, has everything still to lock.
LEMMA StartClears ==
  ASSUME TypeInv, LockInv, ClearedInv, NEW r \in Requests, Start(r)
  PROVE  ClearedInv'
<1>1. PICK q, refusal : Begins(r, q, refusal)
  BY StartBegins
<1>2. UNCHANGED Tables
  BY <1>1 DEF Begins, Begin
<1>3. CASE refusal # "none"
  BY <1>1, <1>2, <1>3, FinishClears DEF Begins, Begin, DonePcs
<1>4. CASE refusal = "none"
  <2> DEFINE S == LockSet(q)
             p == [q EXCEPT !.todo = S, !.attempt = 1]
  <2>1. /\ req' = [req EXCEPT ![r] = p] /\ req'[r] = p
        /\ q \in Request /\ q.pc \in {"locking", "counting"}
    BY <1>1, <1>4 DEF Begins, Begin, Shaped, TypeInv
  <2>2. /\ p.pc = q.pc /\ p.todo = LockSet(q)
        /\ p.op = q.op /\ p.acct = q.acct /\ p.to = q.to /\ p.snap = q.snap
    BY <2>1 DEF Request
  <2> HIDE DEF p
  <2>3. LockSet(p) = LockSet(q)
    BY <2>2, LockSetSame
  <2>4. LockSet(req[r])' = LockSet(p)
    BY <2>1 DEF LockSet, Target
  <2>5. Cleared(r)'
    BY <2>1, <2>2, <2>3, <2>4 DEF Cleared
  <2>6. QED
    BY <1>2, <2>1, <2>5, ClearedStep
<1>5. QED
  BY <1>3, <1>4

\* A transfer goes on only from an account that is not archived.
LEMMA LockAccountClears ==
  ASSUME TypeInv, LockInv, ClearedInv, NEW r \in Requests, LockAccount(r)
  PROVE  ClearedInv'
<1> DEFINE q == req[r]
           a == NextToLock(q)
           todo == q.todo \ {a}
           pc == IF q.todo = {a} THEN "locked" ELSE "locking"
           p == [q EXCEPT !.todo = todo, !.pc = pc]
<1>1. UNCHANGED Tables /\ q.pc = "locking" /\ q \in Request
  BY DEF LockAccount, TypeInv, Shaped
<1>2. CASE Finish(r, "aborting", "422", FALSE)
  BY <1>1, <1>2, FinishClears DEF DonePcs
<1>3. CASE ~ Finish(r, "aborting", "422", FALSE)
  <2>1. /\ req' = [req EXCEPT ![r].todo = todo, ![r].pc = pc]
        /\ ~ (q.op = "transfer" /\ accounts[a].archived)
    BY <1>3 DEF LockAccount, Abort, TypeInv
  <2>2. pc \in {"locked", "locking"}
    OBVIOUS
  <2> HIDE DEF pc
  <2>3. /\ req' = [req EXCEPT ![r] = p] /\ req'[r] = p
        /\ p.pc = pc /\ p.todo = todo
        /\ p.op = q.op /\ p.acct = q.acct /\ p.to = q.to /\ p.snap = q.snap
    BY <1>1, <2>1 DEF TypeInv, Request
  <2> HIDE DEF p
  <2>4. LockSet(p) = LockSet(q)
    BY <2>3, LockSetSame
  <2>5. LockSet(req[r])' = LockSet(p)
    BY <2>3 DEF LockSet, Target
  <2>6. q.op = "transfer" => \A b \in LockSet(q) \ q.todo : ~ accounts[b].archived
    BY <1>1 DEF ClearedInv, Cleared
  <2>7. accounts' = accounts
    BY <1>1 DEF Tables
  <2>8. q.op = "transfer" => \A b \in LockSet(q) \ todo : ~ accounts[b].archived
    <3> HIDE DEF a, q
    <3> QED  BY <2>1, <2>6
  <2> HIDE DEF todo, a, q
  <2>9. Cleared(r)'
    BY <2>2, <2>3, <2>4, <2>5, <2>7, <2>8 DEF Cleared
  <2>10. QED
    BY <1>1, <2>3, <2>9, ClearedStep
<1>4. QED
  BY <1>2, <1>3

\* A request that waits for its row, or starts again, has no gate behind it.
LEMMA RowStepClears ==
  ASSUME TypeInv, LockInv, ClearedInv, NEW r \in Requests,
         LockMovement(r) \/ MovedUnderUs(r) \/ RefreshSnapshot(r)
         \/ CountMovements(r) \/ LockClosing(r)
  PROVE  ClearedInv'
<1> DEFINE q == req[r]
<1>0. q \in Request /\ q \in Shaped /\ UNCHANGED Tables
  BY DEF TypeInv, Shaped, LockMovement, MovedUnderUs, RefreshSnapshot,
         CountMovements, LockClosing
<1>1. CASE \E pc \in DonePcs : \E reply : Finish(r, pc, reply, FALSE)
  BY <1>0, <1>1, FinishClears
<1>2. CASE ~ \E pc \in DonePcs : \E reply : Finish(r, pc, reply, FALSE)
  <2>1. \A pc \in {"replying", "aborting"} : \A reply : ~ Finish(r, pc, reply, FALSE)
    BY <1>2 DEF DonePcs
  <2>2. CASE LockMovement(r)
    <3> DEFINE p == [q EXCEPT !.pc = "rowLocked", !.row = movements[q.mov]]
    <3>1. req' = [req EXCEPT ![r] = p] /\ p.pc = "rowLocked"
      BY <1>0, <2>1, <2>2 DEF LockMovement, Abort, TypeInv, Request
    <3> HIDE DEF p
    <3>2. req'[r].pc = "rowLocked"
      BY <3>1 DEF TypeInv
    <3>3. QED
      BY <1>0, <3>1, <3>2, NothingToClear, ClearedStep
  <2>3. CASE MovedUnderUs(r)
    <3> DEFINE p == [q EXCEPT !.pc = "refreshing", !.row = NoMovement]
    <3>1. req' = [req EXCEPT ![r] = p] /\ p.pc = "refreshing"
      BY <1>0, <2>3 DEF MovedUnderUs, TypeInv, Request
    <3> HIDE DEF p
    <3>2. req'[r].pc = "refreshing"
      BY <3>1 DEF TypeInv
    <3>3. QED
      BY <1>0, <3>1, <3>2, NothingToClear, ClearedStep
  <2>4. CASE RefreshSnapshot(r)
    <3> DEFINE next == [q EXCEPT !.snap = movements[q.mov]]
               S == LockSet(next)
               p == [next EXCEPT !.pc = "locking", !.todo = S, !.attempt = @ + 1]
    <3>1. req' = [req EXCEPT ![r] = p] /\ q.op \in {"patch", "delete"}
      BY <1>0, <2>1, <2>4 DEF RefreshSnapshot, GiveUp, Shaped
    <3> HIDE DEF S
    <3>2. p.pc = "locking" /\ p.op = q.op
      BY <1>0 DEF Request
    <3> HIDE DEF p
    <3>3. req'[r] = p
      BY <3>1 DEF TypeInv
    <3>4. Cleared(r)'
      BY <3>1, <3>2, <3>3 DEF Cleared
    <3>5. QED
      BY <1>0, <3>1, <3>4, ClearedStep
  <2>5. CASE CountMovements(r) \/ LockClosing(r)
    <3>1. PICK pc \in {"closing", "closingLocked"} : Goto(r, pc)
      BY <2>1, <2>5 DEF CountMovements, LockClosing
    <3> DEFINE p == [q EXCEPT !.pc = pc]
    <3>2. req' = [req EXCEPT ![r] = p] /\ p.pc = pc
      BY <1>0, <3>1 DEF Goto, TypeInv, Request
    <3> HIDE DEF p
    <3>3. req'[r].pc = pc
      BY <3>2 DEF TypeInv
    <3>4. QED
      BY <1>0, <3>2, <3>3, NothingToClear, ClearedStep
  <2>6. QED
    BY <2>2, <2>3, <2>4, <2>5
<1>3. QED
  BY <1>1, <1>2

\* A request that passes its gate has found what it must find.
LEMMA GateClears ==
  ASSUME TypeInv, LockInv, ClearedInv, NEW r \in Requests,
         GateCreate(r) \/ GateTransfer(r) \/ GatePatch(r)
  PROVE  ClearedInv'
<1> DEFINE q == req[r]
           p == [q EXCEPT !.pc = "gated"]
<1>1. UNCHANGED Tables /\ accounts' = accounts /\ q \in Request /\ q \in Shaped
  BY DEF GateCreate, GateTransfer, GatePatch, Tables, TypeInv, Shaped
<1>2. CASE Abort(r, "422")
  BY <1>1, <1>2, FinishClears DEF Abort, DonePcs
<1>3. CASE ~ Abort(r, "422")
  <2>1. Goto(r, "gated")
    BY <1>3 DEF GateCreate, GateTransfer, GatePatch
  <2>2. /\ q.op = "create" => ~ accounts[q.acct].archived
        /\ q.op = "transfer" => q.pc = "locked" /\ SameCurrency(q.acct, q.to)
        /\ q.op = "patch" => ~ RepointRefused(q)
    BY <1>3 DEF GateCreate, GateTransfer, GatePatch
  <2>3. /\ req' = [req EXCEPT ![r] = p] /\ req'[r] = p /\ p.pc = "gated"
        /\ p.op = q.op /\ p.acct = q.acct /\ p.to = q.to /\ p.snap = q.snap
        /\ p.todo = q.todo /\ p.row = q.row
    BY <1>1, <2>1 DEF Goto, TypeInv, Request
  <2> HIDE DEF p
  <2>4. LockSet(req[r])' = LockSet(q) /\ Target(req[r])' = Target(q)
    BY <2>3 DEF LockSet, Target
  <2>5. q.op = "patch" => ~ RepointRefused(req[r])'
    BY <1>1, <2>2, <2>3, <2>4 DEF RepointRefused, Repoints
  <2>6. q.op = "transfer" => \A a \in LockSet(q) \ q.todo : ~ accounts[a].archived
    BY <2>2 DEF ClearedInv, Cleared
  <2> HIDE DEF q
  <2>7. Cleared(r)'
    BY <1>1, <2>2, <2>3, <2>4, <2>5, <2>6 DEF Cleared
  <2>8. QED
    BY <1>1, <2>3, <2>7, ClearedStep
<1>4. QED
  BY <1>2, <1>3

\* A commit ends its request; an account it closes is one it has locked.
LEMMA CommitClears ==
  ASSUME TypeInv, LockInv, ClearedInv, NEW r \in Requests, Commits(r)
  PROVE  ClearedInv'
<1>1. \E pc \in DonePcs : \E reply, wrote : Finish(r, pc, reply, wrote)
  <2>1. \/ Finish(r, "replying", "ok", TRUE) \/ Finish(r, "replying", "409", FALSE)
        \/ Finish(r, "aborting", "422", FALSE) \/ Finish(r, "aborting", "500", FALSE)
    BY DEF Commits, CommitCreate, CommitTransfer, CommitPatch, CommitDelete,
           CommitClose, Commit, Refused, Abort
  <2>2. QED
    BY <2>1 DEF DonePcs
<1>2. PICK p : req' = [req EXCEPT ![r] = p]
  BY <1>1, FinishIsDone
<1>3. Cleared(r)'
  <2>1. req'[r].pc \in DonePcs
    BY <1>1, FinishIsDone
  <2>2. QED
    BY <2>1, NothingToClear DEF DonePcs
<1>4. CASE UNCHANGED Tables
  BY <1>2, <1>3, <1>4, ClearedStep
<1>5. CASE ~ UNCHANGED Tables
  <2>1. CASE CommitClose(r)
    <3>1. accounts' = [accounts EXCEPT ![req[r].acct] = DeletedAccount]
      BY <1>5, <2>1, CloseWrites
    <3>2. accLock[req[r].acct] = r
      BY <2>1 DEF CommitClose, LockInv, Secured
    <3>3. \A a \in Accounts : accLock[a] # r =>
            accounts'[a].archived = accounts[a].archived
      BY <3>1, <3>2 DEF TypeInv, TypeOK
    <3>4. QED
      BY <1>2, <1>3, <3>3, ClearedStep
  <2>2. CASE ~ CommitClose(r)
    <3>1. StatusKept
      BY <1>5, <2>2, CreateWrites, TransferWrites, PatchWrites, DeleteWrites
      DEF Commits, Replaces
    <3>2. QED
      BY <1>2, <1>3, <3>1, ClearedStep
  <2>3. QED
    BY <2>1, <2>2
<1>6. QED
  BY <1>4, <1>5

\* The end of a request and the timeout.
LEMMA EndClears ==
  ASSUME TypeInv, LockInv, ClearedInv, NEW r \in Requests,
         Rollback(r) \/ Respond(r) \/ Timeout(r)
  PROVE  ClearedInv'
<1> DEFINE q == req[r]
<1>0. q \in Request /\ UNCHANGED Tables /\ accounts' = accounts
  BY DEF TypeInv, Shaped, Rollback, Respond, Timeout, Tables
<1>1. CASE Rollback(r) \/ Respond(r)
  <2>1. req' = [req EXCEPT ![r] = IdleRequest] /\ IdleRequest.pc = "idle"
    BY <1>1 DEF Rollback, Respond, IdleRequest
  <2>2. req'[r].pc = "idle"
    BY <2>1 DEF TypeInv
  <2>3. QED
    BY <1>0, <2>1, <2>2, NothingToClear, ClearedStep
<1>2. CASE Timeout(r)
  <2>1. CASE Finish(r, "aborting", "504", FALSE) \/ Finish(r, "replying", "504", FALSE)
    BY <1>0, <2>1, FinishClears DEF DonePcs
  <2>2. CASE req' = [req EXCEPT ![r].reply = "504"]
    <3> DEFINE p == [q EXCEPT !.reply = "504"]
    <3>1. /\ req' = [req EXCEPT ![r] = p] /\ req'[r] = p /\ p.pc = q.pc
          /\ p.op = q.op /\ p.acct = q.acct /\ p.to = q.to /\ p.snap = q.snap
          /\ p.todo = q.todo /\ p.row = q.row
      BY <1>0, <2>2 DEF TypeInv, Request
    <3> HIDE DEF p
    <3>2. LockSet(req[r])' = LockSet(q) /\ Target(req[r])' = Target(q)
      BY <3>1 DEF LockSet, Target
    <3>3. ~ RepointRefused(q) => ~ RepointRefused(req[r])'
      BY <1>0, <3>1, <3>2 DEF RepointRefused, Repoints
    <3>4. Cleared(r)
      BY DEF ClearedInv
    <3>5. Cleared(r)'
      BY <1>0, <3>1, <3>2, <3>3, <3>4 DEF Cleared
    <3>6. QED
      BY <1>0, <3>1, <3>5, ClearedStep
  <2>3. QED
    BY <1>2, <2>1, <2>2 DEF Timeout
<1>3. QED
  BY <1>1, <1>2

\* PATCH /accounts waits for the row lock, so it archives no account a request
\* has locked.
LEMMA AccountClears ==
  ASSUME TypeInv, LockInv, ClearedInv, NEW a \in Accounts,
         CreateAccount(a) \/ PatchAccount(a)
  PROVE  ClearedInv'
<1>1. ASSUME NEW s \in Requests PROVE SparesFlags(s)
  <2>1. req' = req /\ s # Free
    BY FreeAssumption DEF CreateAccount, PatchAccount
  <2>2. \A b \in Accounts \ {a} : accounts'[b] = accounts[b]
    BY DEF CreateAccount, PatchAccount, TypeInv, TypeOK
  <2>3. ~ (Live(a) /\ accLock[a] = s)
    BY <2>1 DEF CreateAccount, PatchAccount, Live
  <2>4. QED
    BY <2>1, <2>2, <2>3 DEF SparesFlags
<1>2. QED
  BY <1>1, SparedStaysCleared DEF LockInv, ClearedInv

\* Every step keeps what the gates found.
LEMMA NextClears == TypeInv /\ LockInv /\ ClearedInv /\ [Next]_vars => ClearedInv'
<1> SUFFICES ASSUME TypeInv, LockInv, ClearedInv, [Next]_vars PROVE ClearedInv'
  OBVIOUS
<1>1. ASSUME NEW r \in Requests, Start(r) \/ Step(r) \/ Timeout(r)
      PROVE  ClearedInv'
  BY <1>1, StartClears, LockAccountClears, RowStepClears, GateClears,
     CommitClears, EndClears DEF Step, Commits
<1>2. ASSUME NEW a \in Accounts, CreateAccount(a) \/ PatchAccount(a)
      PROVE  ClearedInv'
  BY <1>2, AccountClears
<1>3. CASE UNCHANGED vars
  BY <1>3 DEF vars, ClearedInv, Cleared, LockSet, Target, RepointRefused, Repoints
<1>4. QED
  BY <1>1, <1>2, <1>3 DEF Next, Drained

\* At the start no request has passed a gate.
LEMMA InitClears == Init => ClearedInv
BY DEF Init, ClearedInv, Cleared, IdleRequest

-----------------------------------------------------------------------------
(* The handlers implement the atomic ledger.                               *)

\* The two modules name the same sets, rows and sums.
LEMMA SameNames ==
  /\ Promise!Accounts = Accounts /\ Promise!Movements = Movements
  /\ Promise!None = None /\ Promise!Signed = Signed
  /\ Promise!DeletedMovement = DeletedMovement
  /\ \A a, b, d, n : Promise!NewMovement(a, b, d, n) = NewMovement(a, b, d, n)
  /\ \A row : Promise!Legs(row) = Legs(row)
  /\ \A a, b : Promise!SameCurrency(a, b) <=> SameCurrency(a, b)
BY DEF Promise!Accounts, Accounts, Promise!Movements, Movements, Promise!None,
       None, Promise!Signed, Signed, Promise!DeletedMovement, DeletedMovement,
       Promise!NoMovement, NoMovement, Promise!NewMovement, NewMovement,
       Promise!Legs, Legs, Promise!SameCurrency, SameCurrency

LEMMA SameTotals ==
  ASSUME NEW book, NEW a
  PROVE  Promise!LedgerTotal(book, a) = LedgerTotal(book, a)
BY DEF Promise!LedgerTotal, LedgerTotal, Promise!SumTo, SumTo, Promise!Effect, Effect,
       Promise!SignedDelta, SignedDelta, Promise!Movements, Movements

\* The balance the atomic ledger computes is the one the handlers store.
LEMMA SameBalance ==
  ASSUME BookInv, NEW a \in Accounts, Live(a)
  PROVE  Promise!Balance(a) = accounts[a].balance
<1>1. accounts[a].balance = adjusted[a] + LedgerTotal(movements, a)
  BY DEF BookInv, BalanceMatchesLedger
<1>2. QED
  BY <1>1, SameTotals DEF Promise!Balance

\* What the atomic ledger sees of an account.
LEMMA SameStatus ==
  ASSUME NEW a \in Accounts
  PROVE  /\ Promise!IsLive(a) <=> Live(a)
         /\ Promise!TakesNew(a) <=> Live(a) /\ ~ accounts[a].archived
BY DEF Promise!IsLive, Promise!TakesNew, Live

\* Replacing a row of the book is all a Record does.
LEMMA ReplacesIsRecord ==
  ASSUME NEW m, NEW row, Replaces(m, row)
  PROVE  Promise!Record(m, row)
BY DEF Replaces, StatusKept, Promise!Record

\* The tables start as the atomic ledger starts.
LEMMA InitRefines == Init => Promise!SpecInit
<1> SUFFICES ASSUME Init PROVE Promise!SpecInit
  OBVIOUS
<1>1. \A a \in Accounts :
        /\ accounts[a].state = IF a \in Opened THEN "live" ELSE "unused"
        /\ accounts[a].archived = FALSE
  BY DEF Init, OpenAccount, NoAccountRow
<1>2. QED
  BY <1>1, SameNames DEF Init, Promise!SpecInit

\* The commit of POST /movements is a Post.
LEMMA CreateRefines ==
  ASSUME TypeInv, AnswerInv, ClearedInv, NEW r \in Requests, CommitCreate(r),
         ~ UNCHANGED Tables
  PROVE  \E m \in Movements : Promise!Post(m)
<1> DEFINE q == req[r]
<1>1. PICK m \in Movements :
        /\ Live(q.acct) /\ movements[m].state = "unused"
        /\ Replaces(m, NewMovement(q.acct, None, q.dir, q.amt))
  BY CreateWrites
<1>2. q.acct \in Accounts /\ q.dir \in Signed /\ q.amt \in Amounts
  BY DEF CommitCreate, TypeInv, Shaped, AnswerInv, Answered
<1>3. Promise!TakesNew(q.acct)
  BY <1>1, <1>2, SameStatus DEF CommitCreate, ClearedInv, Cleared
<1>4. Promise!Record(m, NewMovement(q.acct, None, q.dir, q.amt))
  BY <1>1, ReplacesIsRecord
<1> HIDE DEF q
<1>5. QED
  BY <1>1, <1>2, <1>3, <1>4, SameNames DEF Promise!Post

\* The commit of POST /movements/transfer is a Move.
LEMMA TransferRefines ==
  ASSUME TypeInv, AnswerInv, ClearedInv, NEW r \in Requests, CommitTransfer(r),
         ~ UNCHANGED Tables
  PROVE  \E m \in Movements : Promise!Move(m)
<1> DEFINE q == req[r]
<1>1. PICK m \in Movements :
        /\ Live(q.acct) /\ Live(q.to) /\ movements[m].state = "unused"
        /\ Replaces(m, NewMovement(q.acct, q.to, "transfer", q.amt))
  BY TransferWrites
<1>2. /\ q.acct \in Accounts /\ q.to \in Accounts \ {q.acct} /\ q.amt \in Amounts
      /\ q.op = "transfer" /\ q.pc = "gated" /\ q.todo = {}
  BY DEF CommitTransfer, TypeInv, Shaped, AnswerInv, Answered
<1>3. LockSet(q) = {q.acct, q.to}
  BY <1>2 DEF LockSet
<1>4. Promise!TakesNew(q.acct) /\ Promise!TakesNew(q.to) /\ SameCurrency(q.acct, q.to)
  BY <1>1, <1>2, <1>3, SameStatus DEF ClearedInv, Cleared
<1>5. Promise!Record(m, NewMovement(q.acct, q.to, "transfer", q.amt))
  BY <1>1, ReplacesIsRecord
<1> HIDE DEF q
<1>6. QED
  BY <1>1, <1>2, <1>4, <1>5, SameNames DEF Promise!Move

\* The commit of PATCH /movements is an Edit of the row as it is stored.
LEMMA PatchRefines ==
  ASSUME TypeInv, LockInv, BookInv, AnswerInv, ClearedInv, NEW r \in Requests,
         CommitPatch(r), ~ UNCHANGED Tables
  PROVE  \E m \in Movements : Promise!Edit(m)
<1> DEFINE q == req[r]
           m == q.mov
           a == Target(q)
           d == IF q.dir = "keep" THEN q.row.dir ELSE q.dir
           n == IF q.amt = 0 THEN q.row.amount ELSE q.amt
<1>1. Live(a) /\ Replaces(m, Merged(q))
  BY PatchWrites
<1>2. /\ q \in Request /\ q.op = "patch" /\ q.pc = "gated" /\ m \in Movements
      /\ q.dir \in Signed \union {"keep"} /\ q.amt \in Amounts \union {0}
  BY DEF CommitPatch, TypeInv, Shaped, AnswerInv, Answered
<1>3. q.row = movements[m] /\ q.row.state = "live" /\ q.row.dir # "transfer"
  BY <1>2 DEF LockInv, Secured
<1>4. q.row.dest = None /\ q.row.dir \in Signed
  BY <1>2, <1>3 DEF BookInv, LegsMatchDirection, Request, MovementRow, Directions
<1>5. /\ a \in Accounts /\ d \in Signed /\ n \in Amounts \union {movements[m].amount}
      /\ Merged(q) = NewMovement(a, None, d, n)
  BY <1>1, <1>2, <1>3, <1>4 DEF Live, Merged
<1>6. a # q.row.account => /\ ~ accounts[a].archived
                           /\ SameCurrency(a, q.row.account)
  BY <1>2 DEF ClearedInv, Cleared, RepointRefused, Repoints, SameCurrency
<1>7. a # movements[m].account =>
        Promise!TakesNew(a) /\ SameCurrency(a, movements[m].account)
  BY <1>1, <1>3, <1>5, <1>6, SameStatus
<1>8. Promise!Record(m, NewMovement(a, None, d, n))
  BY <1>1, <1>5, ReplacesIsRecord
<1>9. movements[m].state = "live" /\ movements[m].dir # "transfer" /\ m \in Movements
  BY <1>2, <1>3
<1> HIDE DEF q, m, a, d, n
<1>10. QED
  BY <1>5, <1>7, <1>8, <1>9, SameNames DEF Promise!Edit

\* The commit of DELETE /movements is a Remove.
LEMMA DeleteRefines ==
  ASSUME TypeInv, LockInv, NEW r \in Requests, CommitDelete(r)
  PROVE  \E m \in Movements : Promise!Remove(m)
<1> DEFINE m == req[r].mov
<1>1. Replaces(m, DeletedMovement)
  BY DeleteWrites
<1>2. m \in Movements /\ movements[m].state = "live"
  BY DEF CommitDelete, TypeInv, Shaped, LockInv, Secured
<1>3. Promise!Record(m, DeletedMovement)
  BY <1>1, ReplacesIsRecord
<1>4. QED
  BY <1>2, <1>3, SameNames DEF Promise!Remove

\* The commit of DELETE /accounts is a Close.
LEMMA CloseRefines ==
  ASSUME TypeInv, LockInv, NEW r \in Requests, CommitClose(r), ~ UNCHANGED Tables
  PROVE  \E a \in Accounts : Promise!Close(a)
<1> DEFINE a == req[r].acct
<1>1. /\ \A m \in Movements : movements[m].state = "live" =>
           a \notin Legs(movements[m])
      /\ accounts' = [accounts EXCEPT ![a] = DeletedAccount]
      /\ UNCHANGED <<movements, adjusted>>
  BY CloseWrites
<1>2. Live(a) /\ a \in Accounts
  BY DEF CommitClose, LockInv, Secured, Live
<1>3. /\ \A b \in Accounts \ {a} : accounts'[b] = accounts[b]
      /\ accounts'[a].state = "deleted" /\ accounts'[a].archived = FALSE
  BY <1>1, <1>2 DEF TypeInv, TypeOK, DeletedAccount, NoAccountRow
<1> HIDE DEF a
<1>4. QED
  BY <1>1, <1>2, <1>3, SameNames, SameStatus DEF Promise!Close

\* POST and PATCH /accounts are an Open and an Assert.
LEMMA AccountRefines ==
  ASSUME TypeInv, BookInv, UnopenedListed, NEW a \in Accounts,
         CreateAccount(a) \/ PatchAccount(a)
  PROVE  Promise!Open(a) \/ Promise!Assert(a)
<1>1. CASE CreateAccount(a)
  <2>1. /\ \A b \in Accounts \ {a} : accounts'[b] = accounts[b]
        /\ accounts'[a].state = "live" /\ accounts'[a].archived = FALSE
        /\ accounts[a].state = "unused" /\ UNCHANGED <<movements, adjusted>>
    BY <1>1 DEF CreateAccount, OpenAccount, TypeInv, TypeOK
  <2>2. accounts[a].archived = FALSE
    BY <2>1 DEF UnopenedListed, TypeInv, TypeOK, AccountRow
  <2>3. QED
    BY <2>1, <2>2, SameNames DEF Promise!Open
<1>2. CASE PatchAccount(a)
  <2>1. PICK b \in ManualBalances \union {accounts[a].balance}, f \in BOOLEAN :
          /\ accounts' = [accounts EXCEPT ![a].balance = b, ![a].archived = f]
          /\ adjusted' = [adjusted EXCEPT ![a] = @ + (b - accounts[a].balance)]
    BY <1>2 DEF PatchAccount
  <2>2. Live(a) /\ UNCHANGED movements
    BY <1>2 DEF PatchAccount
  <2>3. Promise!Balance(a) = accounts[a].balance
    BY <2>2, SameBalance
  <2>4. /\ \A c \in Accounts \ {a} : accounts'[c] = accounts[c]
        /\ accounts'[a].state = accounts[a].state /\ accounts'[a].archived = f
    BY <2>1 DEF TypeInv, TypeOK, AccountRow
  <2>5. [c \in Accounts |-> [state |-> accounts[c].state,
                             archived |-> accounts[c].archived]]'
          = [[c \in Accounts |-> [state |-> accounts[c].state,
                                  archived |-> accounts[c].archived]]
               EXCEPT ![a].archived = f]
    BY <2>4
  <2>6. adjusted' = [adjusted EXCEPT ![a] = @ + (b - Promise!Balance(a))]
    BY <2>1, <2>3
  <2>7. Promise!IsLive(a) /\ b \in ManualBalances \union {Promise!Balance(a)}
    BY <2>2, <2>3, SameStatus
  <2>8. Promise!Assert(a)
    BY <2>2, <2>5, <2>6, <2>7, SameNames, Zenon DEF Promise!Assert
  <2>9. QED
    BY <2>8
<1>3. QED
  BY <1>1, <1>2

\* Each step of the handlers is one step of the atomic ledger, or none.
LEMMA StepRefines ==
  ASSUME TypeInv, LockInv, BookInv, AnswerInv, ClearedInv, UnopenedListed, [Next]_vars
  PROVE  [Promise!SpecNext]_Promise!specVars
<1>1. UNCHANGED Tables => UNCHANGED Promise!specVars
  BY DEF Tables, Promise!specVars
<1>2. ASSUME NEW r \in Requests, Start(r) \/ Step(r) \/ Timeout(r), ~ UNCHANGED Tables
      PROVE  Promise!SpecNext
  <2>1. Commits(r)
    BY <1>2, OnlyCommitsWrite
  <2>2. \/ \E m \in Movements : \/ Promise!Post(m) \/ Promise!Move(m)
                                \/ Promise!Edit(m) \/ Promise!Remove(m)
        \/ \E a \in Accounts : Promise!Close(a)
    BY <1>2, <2>1, CreateRefines, TransferRefines, PatchRefines, DeleteRefines,
       CloseRefines DEF Commits
  <2>3. QED
    BY <2>2, SameNames DEF Promise!SpecNext
<1>3. ASSUME NEW a \in Accounts, CreateAccount(a) \/ PatchAccount(a)
      PROVE  Promise!SpecNext
  BY <1>3, AccountRefines, SameNames DEF Promise!SpecNext
<1>4. CASE UNCHANGED vars
  BY <1>1, <1>4 DEF vars, Tables
<1>5. QED
  BY <1>1, <1>2, <1>3, <1>4 DEF Next, Drained

\* No step archives an account that was never opened.
LEMMA NextKeepsUnopened ==
  TypeInv /\ UnopenedListed /\ [Next]_vars => UnopenedListed'
<1> SUFFICES ASSUME TypeInv, UnopenedListed, [Next]_vars PROVE UnopenedListed'
  OBVIOUS
<1>1. CASE UNCHANGED accounts \/ StatusKept
  BY <1>1 DEF UnopenedListed, StatusKept
<1>2. ASSUME NEW r \in Requests, Start(r) \/ Step(r) \/ Timeout(r), ~ UNCHANGED Tables
      PROVE  UnopenedListed'
  <2>1. Commits(r)
    BY <1>2, OnlyCommitsWrite
  <2>2. StatusKept \/ accounts' = [accounts EXCEPT ![req[r].acct] = DeletedAccount]
    BY <1>2, <2>1, CreateWrites, TransferWrites, PatchWrites, DeleteWrites, CloseWrites
    DEF Commits, Replaces
  <2>3. CASE accounts' = [accounts EXCEPT ![req[r].acct] = DeletedAccount]
    BY <2>3 DEF UnopenedListed, TypeInv, TypeOK, DeletedAccount, NoAccountRow
  <2>4. QED
    BY <1>1, <2>2, <2>3
<1>3. ASSUME NEW a \in Accounts, CreateAccount(a) \/ PatchAccount(a)
      PROVE  UnopenedListed'
  <2>1. CASE CreateAccount(a)
    BY <2>1 DEF CreateAccount, OpenAccount, UnopenedListed, TypeInv, TypeOK
  <2>2. CASE PatchAccount(a)
    <3>1. /\ \A b \in Accounts \ {a} : accounts'[b] = accounts[b]
          /\ accounts'[a].state = accounts[a].state /\ accounts[a].state = "live"
      BY <2>2 DEF PatchAccount, Live, TypeInv, TypeOK, AccountRow
    <3>2. QED
      BY <3>1 DEF UnopenedListed
  <2>3. QED
    BY <1>3, <2>1, <2>2
<1>4. CASE UNCHANGED vars
  BY <1>1, <1>4 DEF vars
<1>5. QED
  BY <1>1, <1>2, <1>3, <1>4 DEF Next, Drained, Tables

\* The legs of a stored row stay in one currency, because the atomic ledger
\* keeps them there.
LEMMA NextKeepsCurrency ==
  ASSUME TypeInv, BookInv, LegsShareCurrency, [Promise!SpecNext]_Promise!specVars
  PROVE  \A m \in Movements : movements'[m].state = "live" =>
           \A a, b \in Legs(movements'[m]) \union
                       (IF movements[m].state = "live" THEN Legs(movements[m]) ELSE {}) :
             SameCurrency(a, b)
<1> SUFFICES ASSUME NEW m \in Movements, movements'[m].state = "live"
             PROVE  \A a, b \in Legs(movements'[m]) \union
                       (IF movements[m].state = "live" THEN Legs(movements[m]) ELSE {}) :
                      SameCurrency(a, b)
  OBVIOUS
<1>1. CASE movements'[m] = movements[m]
  BY <1>1 DEF LegsShareCurrency
<1>2. CASE movements'[m] # movements[m]
  <2>1. PICK k \in Movements : \/ Promise!Post(k) \/ Promise!Move(k)
                               \/ Promise!Edit(k) \/ Promise!Remove(k)
    BY <1>2, SameNames DEF Promise!SpecNext, Promise!specVars, Promise!Open,
       Promise!Assert, Promise!Close
  <2>2. ASSUME NEW row, Promise!Record(k, row)
        PROVE  m = k /\ movements'[m] = row
    BY <1>2, <2>2 DEF Promise!Record, TypeInv, TypeOK
  <2>3. CASE Promise!Post(k)
    <3>1. PICK a \in Accounts, d \in Signed, n \in Amounts : Promise!Record(k, NewMovement(a, None, d, n))
      BY <2>3, SameNames DEF Promise!Post
    <3>2. m = k /\ movements[k].state = "unused"
      BY <2>2, <2>3, <3>1 DEF Promise!Post
    <3>3. Legs(movements'[m]) \subseteq {a}
      BY <2>2, <3>1 DEF Legs, NewMovement
    <3>4. QED
      BY <3>2, <3>3 DEF SameCurrency
  <2>4. CASE Promise!Move(k)
    <3>1. PICK a \in Accounts, b \in Accounts, n \in Amounts :
            /\ SameCurrency(a, b)
            /\ Promise!Record(k, NewMovement(a, b, "transfer", n))
      BY <2>4, SameNames DEF Promise!Move
    <3>2. m = k /\ movements[k].state = "unused"
      BY <2>2, <2>4, <3>1 DEF Promise!Move
    <3>3. Legs(movements'[m]) \subseteq {a, b}
      BY <2>2, <3>1 DEF Legs, NewMovement
    <3>4. QED
      BY <3>1, <3>2, <3>3 DEF SameCurrency
  <2>5. CASE Promise!Edit(k)
    <3>1. PICK a \in Accounts, d \in Signed,
               n \in Amounts \union {movements[k].amount} :
            /\ a # movements[k].account => SameCurrency(a, movements[k].account)
            /\ Promise!Record(k, NewMovement(a, None, d, n))
      BY <2>5, SameNames DEF Promise!Edit
    <3>2. m = k /\ movements[m].state = "live" /\ movements[m].dir # "transfer"
      BY <2>2, <2>5, <3>1 DEF Promise!Edit
    <3>3. Legs(movements[m]) \subseteq {movements[m].account}
      BY <3>2 DEF BookInv, LegsMatchDirection, Legs
    <3>4. Legs(movements'[m]) \subseteq {a}
      BY <2>2, <3>1 DEF Legs, NewMovement
    <3>5. SameCurrency(a, movements[m].account)
      BY <3>1, <3>2 DEF SameCurrency
    <3>6. QED
      BY <3>3, <3>4, <3>5 DEF SameCurrency
  <2>6. CASE Promise!Remove(k)
    <3>1. Promise!Record(k, DeletedMovement)
      BY <2>6, SameNames DEF Promise!Remove
    <3>2. movements'[m] = DeletedMovement
      BY <2>2, <3>1
    <3>3. QED
      BY <3>2 DEF DeletedMovement, NoMovement
  <2>7. QED
    BY <2>1, <2>3, <2>4, <2>5, <2>6
<1>3. QED
  BY <1>1, <1>2

\* The atomic ledger lands a movement only on an account that takes new ones.
LEMMA NextLandsOpen ==
  ASSUME TypeInv, [Promise!SpecNext]_Promise!specVars
  PROVE  \A m \in Movements : movements'[m].state = "live" =>
           LandsOn(m) \subseteq list_accounts
<1> SUFFICES ASSUME NEW m \in Movements, movements'[m].state = "live"
             PROVE  LandsOn(m) \subseteq list_accounts
  OBVIOUS
<1>1. CASE movements'[m] = movements[m]
  BY <1>1 DEF LandsOn
<1>2. CASE movements'[m] # movements[m]
  <2>0. \A a \in Accounts : Promise!TakesNew(a) => a \in list_accounts
    BY SameStatus DEF list_accounts, LiveAccounts
  <2>1. PICK k \in Movements : \/ Promise!Post(k) \/ Promise!Move(k)
                               \/ Promise!Edit(k) \/ Promise!Remove(k)
    BY <1>2, SameNames DEF Promise!SpecNext, Promise!specVars, Promise!Open,
       Promise!Assert, Promise!Close
  <2>2. ASSUME NEW row, Promise!Record(k, row)
        PROVE  m = k /\ movements'[m] = row
    BY <1>2, <2>2 DEF Promise!Record, TypeInv, TypeOK
  <2>3. CASE Promise!Post(k)
    <3>1. PICK a \in Accounts, d \in Signed, n \in Amounts : /\ Promise!TakesNew(a)
                                      /\ Promise!Record(k, NewMovement(a, None, d, n))
      BY <2>3, SameNames DEF Promise!Post
    <3>2. m = k /\ movements[k].state = "unused"
      BY <2>2, <2>3, <3>1 DEF Promise!Post
    <3>3. Legs(movements'[m]) \subseteq {a}
      BY <2>2, <3>1 DEF Legs, NewMovement
    <3>4. QED
      BY <2>0, <3>1, <3>2, <3>3 DEF LandsOn
  <2>4. CASE Promise!Move(k)
    <3>1. PICK a \in Accounts, b \in Accounts, n \in Amounts :
            /\ Promise!TakesNew(a) /\ Promise!TakesNew(b)
            /\ Promise!Record(k, NewMovement(a, b, "transfer", n))
      BY <2>4, SameNames DEF Promise!Move
    <3>2. m = k /\ movements[k].state = "unused"
      BY <2>2, <2>4, <3>1 DEF Promise!Move
    <3>3. Legs(movements'[m]) \subseteq {a, b}
      BY <2>2, <3>1 DEF Legs, NewMovement
    <3>4. QED
      BY <2>0, <3>1, <3>2, <3>3 DEF LandsOn
  <2>5. CASE Promise!Edit(k)
    <3>1. PICK a \in Accounts, d \in Signed,
               n \in Amounts \union {movements[k].amount} :
            /\ a # movements[k].account => Promise!TakesNew(a)
            /\ Promise!Record(k, NewMovement(a, None, d, n))
      BY <2>5, SameNames DEF Promise!Edit
    <3>2. m = k /\ movements[m].state = "live"
      BY <2>2, <2>5, <3>1 DEF Promise!Edit
    <3>3. movements[m].account \in Legs(movements[m])
      BY <3>2 DEF TypeInv, Books, Legs, Accounts, None
    <3>4. Legs(movements'[m]) \subseteq {a}
      BY <2>2, <3>1 DEF Legs, NewMovement
    <3>5. QED
      BY <2>0, <3>1, <3>2, <3>3, <3>4 DEF LandsOn
  <2>6. CASE Promise!Remove(k)
    <3>1. Promise!Record(k, DeletedMovement)
      BY <2>6, SameNames DEF Promise!Remove
    <3>2. movements'[m] = DeletedMovement
      BY <2>2, <3>1
    <3>3. QED
      BY <3>2 DEF DeletedMovement, NoMovement
  <2>7. QED
    BY <2>1, <2>3, <2>4, <2>5, <2>6
<1>3. QED
  BY <1>1, <1>2

-----------------------------------------------------------------------------
(* What a PATCH writes.                                                    *)

\* How a handler that is done leaves its request.
LEMMA FinishWrote ==
  ASSUME TypeInv, NEW r \in Requests, NEW pc, NEW reply, NEW wrote,
         Finish(r, pc, reply, wrote)
  PROVE  req'[r].wrote = wrote
BY DEF Finish, TypeInv, IdleRequest

\* Only a commit sets the history flag of a request.
LEMMA OnlyCommitsSetWrote ==
  ASSUME TypeInv, NEW r \in Requests, Start(r) \/ Step(r) \/ Timeout(r),
         ~ req[r].wrote, req'[r].wrote
  PROVE  Commits(r)
<1> DEFINE q == req[r]
<1>0. q \in Request /\ \A pc, reply : ~ Finish(r, pc, reply, FALSE)
  BY FinishWrote DEF TypeInv, Shaped
<1>1. ASSUME NEW pc PROVE ~ Goto(r, pc)
  BY <1>0 DEF Goto, TypeInv, Request
<1>2. CASE Start(r)
  <2>1. PICK s, refusal : Begins(r, s, refusal)
    BY <1>2, StartBegins
  <2>2. refusal = "none"
    BY <1>0, <2>1 DEF Begins, Begin
  <2> DEFINE S == LockSet(s)
             p == [s EXCEPT !.todo = S, !.attempt = 1]
  <2>3. /\ req'[r] = p /\ s \in Request /\ s \in Answered
        /\ s.pc \in {"locking", "counting"}
    BY <2>1, <2>2 DEF Begins, Begin, Shaped, TypeInv
  <2> HIDE DEF S
  <2>4. p.wrote = s.wrote
    BY <2>3 DEF Request
  <2> HIDE DEF p
  <2>5. QED
    BY <2>3, <2>4 DEF Answered
<1>3. CASE LockAccount(r)
  <2> DEFINE todo == q.todo \ {NextToLock(q)}
             pc == IF q.todo = {NextToLock(q)} THEN "locked" ELSE "locking"
  <2>1. req' = [req EXCEPT ![r].todo = todo, ![r].pc = pc]
    BY <1>0, <1>3 DEF LockAccount, Abort, TypeInv
  <2> HIDE DEF todo, pc
  <2>2. QED
    BY <1>0, <2>1 DEF TypeInv, Request
<1>4. CASE LockMovement(r) \/ MovedUnderUs(r)
  <2> DEFINE row == IF LockMovement(r) THEN movements[q.mov] ELSE NoMovement
             pc == IF LockMovement(r) THEN "rowLocked" ELSE "refreshing"
  <2>1. req' = [req EXCEPT ![r].pc = pc, ![r].row = row]
    <3>1. LockMovement(r) =>
            req' = [req EXCEPT ![r].pc = "rowLocked", ![r].row = movements[q.mov]]
      BY <1>0 DEF LockMovement, Abort
    <3>2. MovedUnderUs(r) =>
            req' = [req EXCEPT ![r].pc = "refreshing", ![r].row = NoMovement]
      BY DEF MovedUnderUs
    <3>3. QED
      BY <1>4, <3>1, <3>2
  <2> HIDE DEF row, pc
  <2>2. QED
    BY <1>0, <2>1 DEF TypeInv, Request
<1>5. CASE RefreshSnapshot(r)
  <2> DEFINE next == [q EXCEPT !.snap = movements[q.mov]]
             S == LockSet(next)
             p == [next EXCEPT !.pc = "locking", !.todo = S, !.attempt = @ + 1]
  <2>1. req' = [req EXCEPT ![r] = p]
    BY <1>0, <1>5 DEF RefreshSnapshot, GiveUp
  <2> HIDE DEF S
  <2>2. p.wrote = q.wrote
    BY <1>0 DEF Request
  <2>3. QED
    BY <2>1, <2>2 DEF TypeInv
<1>6. CASE GateCreate(r) \/ GateTransfer(r) \/ GatePatch(r) \/ CountMovements(r)
           \/ LockClosing(r)
  BY <1>0, <1>1, <1>6 DEF GateCreate, GateTransfer, GatePatch, CountMovements,
     LockClosing, Abort
<1>7. CASE Rollback(r) \/ Respond(r)
  BY <1>7 DEF Rollback, Respond, TypeInv, IdleRequest
<1>8. CASE Timeout(r)
  <2>1. req' = [req EXCEPT ![r].reply = "504"]
    BY <1>0, <1>8 DEF Timeout
  <2>2. QED
    BY <1>0, <2>1 DEF TypeInv, Request
<1>9. QED
  BY <1>2, <1>3, <1>4, <1>5, <1>6, <1>7, <1>8 DEF Step, Commits

\* A PATCH that writes merges what it was sent into the row as it is stored.
LEMMA PatchKeepsOmitted ==
  ASSUME TypeInv, LockInv, NEW r \in Requests, [Next]_vars,
         req[r].op = "patch", ~ req[r].wrote, req'[r].wrote
  PROVE  LET old == movements[req[r].mov]
             new == movements'[req[r].mov]
         IN  /\ req[r].acct = None => new.account = old.account
             /\ req[r].dir = "keep" => new.dir = old.dir
             /\ req[r].amt = 0 => new.amount = old.amount
<1> DEFINE q == req[r]
<1>1. Start(r) \/ Step(r) \/ Timeout(r)
  <2>1. req' # req
    OBVIOUS
  <2>2. PICK s \in Requests : Start(s) \/ Step(s) \/ Timeout(s)
    BY <2>1 DEF Next, Drained, vars, CreateAccount, PatchAccount
  <2>3. CASE s = r
    BY <2>2, <2>3
  <2>4. CASE s # r
    <3>1. PICK p : req' = [req EXCEPT ![s] = p]
      BY <2>2, StepChangesOne
    <3>2. QED
      BY <2>4, <3>1 DEF TypeInv
  <2>5. QED
    BY <2>3, <2>4
<1>2. CommitPatch(r)
  BY <1>1, OnlyCommitsSetWrote DEF Commits, CommitCreate, CommitTransfer,
     CommitDelete, CommitClose, TypeInv, Shaped
<1>3. /\ movements' = [movements EXCEPT ![q.mov] = Merged(q)]
      /\ q.mov \in Movements /\ q.pc = "gated"
  <2>1. ~ Finish(r, "aborting", "500", FALSE) /\ ~ Finish(r, "aborting", "422", FALSE)
    BY FinishWrote
  <2>2. QED
    BY <1>2, <2>1 DEF CommitPatch, Commit, Refused, Abort, TypeInv, Shaped
<1>4. q.row = movements[q.mov] /\ q.row.account = q.snap.account
  BY <1>3 DEF LockInv, Secured
<1>5. movements'[q.mov] = Merged(q)
  BY <1>3 DEF TypeInv, TypeOK
<1>6. QED
  BY <1>4, <1>5 DEF Merged, NewMovement, Target

-----------------------------------------------------------------------------
(* The invariant of the ledger, and what follows from it.                  *)

\* LedgerInv, as the conjunction of what the lemmas above keep.
Inductive ==
  /\ TypeInv /\ LockInv /\ BookInv
  /\ AnswerInv /\ OrderInv /\ ClearedInv
  /\ LegsShareCurrency /\ UnopenedListed

LEMMA InitInductive == Init => Inductive
<1>1. Init => LegsShareCurrency
  BY StoredAssumption DEF Init, LegsShareCurrency
<1>2. Init => UnopenedListed
  BY DEF Init, UnopenedListed, OpenAccount, NoAccountRow
<1>3. QED
  BY <1>1, <1>2, InitType, InitSecures, InitBook, InitAnswers, InitOrder, InitClears
  DEF Inductive

LEMMA NextInductive == Inductive /\ [Next]_vars => Inductive'
<1> SUFFICES ASSUME Inductive, [Next]_vars PROVE Inductive'
  OBVIOUS
<1>1. /\ TypeInv /\ LockInv /\ BookInv /\ AnswerInv /\ OrderInv /\ ClearedInv
      /\ LegsShareCurrency /\ UnopenedListed
  BY DEF Inductive
<1>2. LegsShareCurrency'
  <2>1. [Promise!SpecNext]_Promise!specVars
    BY <1>1, StepRefines
  <2>2. QED
    BY <1>1, <2>1, NextKeepsCurrency DEF LegsShareCurrency
<1>3. QED
  BY <1>1, <1>2, NextType, NextSecures, NextKeepsBook, NextAnswers, NextKeepsOrder,
     NextClears, NextKeepsUnopened DEF Inductive

LEMMA AlwaysInductive == Spec => []Inductive
BY InitInductive, NextInductive, PTL DEF Spec

(* The whole invariant of the ledger holds in every state the handlers can  *)
(* reach together: the core, what requests answer, who owns which locks in  *)
(* which order, and what the gates found.                                   *)
THEOREM LedgerInvariantHolds == Spec => []LedgerInv
<1>1. Inductive => LedgerInv
  BY DEF Inductive, LedgerInv, LedgerCore, BookInv, GateInv, ClearedInv
<1>2. QED
  BY <1>1, AlwaysInductive, PTL

(* The handlers implement the atomic ledger: each commit is one of its      *)
(* steps on the tables as they are at that commit, every other statement    *)
(* none.                                                                    *)
THEOREM HandlersRefine == Spec => ImplementsAtomicLedger
<1>1. Inductive /\ [Next]_vars => [Promise!SpecNext]_Promise!specVars
  BY StepRefines DEF Inductive
<1>2. QED
  BY <1>1, InitRefines, AlwaysInductive, PTL
  DEF Spec, ImplementsAtomicLedger, Promise!AtomicLedger

(* No movement is created on, transferred to or from, or re-pointed to an   *)
(* account that is not listed when it is committed.                         *)
THEOREM ClosedStaysClosed == Spec => ArchivedAccountsStayClosed
<1>1. Inductive /\ [Next]_vars =>
        \A m \in Movements : movements'[m].state = "live" =>
          LandsOn(m) \subseteq list_accounts
  BY StepRefines, NextLandsOpen DEF Inductive
<1>2. QED
  BY <1>1, AlwaysInductive, PTL DEF Spec, ArchivedAccountsStayClosed

(* A stored amount is never re-denominated.                                 *)
THEOREM CurrencyStays == Spec => AmountsKeepTheirCurrency
<1>1. Inductive /\ [Next]_vars =>
        \A m \in Movements : movements'[m].state = "live" =>
          \A a, b \in Legs(movements'[m]) \union
                      (IF movements[m].state = "live" THEN Legs(movements[m]) ELSE {}) :
            SameCurrency(a, b)
  BY StepRefines, NextKeepsCurrency DEF Inductive
<1>2. QED
  BY <1>1, AlwaysInductive, PTL DEF Spec, AmountsKeepTheirCurrency

(* A PATCH changes the fields it sends and no other.                        *)
THEOREM OmittedStays == Spec => OmittedFieldsKept
<1>1. Inductive /\ [Next]_vars =>
        \A r \in Requests :
          req[r].op = "patch" /\ ~req[r].wrote /\ req'[r].wrote =>
            LET old == movements[req[r].mov]
                new == movements'[req[r].mov]
            IN  /\ req[r].acct = None => new.account = old.account
                /\ req[r].dir = "keep" => new.dir = old.dir
                /\ req[r].amt = 0 => new.amount = old.amount
  BY PatchKeepsOmitted DEF Inductive
<1>2. QED
  BY <1>1, AlwaysInductive, PTL DEF Spec, OmittedFieldsKept
==============================================================================
