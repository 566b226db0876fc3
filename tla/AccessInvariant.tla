--------------------------- MODULE AccessInvariant ---------------------------
(***************************************************************************)
(* Why the properties of Access hold: an inductive invariant.  It says     *)
(* what a handler knows at each of its steps, that a session whose logout  *)
(* is under way or answered cannot come back, and which entries of the     *)
(* mint table stand for which tokens and creates.                          *)
(***************************************************************************)
EXTENDS Access

\* Rows belong to users, and a token says when its slot was taken.
RowsInv ==
  /\ \A s \in Sessions : sessions[s].state # "unused" => sessions[s].user \in Users
  /\ \A k \in Tokens : tokens[k].state # "unused" =>
       tokens[k].user \in Users /\ tokens[k].minted \in Instants

\* The token that a create has inserted and not yet answered for.
Inserted(r) ==
  LET q == req[r]
  IN  /\ q.new \in Tokens
      /\ tokens[q.new].state # "unused" /\ ~tokens[q.new].lost
      /\ tokens[q.new].user = q.account /\ tokens[q.new].minted = q.at

\* What a handler knows at each of its steps.
Knows(r) ==
  LET q == req[r]
  IN  /\ q.pc \in Trying \union {"inserting", "inserted"} => q.op = "login"
      /\ q.pc \in Trying => q.ip \in Ips /\ q.account \in Accounts
      /\ q.pc \in {"inserting", "inserted"} => q.account \in Users
      /\ q.pc \in {"reserving", "minting", "minted"} => q.account \in Users
      /\ q.pc = "reserving" => q.op = "mint"
      /\ q.pc = "refused" => \/ q.op = "login" /\ q.ip \in Ips /\ q.account \in Accounts
                             \/ q.op = "mint" /\ q.account \in Users
      /\ q.pc \in {"minting", "minted"} => q.at \in Instants
      /\ q.pc = "minted" => Inserted(r)
      /\ q.pc \in {"leaving", "counting"} =>
           q.cred \in Sessions /\ sessions[q.cred].state # "unused"
      /\ q.pc = "counting" => ~SessionValid(q.cred)
      /\ q.pc = "touching" => q.cred \in Tokens /\ tokens[q.cred].state # "unused"
      /\ q.pc \in {"touching", "acting"} /\ q.op = "revoke" =>
           q.new \in Tokens /\ tokens[q.new].state # "unused"

\* A logout that was answered is of a stored session that is no longer valid.
LoggedOutInv ==
  \A s \in loggedOut : sessions[s].state # "unused" /\ ~SessionValid(s)

\* Two creates never have the same token.
MintedApart ==
  \A r, q \in Requests :
    req[r].pc = "minted" /\ req[q].pc = "minted" /\ req[r].new = req[q].new => r = q

\* What the slots a user took at instant t have become: tokens, or creates that
\* have not inserted theirs yet.
TokensOf(u, t) == {k \in list_tokens(u) : ~tokens[k].lost /\ tokens[k].minted = t}
CreatesOf(u, t) ==
  {r \in Requests : req[r].pc = "minting" /\ req[r].account = u /\ req[r].at = t}
Slots(u, t) == Cardinality(TokensOf(u, t)) + Cardinality(CreatesOf(u, t))
\* The entries of every instant that still counts are numbered without a gap.
Numbered(t, n) == {t} \X (1 .. n)
SlotsInv ==
  \A u \in Users, t \in Instants : now - t < TokenMintWindow =>
    At(byMinter[u], t) = Numbered(t, Slots(u, t))

\* As long as there is room for every user in the table of minters, none of them
\* is evicted and can mint beyond the budget.
MintersFit == IsFiniteSet(Users) /\ Cardinality(Users) <= MaxKeys

\* No entry is of an instant that is still to come.
NoneAhead ==
  /\ \A i \in Ips : \A e \in byIp[i] : e[1] <= now
  /\ \A a \in Accounts : \A e \in byAccount[a] : e[1] <= now
  /\ \A u \in Users : \A e \in byMinter[u] : e[1] <= now

\* The inductive invariant of Access.
AccessInv ==
  /\ TypeOK /\ RowsInv
  /\ \A r \in Requests : Knows(r)
  /\ LoggedOutInv /\ MintedApart /\ NoneAhead
  /\ MintersFit => SlotsInv /\ MintBudgetIsExact
==============================================================================
