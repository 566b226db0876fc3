-------------------------------- MODULE Access --------------------------------
(***************************************************************************)
(* Who may call: login with its rate limiter, sessions, personal API       *)
(* tokens and their mint budget (routes/login.rs, logout.rs, sessions.rs,  *)
(* tokens.rs, auth/).  The limiter lives in the memory of the process and  *)
(* is updated under one mutex; users, sessions and tokens are rows, read   *)
(* and written by autocommit statements between which anything may happen, *)
(* the handler being dropped by the request timeout included.              *)
(***************************************************************************)
EXTENDS RateLimiter, Sequences

CONSTANTS
  Accounts,     \* normalised e-mails: of users, and of nobody
  Users,        \* those that have a user row
  Spellings,    \* what clients type as e-mail
  AccountOf,    \* Spellings -> Accounts: trimmed, lower case (CITEXT)
  Width,        \* addresses have this many bits
  Clients,      \* the addresses of clients
  Proxies,      \* TRUSTED_PROXIES: blocks [addr, prefix] of addresses
  Prefixes,     \* what a client writes into X-Forwarded-For itself
  Local,        \* LOCAL_PEER_FALLBACK
  Sessions, Tokens, Names,  \* ids of rows, names of tokens
  Requests,
  None,
  MaxFailures,  \* budget per address
  MaxAccountFailures,       \* budget per account
  Window, MaxKeys,
  MaxTokenMints, TokenMintWindow,
  Second,       \* ticks of the clock in a second
  Lifetimes,    \* how long sessions live: the default and "remember me"
  TouchEvery,   \* last_used_at is written once in this time
  Dawn, Horizon, \* bound: the first and the last instant
  Past,         \* what the tables of addresses and accounts may start with
  MaxRequests   \* bound: how many requests are started in all

ASSUME AccessAssumption ==
  /\ Users \subseteq Accounts /\ AccountOf \in [Spellings -> Accounts]
  /\ {MaxFailures, MaxAccountFailures, MaxKeys, MaxTokenMints} \subseteq Nat \ {0}
  /\ {Window, TokenMintWindow, TouchEvery, Second} \subseteq Nat \ {0}
  /\ Second <= Window /\ Second <= TokenMintWindow
  /\ Lifetimes \subseteq Nat /\ Horizon \in Nat /\ MaxRequests \in Nat
  /\ Dawn \in 0 .. Horizon
  /\ IsFiniteSet(Requests) /\ Requests # {} /\ IsFiniteSet(Tokens)
  /\ Sessions \intersect Tokens = {}
  /\ None \notin Accounts \union Sessions \union Tokens \union Nat

\* One entry of TRUSTED_PROXIES: an address, or a block of them.
TrustedProxy == [addr : 0 .. 2 ^ Width - 1, prefix : 0 .. Width]
\* TrustedProxy::contains: the address agrees with the block in its prefix.
contains(proxy, candidate) ==
  LET mask == 2 ^ (Width - proxy.prefix)
  IN  proxy.addr \div mask = candidate \div mask
Trusted == {i \in 0 .. 2 ^ Width - 1 : \E proxy \in Proxies : contains(proxy, i)}
Ips == Clients \union Trusted \union {Local}
ASSUME AddressAssumption ==
  /\ Width \in Nat
  /\ Proxies \subseteq TrustedProxy
  /\ Clients \intersect Trusted = {} /\ Local \notin Clients \union Trusted
  /\ Clients \union {Local} \subseteq Nat /\ Prefixes \subseteq Seq(Nat)

Instants == 0 .. Horizon
Entries == Instants \X (Nat \ {0})

\* The buckets of a table are finite, and so are its keys, up to the ceiling.
WithinCeiling(table) ==
  /\ \A k \in DOMAIN table : IsFiniteSet(table[k])
  /\ IsFiniteSet(Kept(table)) /\ Cardinality(Kept(table)) <= MaxKeys
\* Tables within their budgets and their ceiling: what attempts made one after
\* the other, and not later than Dawn, leave behind.
ASSUME PastAssumption ==
  \A tables \in Past :
    /\ tables.ip \in [Ips -> SUBSET Entries]
    /\ tables.account \in [Accounts -> SUBSET Entries]
    /\ WithinCeiling(tables.ip) /\ WithinCeiling(tables.account)
    /\ \A i \in Ips : \A e \in tables.ip[i] : e[1] <= Dawn
    /\ \A a \in Accounts : \A e \in tables.account[a] : e[1] <= Dawn
    /\ \A i \in Ips : Cardinality(tables.ip[i]) <= MaxFailures
    /\ \A a \in Accounts : Cardinality(tables.account[a]) <= MaxAccountFailures

VARIABLES
  now,         \* the clock
  byIp, byAccount, byMinter,  \* the tables of the limiter
  active,      \* users.is_active
  sessions, tokens,           \* the rows
  loggedOut,   \* history: the sessions whose logout was answered 204
  req,         \* each request: its handler and how far it got
  started

vars == <<now, byIp, byAccount, byMinter, active, sessions, tokens, loggedOut,
          req, started>>
limiter == <<byIp, byAccount, byMinter>>
rows == <<active, sessions, tokens, loggedOut>>

Session == [state : {"unused", "live", "revoked"}, user : Users \union {None},
            expires : Nat]
\* minted: history, the instant its slot was reserved; lost: history, whether
\* the limiter no longer counts it although it was created.
Token == [state : {"unused", "live", "revoked"}, user : Users \union {None},
          name : Names \union {None}, used : Instants \union {None},
          minted : Instants \union {None}, lost : BOOLEAN]
NoSession == [state |-> "unused", user |-> None, expires |-> 0]
NoToken == [state |-> "unused", user |-> None, name |-> None, used |-> None,
            minted |-> None, lost |-> FALSE]

Pcs == {"idle", "selecting", "failing", "inserting", "inserted",
        "reserving", "minting", "minted", "leaving", "counting",
        "touching", "acting", "refused"}
Request == [pc : Pcs, op : {"none", "login", "mint", "logout", "others", "revoke"},
            from : Ips \union {None}, ip : Ips \union {None},
            account : Accounts \union {None},
            cred : Sessions \union Tokens \union {None},
            new : Sessions \union Tokens \union {None},
            name : Names \union {None}, at : Instants \union {None},
            retry : Nat \union {None}]  \* the Retry-After of its 429
IdleRequest == [pc |-> "idle", op |-> "none", from |-> None, ip |-> None,
                account |-> None, cred |-> None, new |-> None, name |-> None,
                at |-> None, retry |-> None]

SessionValid(s) ==
  /\ sessions[s].state = "live" /\ sessions[s].expires > now
  /\ active[sessions[s].user]
\* Tokens are minted with a lifetime of days; within the horizon none expires.
TokenValid(k) == tokens[k].state = "live" /\ active[tokens[k].user]

\* gen_random_uuid() never repeats an id; which one it is says nothing.
Fresh(table) == {i \in DOMAIN table : table[i].state = "unused"}
NewId(table) == CHOOSE i \in Fresh(table) : TRUE

Start(r, q) ==
  /\ req[r].pc = "idle" /\ started < MaxRequests
  /\ started' = started + 1
  /\ req' = [req EXCEPT ![r] = q]
Continue(r, pc) == req' = [req EXCEPT ![r].pc = pc] /\ UNCHANGED started
Answer(r) == req' = [req EXCEPT ![r] = IdleRequest] /\ UNCHANGED started

-----------------------------------------------------------------------------
(* POST /login.                                                            *)

\* The right-most element of the header that is an address and no trusted proxy,
\* if the peer is one and if the element it appended is an address at all.
Foreign(header) == {i \in 1 .. Len(header) : header[i] \in Ips \ Trusted}
\* Mutant: the header is read from the left.
LeftmostForwarded(peer, header) ==
  IF peer = None THEN Local
  ELSE IF peer \notin Trusted \/ header = <<>> \/ Foreign(header) = {} THEN peer
  ELSE header[CHOOSE i \in Foreign(header) : \A j \in Foreign(header) : i <= j]
rate_limit_key(peer, header) ==
  IF peer = None THEN Local
  ELSE IF \/ peer \notin Trusted
          \/ header = <<>> \/ header[Len(header)] \notin Ips
          \/ Foreign(header) = {} THEN peer
  ELSE header[CHOOSE i \in Foreign(header) : \A j \in Foreign(header) : i >= j]

\* How a request of a client arrives: directly, through one proxy or a chain of
\* them, each of which appends its peer; or without a known peer.
Arrivals(from) ==
  IF from = Local THEN {<<None, <<>>>>}
  ELSE {<<from, prefix>> : prefix \in Prefixes}
         \union {<<p, Append(prefix, from)>> : p \in Trusted, prefix \in Prefixes}
         \union {<<p, Append(Append(prefix, from), q)>> :
                   p \in Trusted, q \in Trusted, prefix \in Prefixes}
\* The keys under which the limiter may come to charge it.
ChargedAs == [from \in Clients \union {Local} |->
                {rate_limit_key(arrival[1], arrival[2]) : arrival \in Arrivals(from)}]

IpWait(ip) == blocked_for(prune(byIp, Window, now)[ip], MaxFailures, Window, now)
AccountWait(account) ==
  blocked_for(prune(byAccount, Window, now)[account], MaxAccountFailures, Window, now)
\* Mutant: the gate looks at the account only.
CheckAccount(ip, account) == AccountWait(account)
\* check_login: the waits of the buckets without room; none when both have room.
\* It prunes and records nothing.
check_login(ip, account) == IpWait(ip) \union AccountWait(account)

\* Mutant: the first wait that is over, instead of the last.
Shortest(waits) == CHOOSE w \in waits : \A v \in waits : w <= v
Longest(waits)  == CHOOSE w \in waits : \A v \in waits : w >= v
\* as_secs().max(1): whole seconds, less than one counting as one.
retry_after(waits) ==
  LET secs == Longest(waits) \div Second IN IF secs >= 1 THEN secs ELSE 1

PruneLogins ==
  /\ byIp' = prune(byIp, Window, now)
  /\ byAccount' = prune(byAccount, Window, now)
  /\ UNCHANGED byMinter

Login(r) ==
  \E from \in Clients \union {Local}, typed \in Spellings :
    \E ip \in ChargedAs[from] :
      LET waits   == check_login(ip, AccountOf[typed])
          attempt == [IdleRequest EXCEPT !.op = "login", !.from = from, !.ip = ip,
                                         !.account = AccountOf[typed]]
      IN  /\ PruneLogins
          /\ Start(r, IF waits = {} THEN [attempt EXCEPT !.pc = "selecting"]
                      ELSE [attempt EXCEPT !.pc = "refused",
                                           !.retry = retry_after(waits)])
          /\ UNCHANGED <<now, rows>>

\* The 429 goes out with its Retry-After.
Refuse(r) ==
  /\ req[r].pc = "refused"
  /\ Answer(r)
  /\ UNCHANGED <<now, limiter, rows>>

\* verify_password: the password is the user's or not; it never errs.
PasswordFits == BOOLEAN
\* verify_credentials: one Argon2 run whatever was found, then is_active.
verify_credentials(account, fits) == fits /\ account \in Users /\ active[account]

\* The user row is read and the password verified.
Verify(r) ==
  /\ req[r].pc = "selecting"
  /\ \E fits \in PasswordFits :
       Continue(r, IF verify_credentials(req[r].account, fits) THEN "inserting"
                   ELSE "failing")
  /\ UNCHANGED <<now, limiter, rows>>

\* record_failure, then 401.
RecordFailure(r) ==
  /\ req[r].pc = "failing"
  /\ \E ips \in bound_keys(prune(byIp, Window, now), req[r].ip, MaxFailures, MaxKeys),
        accounts \in bound_keys(prune(byAccount, Window, now), req[r].account,
                                MaxAccountFailures, MaxKeys) :
       /\ byIp' = Push(ips, req[r].ip, now)
       /\ byAccount' = Push(accounts, req[r].account, now)
  /\ Answer(r)
  /\ UNCHANGED <<now, byMinter, rows>>

InsertSession(r) ==
  /\ req[r].pc = "inserting"
  /\ Fresh(sessions) # {}
  /\ \E ttl \in Lifetimes :
       sessions' = [sessions EXCEPT ![NewId(sessions)] =
         [state |-> "live", user |-> req[r].account, expires |-> now + ttl]]
  /\ Continue(r, "inserted")
  /\ UNCHANGED <<now, limiter, active, tokens, loggedOut>>

record_success(r) ==
  /\ byAccount' = [prune(byAccount, Window, now) EXCEPT ![req[r].account] = {}]
  /\ UNCHANGED <<byIp, byMinter>>
LoggedIn(r) ==
  /\ req[r].pc = "inserted"
  /\ record_success(r)
  /\ Answer(r)
  /\ UNCHANGED <<now, rows>>

-----------------------------------------------------------------------------
(* POST /tokens: only a session may mint.                                  *)

BeginMint(r) ==
  \E s \in Sessions, n \in Names :
    /\ SessionValid(s)
    /\ Start(r, [IdleRequest EXCEPT !.pc = "reserving", !.op = "mint", !.cred = s,
                   !.account = sessions[s].user, !.name = n])
    /\ UNCHANGED <<now, limiter, rows>>

\* reserve_token_mint: the wait when the user's budget is used up, else the
\* tables in which the slot is taken.
MintWait(u) == blocked_for(prune(byMinter, TokenMintWindow, now)[u], MaxTokenMints,
                           TokenMintWindow, now)
Reserved(u) ==
  {Push(t, u, now) : t \in bound_keys(prune(byMinter, TokenMintWindow, now), u,
                                      MaxTokenMints, MaxKeys)}

Reserve(r) ==
  LET u == req[r].account
  IN  /\ req[r].pc = "reserving"
      /\ IF MintWait(u) = {}
         THEN /\ byMinter' \in Reserved(u)
              /\ req' = [req EXCEPT ![r].pc = "minting", ![r].at = now]
         ELSE /\ byMinter' = prune(byMinter, TokenMintWindow, now)
              /\ req' = [req EXCEPT ![r].pc = "refused",
                                    ![r].retry = retry_after(MintWait(u))]
      /\ UNCHANGED <<now, byIp, byAccount, rows, started>>

\* release_token_mint: the slot of a reservation dropped uncommitted.
Release(r) ==
  /\ byMinter' = Pop(prune(byMinter, TokenMintWindow, now), req[r].account, req[r].at)
  /\ UNCHANGED <<byIp, byAccount>>

NameTaken(u, n) ==
  \E k \in Tokens : tokens[k].state # "unused" /\ tokens[k].user = u
                    /\ tokens[k].name = n
InsertToken(r) ==
  /\ req[r].pc = "minting"
  /\ IF NameTaken(req[r].account, req[r].name)
     THEN Release(r) /\ Answer(r) /\ UNCHANGED tokens
     ELSE /\ Fresh(tokens) # {}
          /\ tokens' = [tokens EXCEPT ![NewId(tokens)] =
               [NoToken EXCEPT !.state = "live", !.user = req[r].account,
                               !.name = req[r].name, !.minted = req[r].at]]
          /\ req' = [req EXCEPT ![r].pc = "minted", ![r].new = NewId(tokens)]
          /\ UNCHANGED <<limiter, started>>
  /\ UNCHANGED <<now, active, sessions, loggedOut>>

\* Mutant: the reservation is dropped before it is committed.
CommitForgotten(r) == Release(r)
\* reservation.commit(): the slot stays taken.
commit(r) == UNCHANGED limiter
Minted(r) ==
  /\ req[r].pc = "minted"
  /\ commit(r)
  /\ Answer(r)
  /\ UNCHANGED <<now, rows>>

-----------------------------------------------------------------------------
(* POST /logout and DELETE /sessions.                                      *)

\* A client has only tokens it was given; any other is a 401.
Logout(r) ==
  \E s \in Sessions \ Fresh(sessions) :
    /\ Start(r, [IdleRequest EXCEPT !.pc = "leaving", !.op = "logout", !.cred = s])
    /\ UNCHANGED <<now, limiter, rows>>

\* Mutant: a revoked session is left to expire.
ExpireRows(S) ==
  sessions' = [s \in Sessions |-> IF s \in S THEN [sessions[s] EXCEPT !.expires = now + 1]
                                  ELSE sessions[s]]
RevokeRows(S) ==
  sessions' = [s \in Sessions |-> IF s \in S THEN [sessions[s] EXCEPT !.state = "revoked"]
                                  ELSE sessions[s]]
Revoke(r) ==
  /\ req[r].pc = "leaving"
  /\ IF SessionValid(req[r].cred)
     THEN /\ RevokeRows({req[r].cred})
          /\ loggedOut' = loggedOut \union {req[r].cred}
          /\ Answer(r)
     ELSE Continue(r, "counting") /\ UNCHANGED <<sessions, loggedOut>>
  /\ UNCHANGED <<now, limiter, active, tokens>>

\* 204 again for a session that is revoked or expired, of an active user.
CountsSession(s) == sessions[s].state # "unused" /\ active[sessions[s].user]
CountSessions(r) ==
  /\ req[r].pc = "counting"
  /\ loggedOut' = IF CountsSession(req[r].cred) THEN loggedOut \union {req[r].cred}
                  ELSE loggedOut
  /\ Answer(r)
  /\ UNCHANGED <<now, limiter, active, sessions, tokens>>

\* LIST_SESSIONS_SQL: the sessions a user sees and can revoke.
Listed(u) == {s \in Sessions : /\ sessions[s].state = "live" /\ sessions[s].user = u
                               /\ sessions[s].expires > now}

\* require_session_user_id, then the statement.
BeginOthers(r) ==
  \E s \in Sessions :
    /\ SessionValid(s)
    /\ Start(r, [IdleRequest EXCEPT !.pc = "acting", !.op = "others", !.cred = s,
                   !.account = sessions[s].user])
    /\ UNCHANGED <<now, limiter, rows>>
\* REVOKE_OTHER_SESSIONS_SQL
OthersOf(r) == Listed(req[r].account) \ {req[r].cred}
RevokeOthers(r) ==
  /\ req[r].pc = "acting" /\ req[r].op = "others"
  /\ RevokeRows(OthersOf(r))
  /\ Answer(r)
  /\ UNCHANGED <<now, limiter, active, tokens, loggedOut>>

-----------------------------------------------------------------------------
(* resolve_token_user_id and DELETE /tokens/{id}.                          *)

\* A session is looked up first; only a token that matches is touched.
BeginRevoke(r) ==
  \E c \in Sessions \union Tokens, k \in Tokens \ Fresh(tokens) :
    /\ \/ c \in Sessions /\ SessionValid(c)
       \/ c \in Tokens /\ TokenValid(c)
    /\ Start(r, [IdleRequest EXCEPT !.pc = IF c \in Sessions THEN "acting" ELSE "touching",
                   !.op = "revoke", !.cred = c, !.new = k,
                   !.account = IF c \in Sessions THEN sessions[c].user
                               ELSE tokens[c].user])
    /\ UNCHANGED <<now, limiter, rows>>

\* API_TOKEN_TOUCH_SQL: a missing or old stamp is renewed.
Touched(k) ==
  IF tokens[k].used = None \/ now - tokens[k].used > TouchEvery THEN now
  ELSE tokens[k].used
Touch(r) ==
  /\ req[r].pc = "touching"
  /\ tokens' = [tokens EXCEPT ![req[r].cred].used = Touched(req[r].cred)]
  /\ Continue(r, "acting")
  /\ UNCHANGED <<now, limiter, active, sessions, loggedOut>>

\* A token of the caller is revoked, again if need be; another's is a 404.
\* GET /tokens lists revoked tokens as well.
list_tokens(u) == {k \in Tokens : tokens[k].state # "unused" /\ tokens[k].user = u}

RevokeToken(r) ==
  /\ req[r].pc = "acting" /\ req[r].op = "revoke"
  /\ tokens' = [tokens EXCEPT ![req[r].new].state =
                  IF tokens[req[r].new].user = req[r].account THEN "revoked" ELSE @]
  /\ Answer(r)
  /\ UNCHANGED <<now, limiter, active, sessions, loggedOut>>

-----------------------------------------------------------------------------
(* The clock, the request timeout, the operator, the process.              *)

Tick ==
  /\ now < Horizon
  /\ now' = now + 1
  /\ UNCHANGED <<limiter, rows, req, started>>

\* A handler dropped while it waits; a reservation it holds is released, also
\* when its INSERT has been executed.
Timeout(r) ==
  /\ req[r].pc \notin {"idle", "refused"}
  /\ IF req[r].pc \in {"minting", "minted"} THEN Release(r) ELSE UNCHANGED limiter
  /\ tokens' = IF req[r].pc = "minted" THEN [tokens EXCEPT ![req[r].new].lost = TRUE]
               ELSE tokens
  /\ Answer(r)
  /\ UNCHANGED <<now, active, sessions, loggedOut>>

Deactivate(u) ==
  /\ active[u]
  /\ active' = [active EXCEPT ![u] = FALSE]
  /\ UNCHANGED <<now, limiter, sessions, tokens, loggedOut, req, started>>

\* The limiter does not survive the process, nor do the handlers.
Restart ==
  /\ byIp' = [i \in Ips |-> {}]
  /\ byAccount' = [a \in Accounts |-> {}]
  /\ byMinter' = [u \in Users |-> {}]
  /\ tokens' = [k \in Tokens |-> IF tokens[k].minted = None THEN tokens[k]
                                 ELSE [tokens[k] EXCEPT !.lost = TRUE]]
  /\ req' = [r \in Requests |-> IdleRequest]
  /\ UNCHANGED <<now, active, sessions, loggedOut, started>>

Init ==
  /\ now = Dawn
  /\ \E tables \in Past : byIp = tables.ip /\ byAccount = tables.account
  /\ byMinter = [u \in Users |-> {}]
  /\ active = [u \in Users |-> TRUE]
  /\ sessions = [s \in Sessions |-> NoSession]
  /\ tokens = [k \in Tokens |-> NoToken]
  /\ loggedOut = {}
  /\ req = [r \in Requests |-> IdleRequest]
  /\ started = 0

Step(r) ==
  \/ Login(r) \/ Refuse(r) \/ Verify(r) \/ RecordFailure(r) \/ InsertSession(r) \/ LoggedIn(r)
  \/ BeginMint(r) \/ Reserve(r) \/ InsertToken(r) \/ Minted(r)
  \/ Logout(r) \/ Revoke(r) \/ CountSessions(r) \/ BeginOthers(r) \/ RevokeOthers(r)
  \/ BeginRevoke(r) \/ Touch(r) \/ RevokeToken(r)
  \/ Timeout(r)
Next ==
  \/ \E r \in Requests : Step(r)
  \/ \E u \in Users : Deactivate(u)
  \/ Tick \/ Restart

Spec == Init /\ [][Next]_vars

-----------------------------------------------------------------------------
(* Properties.                                                             *)

\* Buckets, rows and handlers have the shape the code gives them and, whatever
\* addresses and e-mails are tried, no table of the limiter outgrows MAX_KEYS.
TypeOK ==
  /\ now \in Instants
  /\ byIp \in [Ips -> SUBSET Entries]
  /\ byAccount \in [Accounts -> SUBSET Entries]
  /\ byMinter \in [Users -> SUBSET Entries]
  /\ WithinCeiling(byIp) /\ WithinCeiling(byAccount) /\ WithinCeiling(byMinter)
  /\ active \in [Users -> BOOLEAN]
  /\ sessions \in [Sessions -> Session]
  /\ tokens \in [Tokens -> Token]
  /\ loggedOut \in SUBSET Sessions
  /\ req \in [Requests -> Request]
  /\ started \in 0 .. MaxRequests

Trying == {"selecting", "failing"}
TryingFrom(ip) == {r \in Requests : req[r].pc \in Trying /\ req[r].ip = ip}
TryingAs(a)    == {r \in Requests : req[r].pc \in Trying /\ req[r].account = a}

\* The gate of a login is passed long before its failure is recorded, so that a
\* bucket can exceed its budget; but never by more than the attempts that were
\* in flight together (check_login and record_failure of rate_limit.rs).
OverrunBoundedByOverlap ==
  /\ \A ip \in Ips : Cardinality(byIp[ip]) + Cardinality(TryingFrom(ip))
                       < MaxFailures + Cardinality(Requests)
  /\ \A a \in Accounts : Cardinality(byAccount[a]) + Cardinality(TryingAs(a))
                           < MaxAccountFailures + Cardinality(Requests)

FullBucket(bucket, limit, window) ==
  IF Full(bucket, limit) THEN {[entries |-> bucket, window |-> window]} ELSE {}
\* The full buckets because of which a request is refused.
Blocking(r) ==
  IF req[r].op = "login"
  THEN FullBucket(byIp[req[r].ip], MaxFailures, Window)
         \union FullBucket(byAccount[req[r].account], MaxAccountFailures, Window)
  ELSE FullBucket(byMinter[req[r].account], MaxTokenMints, TokenMintWindow)
LeftAt(b, t) == {e \in b.entries : t - e[1] < b.window}
\* What a 429 that tells the full buckets blocking at instant t to come back in
\* retry seconds has to mean: a client that does, or comes less than a second
\* later, finds that every one of them has lost an entry, so that one that is
\* just full has room; and it is sent away neither longer than the window nor,
\* unless for the one second that is the least, than some bucket stays as it is.
Promise(blocking, retry, t) ==
  LET later == t + retry * Second
  IN  /\ blocking # {} /\ retry >= 1
      /\ \A b \in blocking :
           Cardinality(LeftAt(b, later + Second - 1)) < Cardinality(b.entries)
      /\ \E b \in blocking :
           /\ retry * Second <= b.window
           /\ retry > 1 => LeftAt(b, later - 1) = b.entries
Truthful(r) == Promise(Blocking(r), req[r].retry, now)
\* Retry-After is true to less than a second, for attempts refused by an
\* address, an account or both and for mints.  A bucket that concurrent attempts
\* have pushed over its budget refuses again, but has come closer to having room.
RetryAfterIsTrue ==
  [][\A r \in Requests :
       req[r].pc # "refused" /\ req'[r].pc = "refused" => Truthful(r)']_vars

\* Keys of a table that are blocked and lose their bucket in this step.
Reset(table, next, limit) ==
  {k \in DOMAIN table : Full(prune(table, Window, now)[k], limit) /\ next[k] = {}}
\* Every key the table still holds is blocked.
AllBlocked(table, limit) ==
  LET held == prune(table, Window, now)
  IN  \A k \in Kept(held) : Full(held[k], limit)
OwnSuccess(a) == \E r \in Requests : LoggedIn(r) /\ req[r].account = a

\* What bound_keys keeps: a blocked address or account is let in early only when
\* every key of its table is blocked, so that one of them has to go; an account
\* also by a successful login of its own.  The process may have restarted.  (The
\* documents want more: see BlockSurvivesEviction.)
BlockedUntilItsWindowEnds ==
  [][/\ Reset(byIp, byIp', MaxFailures) # {} => AllBlocked(byIp, MaxFailures) \/ Restart
     /\ \A a \in Reset(byAccount, byAccount', MaxAccountFailures) :
          OwnSuccess(a) \/ AllBlocked(byAccount, MaxAccountFailures) \/ Restart]_vars
\* What the session-auth specification says: eviction resets no blocked key, in
\* neither map.
BlockSurvivesEviction ==
  [][/\ Reset(byIp, byIp', MaxFailures) # {} => Restart
     /\ \A a \in Reset(byAccount, byAccount', MaxAccountFailures) :
          OwnSuccess(a) \/ Restart]_vars

\* The limiter charges the client an attempt comes from, also behind proxies
\* and whatever the client put into the header before them.
ChargesTheClient ==
  \A r \in Requests : req[r].op = "login" => req[r].ip = req[r].from

CountedTokens(u) ==
  {k \in list_tokens(u) : /\ ~tokens[k].lost
                          /\ now - tokens[k].minted < TokenMintWindow}
Creating(u) ==
  {r \in Requests : /\ req[r].pc = "minting" /\ req[r].account = u
                    /\ now - req[r].at < TokenMintWindow}
\* However creates of one user overlap, fail and time out, the slots taken in a
\* window never exceed the budget and are exactly those of the tokens created
\* in it and of the creates in flight.  Only a handler dropped after its INSERT
\* gives back the slot of a token that exists.
MintBudgetIsExact ==
  \A u \in Users :
    LET slots == Cardinality(prune(byMinter, TokenMintWindow, now)[u])
    IN  /\ slots <= MaxTokenMints
        /\ slots = Cardinality(CountedTokens(u)) + Cardinality(Creating(u))

\* Once a logout has been answered 204, its session is not listed and never
\* authenticates again, although the handler decides in two statements.  That
\* rests on nothing making a user active again between the two: no code does.
LogoutIsFinal ==
  \A s \in loggedOut :
    ~SessionValid(s) /\ \A u \in Users : active[u] => s \notin Listed(u)
==============================================================================
