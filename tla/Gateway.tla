------------------------------ MODULE Gateway ------------------------------
(***************************************************************************)
(* The way into the API: accounts and API keys (api/v1/auth.py, the admin  *)
(* endpoints, AdminService), the authentication of signed requests and of  *)
(* admins (api/deps.py, core/security.py) and the sliding-window rate      *)
(* limiter in Redis (redis_client/rate_limit.py).                          *)
(*                                                                         *)
(* A step is what runs between two awaits; statements of PostgreSQL and    *)
(* commands of Redis are atomic.  Every handler below changes at most one  *)
(* row and commits at once, so its UPDATE or INSERT and its COMMIT are one *)
(* step.  Secrets are numbers in the order of their creation; hashing,     *)
(* signing and tokens are injective tuples.  last_used_at and labels are   *)
(* left out: nothing reads them.                                           *)
(***************************************************************************)
EXTENDS Integers, Sequences, FiniteSets, FiniteSetsExt

CONSTANTS
    Emails, Passwords,
    Root,           \* the email of the administrator of db/seed.py
    UserIds,        \* bound: accounts
    KeyIds,         \* bound: rows of api_keys
    Requests,       \* requests the server works on at once
    Permissions,    \* "trade", "read", "ws"
    Granted,        \* permission lists an admin passes to create_api_key
    NoUser, NoKey, Never,
    Limit,          \* rate_limit_per_min of a key made at login
    Window, Second, \* 60 s and 1 s in units of the clock
    Slack,          \* the 10 s by which the TTL exceeds the window
    Replay,         \* hmac_replay_window_seconds
    Session,        \* jwt_expires_minutes
    Profiles,       \* bounds, of which a behaviour has one: how long the clock
                    \* runs, whether accounts and keys are worked on, and
                    \* how far a client's clock may be off
    MaxTime,        \* bound: the clock, in any profile
    Errands,        \* bound: admin requests
    MaxSecrets      \* bound: secrets issued

ASSUME GatewayAssumption ==
    /\ UserIds \subseteq Nat \ {0} /\ KeyIds \subseteq Nat \ {0} /\ 1 \in UserIds
    /\ Root \in Emails /\ Passwords # {}
    /\ Limit \in Nat /\ Window \in Nat \ {0} /\ Second \in Nat \ {0} /\ Slack \in Nat
    /\ Replay \in Nat /\ Session \in Nat
    /\ MaxTime \in Nat /\ Errands \in Nat /\ MaxSecrets \in Nat \ {0} /\ 1 \in KeyIds
    /\ Profiles \subseteq [time : 0 .. MaxTime, accounts : BOOLEAN, skews : SUBSET Int]
    /\ Granted \subseteq SUBSET Permissions
    /\ NoUser \notin [email : Emails, password : {<<"bcrypt", p>> : p \in Passwords},
                      active : BOOLEAN, admin : BOOLEAN]
    /\ NoKey \notin [user : UserIds, secret : {<<"sha256", s>> : s \in 1 .. MaxSecrets},
                     revoked : BOOLEAN, perms : SUBSET Permissions]
    /\ Never \notin Int

VARIABLES
    profile, clock,
    users,      \* the users table
    keys,       \* the api_keys table
    tokens,     \* JWTs handed out
    issued,     \* history: the key and the user of every secret handed out
    zset,       \* ratelimit:{api_key}: time stamps of admitted requests
    expiry,     \* when Redis drops it
    req,        \* requests in progress
    admitted,   \* history: time stamps admitted, never forgotten
    promise,    \* history: when a rejected client was told to come back
    errands,    \* admin requests so far
    contested   \* history: users with overlapping first logins or an admin's key

tables == <<users, keys, tokens, issued>>
limiter == <<zset, expiry, admitted, promise>>
vars == <<profile, clock, tables, limiter, req, errands, contested>>

Idle == [pc |-> "idle", user |-> 0, email |-> Root, password |-> <<>>, admin |-> FALSE, key |-> 0,
         sig |-> <<>>, ts |-> 0, need |-> {}, row |-> NoKey, at |-> 0, late |-> FALSE]

Finish(r) == req' = [req EXCEPT ![r] = Idle]

-----------------------------------------------------------------------------
(* core/security.py.                                                       *)

hash_password(p) == <<"bcrypt", p>>

verify_password(p, hashed) == hash_password(p) = hashed

hash_api_secret(s) == <<"sha256", s>>

compute_signature(secret, ts) == <<"hmac", secret, ts>>

verify_signature(secret, ts, provided) ==
    /\ clock - ts <= Replay /\ ts - clock <= Replay
    /\ compute_signature(secret, ts) = provided

create_jwt_token(user) == [user |-> user, is_admin |-> TRUE, exp |-> clock + Session]

decode_jwt_token(token) == token \in tokens /\ clock < token.exp

-----------------------------------------------------------------------------
(* Repositories.                                                           *)

get_by_email(email) == {u \in UserIds : users[u] # NoUser /\ users[u].email = email}

LiveKeys(user) == {k \in KeyIds : keys[k] # NoKey /\ keys[k].user = user /\ ~keys[k].revoked}

\* The serial columns: the next free id.
NextUser(u) == users[u] = NoUser /\ \A v \in UserIds : v < u => users[v] # NoUser

NextKey(k) == keys[k] = NoKey /\ \A l \in KeyIds : l < k => keys[l] # NoKey

Fresh == Len(issued) + 1

\* History: the key has changed under the requests that have read its row.
Holding(k) == {q \in Requests : req[q].key = k /\ req[q].row # NoKey}

FinishOvertaking(r, k) ==
    req' = [q \in Requests |-> IF q = r THEN Idle
                               ELSE [req[q] EXCEPT !.late = @ \/ q \in Holding(k)]]

-----------------------------------------------------------------------------
(* Accounts.                                                               *)

\* register, and create_user, which may make admins: no such email yet.
RegisterRead(r, email, p, admin) ==
    /\ req[r].pc = "admin" \/ (req[r].pc = "idle" /\ ~admin)
    /\ get_by_email(email) = {}
    /\ req' = [req EXCEPT ![r] = [Idle EXCEPT !.pc = "insert", !.email = email, !.admin = admin,
                                              !.password = hash_password(p)]]
    /\ UNCHANGED <<profile, clock, tables, limiter, errands, contested>>

\* Mutant: no unique constraint on users.email.
InsertAnyway(r, u) ==
    /\ req[r].pc = "insert" /\ NextUser(u)
    /\ users' = [users EXCEPT ![u] = [email |-> req[r].email, password |-> req[r].password,
                                      active |-> TRUE, admin |-> req[r].admin]]
    /\ Finish(r)
    /\ UNCHANGED <<profile, clock, keys, tokens, issued, limiter, errands, contested>>

\* INSERT; the unique constraint refuses an email that appeared meanwhile.
RegisterInsert(r, u) ==
    /\ req[r].pc = "insert" /\ NextUser(u)
    /\ users' = IF get_by_email(req[r].email) # {} THEN users
                ELSE [users EXCEPT ![u] = [email |-> req[r].email, password |-> req[r].password,
                                           active |-> TRUE, admin |-> req[r].admin]]
    /\ Finish(r)
    /\ UNCHANGED <<profile, clock, keys, tokens, issued, limiter, errands, contested>>

\* login: a wrong password or an inactive account is refused at once.
LoginRead(r, u, p) ==
    /\ req[r].pc = "idle"
    /\ users[u] # NoUser /\ users[u].active /\ verify_password(p, users[u].password)
    /\ req' = [req EXCEPT ![r] = [Idle EXCEPT !.pc = "keys", !.user = u]]
    /\ UNCHANGED <<profile, clock, tables, limiter, errands, contested>>

\* Mutant: a login always makes a new key.
LoginAlwaysCreates(r) ==
    /\ req[r].pc = "keys"
    /\ req' = [req EXCEPT ![r].pc = "create"]
    /\ UNCHANGED <<profile, clock, tables, limiter, errands, contested>>

\* scalar_one_or_none raises when the user has two live keys: status 500.
LoginKeys(r) ==
    LET live == LiveKeys(req[r].user)
    IN  /\ req[r].pc = "keys"
        /\ \/ live = {} /\ req' = [req EXCEPT ![r].pc = "create"]
           \/ \E k \in live : live = {k} /\ req' = [req EXCEPT ![r].pc = "rotate", ![r].key = k]
           \/ Cardinality(live) > 1 /\ Finish(r)
        /\ UNCHANGED <<profile, clock, tables, limiter, errands, contested>>

\* The row of a new key; its owner gets the secret once.
NewKey(k, user, perms) ==
    /\ NextKey(k) /\ Fresh <= MaxSecrets
    /\ keys' = [keys EXCEPT ![k] = [user |-> user, secret |-> hash_api_secret(Fresh),
                                    revoked |-> FALSE, perms |-> perms]]
    /\ issued' = Append(issued, [key |-> k, user |-> user])

LoginCreate(r, k) ==
    LET u == req[r].user
    IN  /\ req[r].pc = "create"
        /\ NewKey(k, u, Permissions)
        /\ contested' = IF \E q \in Requests \ {r} : req[q].pc = "create" /\ req[q].user = u
                        THEN contested \cup {u} ELSE contested
        /\ Finish(r)
        /\ UNCHANGED <<profile, clock, users, tokens, limiter, errands>>

\* The key's secret is replaced; a key revoked meanwhile stays revoked.
LoginRotate(r) ==
    LET k == req[r].key
    IN  /\ req[r].pc = "rotate" /\ Fresh <= MaxSecrets
        /\ keys' = [keys EXCEPT ![k].secret = hash_api_secret(Fresh)]
        /\ issued' = Append(issued, [key |-> k, user |-> req[r].user])
        /\ FinishOvertaking(r, k)
        /\ UNCHANGED <<profile, clock, users, tokens, limiter, errands, contested>>

-----------------------------------------------------------------------------
(* Administration.                                                         *)

\* admin_login.
AdminLogin(u, p) ==
    /\ users[u] # NoUser /\ users[u].active /\ verify_password(p, users[u].password)
    /\ users[u].admin
    /\ tokens' = tokens \cup {create_jwt_token(u)}
    /\ UNCHANGED <<profile, clock, users, keys, issued, limiter, req, errands, contested>>

\* authenticate_admin: the claim is the token's, the activity the row's.
AdminAuthenticate(r, token) ==
    /\ req[r].pc = "idle"
    /\ decode_jwt_token(token) /\ token.is_admin
    /\ users[token.user] # NoUser /\ users[token.user].active
    /\ errands < Errands /\ errands' = errands + 1
    /\ req' = [req EXCEPT ![r] = [Idle EXCEPT !.pc = "admin"]]
    /\ UNCHANGED <<profile, clock, tables, limiter, contested>>

toggle_user_active(r, u, active) ==
    /\ req[r].pc = "admin" /\ users[u] # NoUser
    /\ users' = [users EXCEPT ![u].active = active]
    /\ Finish(r)
    /\ UNCHANGED <<profile, clock, keys, tokens, issued, limiter, errands, contested>>

\* The foreign key refuses an unknown user; an empty list means every permission.
create_api_key(r, k, u, perms) ==
    /\ req[r].pc = "admin" /\ users[u] # NoUser
    /\ NewKey(k, u, IF perms = {} THEN Permissions ELSE perms)
    /\ contested' = contested \cup {u}
    /\ Finish(r)
    /\ UNCHANGED <<profile, clock, users, tokens, limiter, errands>>

revoke_api_key(r, k) ==
    /\ req[r].pc = "admin" /\ keys[k] # NoKey
    /\ keys' = [keys EXCEPT ![k].revoked = TRUE]
    /\ FinishOvertaking(r, k)
    /\ UNCHANGED <<profile, clock, users, tokens, issued, limiter, errands, contested>>

-----------------------------------------------------------------------------
(* A signed request: authenticate_request, the limiter, the permission.    *)

\* A client signs with a secret it was given.  Requests without the three headers
\* or with a malformed time stamp are refused at once.
Call(r, k, s, skew) ==
    /\ req[r].pc = "idle" /\ s \in DOMAIN issued
    /\ req' = [req EXCEPT ![r] = [Idle EXCEPT !.pc = "lookup", !.key = k, !.ts = clock + skew,
                                     !.sig = compute_signature(hash_api_secret(s), clock + skew)]]
    /\ UNCHANGED <<profile, clock, tables, limiter, errands, contested>>

\* Mutant: is_revoked is not looked at.
LookupRevoked(r) ==
    /\ req[r].pc = "lookup"
    /\ IF keys[req[r].key] = NoKey THEN Finish(r)
       ELSE req' = [req EXCEPT ![r].pc = "verify", ![r].row = keys[req[r].key]]
    /\ UNCHANGED <<profile, clock, tables, limiter, errands, contested>>

\* _lookup_api_key and the test of is_revoked.
Lookup(r) ==
    LET row == keys[req[r].key]
    IN  /\ req[r].pc = "lookup"
        /\ IF row = NoKey \/ (row # NoKey /\ row.revoked) THEN Finish(r)
           ELSE req' = [req EXCEPT ![r].pc = "verify", ![r].row = row]
        /\ UNCHANGED <<profile, clock, tables, limiter, errands, contested>>

\* After the body has arrived.  check_and_consume reads the clock in the same step.
Verify(r) ==
    /\ req[r].pc = "verify"
    /\ IF verify_signature(req[r].row.secret, req[r].ts, req[r].sig)
       THEN req' = [req EXCEPT ![r].pc = "count", ![r].at = clock] ELSE Finish(r)
    /\ UNCHANGED <<profile, clock, tables, limiter, errands, contested>>

Allowed(count) == count < Limit

Ttl == Window + Slack

\* Mutant: entries up to now are evicted.
RecentNone(k, at) == {t \in zset[k] : t > at}

\* ZREMRANGEBYSCORE 0 (now - window) leaves these.
Recent(k, at) == {t \in zset[k] : t > at - Window}

\* The pipeline of ZREMRANGEBYSCORE, ZCARD, EXPIRE, which ignores a missing key.
Count(r) ==
    LET k == req[r].key
        kept == Recent(k, req[r].at)
    IN  /\ req[r].pc = "count"
        /\ zset' = [zset EXCEPT ![k] = kept]
        /\ expiry' = [expiry EXCEPT ![k] = IF kept = {} THEN Never ELSE clock + Ttl]
        /\ req' = [req EXCEPT ![r].pc = IF Allowed(Cardinality(kept)) THEN "add" ELSE "oldest"]
        /\ UNCHANGED <<profile, clock, tables, admitted, promise, errands, contested>>

\* The member and the score: the clock when the limiter was called.
Stamp(r) == req[r].at

\* ZADD: requests of the same microsecond are one member.
Add(r) ==
    LET k == req[r].key
    IN  /\ req[r].pc = "add"
        /\ zset' = [zset EXCEPT ![k] = @ \cup {Stamp(r)}]
        /\ admitted' = [admitted EXCEPT ![k] = @ \cup {Stamp(r)}]
        /\ promise' = [promise EXCEPT ![k] = Never]
        /\ req' = [req EXCEPT ![r].pc = "permit"]
        /\ UNCHANGED <<profile, clock, tables, expiry, errands, contested>>

\* Mutant: the fraction of a second is dropped.
RetryTruncated(k, at) == IF zset[k] = {} THEN 1 ELSE Max({1, (Min(zset[k]) + Window - at) \div Second})

retry_after(k, at) == IF zset[k] = {} THEN 1 ELSE Max({1, (Min(zset[k]) + Window - at) \div Second + 1})

\* ZRANGE 0 0 and the 429.  History: the promise, when the window was not overfull
\* and no other request is at the limiter (one beyond the bound of the clock is
\* not worth keeping).
Reject(r) ==
    LET k == req[r].key
        again == req[r].at + retry_after(k, req[r].at) * Second
        alone == \A q \in Requests \ {r} : req[q].pc \notin {"count", "add", "oldest"}
    IN  /\ req[r].pc = "oldest"
        /\ promise' = [promise EXCEPT ![k] =
                IF alone /\ Cardinality(zset[k]) <= Limit /\ again <= profile.time THEN again ELSE Never]
        /\ Finish(r)
        /\ UNCHANGED <<profile, clock, tables, zset, expiry, admitted, errands, contested>>

\* require_permission of the route, then the handler.
Permit(r, need) ==
    /\ req[r].pc = "permit"
    /\ IF need \in req[r].row.perms THEN req' = [req EXCEPT ![r].pc = "served", ![r].need = {need}] ELSE Finish(r)
    /\ UNCHANGED <<profile, clock, tables, limiter, errands, contested>>

Respond(r) ==
    /\ req[r].pc = "served"
    /\ Finish(r)
    /\ UNCHANGED <<profile, clock, tables, limiter, errands, contested>>

\* A lost connection, to Redis, PostgreSQL or the client.
RequestDies(r) ==
    /\ req[r].pc \notin {"idle", "served"}
    /\ Finish(r)
    /\ UNCHANGED <<profile, clock, tables, limiter, errands, contested>>

-----------------------------------------------------------------------------
\* Redis drops an expired key.
Expire(k) ==
    /\ expiry[k] # Never /\ clock >= expiry[k]
    /\ zset' = [zset EXCEPT ![k] = {}] /\ expiry' = [expiry EXCEPT ![k] = Never]
    /\ UNCHANGED <<profile, clock, tables, req, admitted, promise, errands, contested>>

Tick ==
    /\ clock < profile.time /\ clock' = clock + 1
    /\ UNCHANGED <<profile, tables, limiter, req, errands, contested>>

\* db/seed.py: one administrator, no keys.  Where accounts are not worked on, the
\* administrator has logged in once before.
Init ==
    /\ profile \in Profiles
    /\ clock = 0 /\ tokens = {} /\ errands = 0 /\ contested = {}
    /\ \E p \in Passwords :
        users = [u \in UserIds |-> IF u # 1 THEN NoUser
                                   ELSE [email |-> Root, password |-> hash_password(p),
                                         active |-> TRUE, admin |-> TRUE]]
    /\ issued = IF profile.accounts THEN <<>> ELSE << [key |-> 1, user |-> 1] >>
    /\ keys = [k \in KeyIds |-> IF profile.accounts \/ k # 1 THEN NoKey
                               ELSE [user |-> 1, secret |-> hash_api_secret(1), revoked |-> FALSE,
                                     perms |-> Permissions]]
    /\ zset = [k \in KeyIds |-> {}] /\ admitted = [k \in KeyIds |-> {}]
    /\ expiry = [k \in KeyIds |-> Never] /\ promise = [k \in KeyIds |-> Never]
    /\ req = [r \in Requests |-> Idle]

Account(r) ==
    \/ \E e \in Emails, p \in Passwords, admin \in BOOLEAN : RegisterRead(r, e, p, admin)
    \/ \E u \in UserIds : RegisterInsert(r, u) \/ \E p \in Passwords : LoginRead(r, u, p)
    \/ LoginKeys(r) \/ LoginRotate(r) \/ \E k \in KeyIds : LoginCreate(r, k)

Admin(r) ==
    \/ \E token \in tokens : AdminAuthenticate(r, token)
    \/ \E u \in UserIds, active \in BOOLEAN : toggle_user_active(r, u, active)
    \/ \E k \in KeyIds, u \in UserIds, perms \in Granted : create_api_key(r, k, u, perms)
    \/ \E k \in KeyIds : revoke_api_key(r, k)

Signed(r) ==
    \/ \E k \in KeyIds, s \in 1 .. MaxSecrets, skew \in profile.skews : Call(r, k, s, skew)
    \/ Lookup(r) \/ Verify(r) \/ Count(r) \/ Add(r) \/ Reject(r) \/ Respond(r)
    \/ \E need \in Permissions : Permit(r, need)

Next ==
    \/ \E r \in Requests : (profile.accounts /\ (Account(r) \/ Admin(r))) \/ Signed(r) \/ RequestDies(r)
    \/ profile.accounts /\ \E u \in UserIds, p \in Passwords : AdminLogin(u, p)
    \/ \E k \in KeyIds : Expire(k)
    \/ Tick

Spec == Init /\ [][Next]_vars
-----------------------------------------------------------------------------
(* Properties.                                                             *)

UserRow == [email : Emails, password : {hash_password(p) : p \in Passwords}, active : BOOLEAN, admin : BOOLEAN]
KeyRow == [user : UserIds, secret : {hash_api_secret(s) : s \in 1 .. MaxSecrets}, revoked : BOOLEAN,
           perms : SUBSET Permissions]

\* Every variable has the shape the code gives it; a time stamp of the limiter is
\* never in the future.
TypeOK ==
    /\ profile \in Profiles /\ clock \in 0 .. profile.time
    /\ users \in [UserIds -> UserRow \cup {NoUser}]
    /\ keys \in [KeyIds -> KeyRow \cup {NoKey}]
    /\ \A t \in tokens : t.user \in UserIds /\ t.exp \in Nat
    /\ issued \in Seq([key : KeyIds, user : UserIds])
    /\ zset \in [KeyIds -> SUBSET (0 .. clock)] /\ admitted \in [KeyIds -> SUBSET (0 .. clock)]
    /\ \A k \in KeyIds : expiry[k] = Never \/ expiry[k] \in Nat
    /\ \A r \in Requests : req[r].at \in 0 .. clock /\ (req[r].pc \in {"count", "add", "oldest"} => req[r].key \in KeyIds)
    /\ errands \in 0 .. Errands /\ contested \subseteq UserIds

\* No two accounts have one email, although register and create_user look first
\* and insert later: get_by_email never raises MultipleResultsFound.  All state
\* keeps its type.
EmailsUnique == TypeOK /\ \A e \in Emails : Cardinality(get_by_email(e)) <= 1

\* A user has one live key, so that login works, unless two first logins
\* overlapped or an admin made a key for the user.
OneLiveKey == \A u \in UserIds \ contested : Cardinality(LiveKeys(u)) <= 1

\* Who a served request acts for: it is signed, within the replay window of the
\* server's clock, with a secret that was handed to the owner of the key, the key
\* grants the permission, and if the key has been revoked or its secret replaced,
\* that was after the request had read it.
ServedIsAuthentic ==
    \A r \in Requests : req[r].pc = "served" =>
        /\ \E s \in DOMAIN issued :
             /\ req[r].sig = compute_signature(hash_api_secret(s), req[r].ts)
             /\ issued[s] = [key |-> req[r].key, user |-> req[r].row.user]
        /\ req[r].at - req[r].ts \in -Replay .. Replay
        /\ req[r].need \subseteq keys[req[r].key].perms
        /\ keys[req[r].key].revoked \/ keys[req[r].key].secret # req[r].row.secret => req[r].late

\* A client that comes back when the 429 told it to is not rejected again, if
\* nobody else was at the limiter or was admitted meanwhile, and races had not
\* overfilled the window.
RetryAfterHonest ==
    \A r \in Requests : req[r].pc = "oldest" =>
        promise[req[r].key] = Never \/ req[r].at < promise[req[r].key]

\* The limiter implements a window limit: all requests in progress may pass the
\* check before one adds its entry, and again as many may have read the clock
\* long before their check.
Sliding == INSTANCE WindowLimit WITH Keys <- KeyIds, Times <- 0 .. MaxTime,
                                     Bound <- Limit + 2 * Cardinality(Requests) - 1
ImplementsWindowLimit == Sliding!Spec

=============================================================================
